--------------------------- MODULE ScoringProofs ---------------------------
(***************************************************************************)
(* Proofs about Scoring, for every sample, rule file, shard, number of      *)
(* workers and cap.                                                         *)
(*                                                                          *)
(* The inductive invariant says of every tracer what it holds (Holds) and   *)
(* what it has recorded (Records) of the steps it was told, of which `told` *)
(* is the log: its own while the workers run, all of them once they are     *)
(* merged.  One tracer that replays the log meets the same description, so  *)
(* that both show the same to the signatures: the same indicators, and      *)
(* events that mirror each other, in an order of their own.                 *)
(*                                                                          *)
(* The signatures are monotone: more indicators and events of a view give   *)
(* more reasons of it.  Two runs that show each other their evidence have   *)
(* the same verdict, and a run that shows more has no lower score.          *)
(***************************************************************************)
EXTENDS Scoring, FiniteSetTheorems, SequenceTheorems, TLAPS

-----------------------------------------------------------------------------
(* Induction, stated for sets because a set can be handed to the provers *)

\* A set of natural numbers that is not empty has a least element.
LEMMA LeastOf ==
  ASSUME NEW T \in SUBSET Nat, T # {}
  PROVE  \E m \in T : \A k \in T : m <= k
<1> DEFINE below == {0..n : n \in T}
<1>1. below \subseteq FiniteSubsetsOf(Nat) /\ below # {}
  <2>1. \A n \in T : IsFiniteSet(0..n) /\ 0..n \in SUBSET Nat
    BY FS_Interval
  <2> QED
    BY <2>1 DEF FiniteSubsetsOf
<1>2. PICK x \in below : \A y \in below : <<y, x>> \notin StrictSubsetOrdering(Nat)
  BY <1>1, FS_StrictSubsetOrderingWellFounded, WFMin
<1>3. PICK m \in T : x = 0..m
  BY <1>2
<1>4. ASSUME NEW k \in T, k < m PROVE FALSE
  <2>1. 0..k \in below /\ 0..k \subseteq 0..m /\ m \notin 0..k /\ m \in 0..m
    BY <1>4
  <2>2. <<0..k, 0..m>> \in StrictSubsetOrdering(Nat)
    BY <2>1 DEF StrictSubsetOrdering
  <2> QED
    BY <1>2, <1>3, <2>1, <2>2
<1> QED
  BY <1>4

\* Induction up to n.
LEMMA UpTo ==
  ASSUME NEW S, NEW n \in Nat, 0 \in S, \A i \in 0..(n - 1) : i \in S => i + 1 \in S
  PROVE  0..n \subseteq S
<1> SUFFICES ASSUME ~(0..n \subseteq S) PROVE FALSE
    OBVIOUS
<1> DEFINE T == {i \in 0..n : i \notin S}
<1>1. T \in SUBSET Nat /\ T # {}
  OBVIOUS
<1>2. PICK m \in T : \A k \in T : m <= k
  BY <1>1, LeastOf
<1>3. m # 0 /\ m - 1 \in 0..(n - 1) /\ m - 1 \notin T
  BY <1>2
<1> QED
  BY <1>2, <1>3

\* Induction over the subsets of a finite set.
LEMMA UpToSubsets ==
  ASSUME NEW S, IsFiniteSet(S), NEW Q,
         \A s \in SUBSET S : (\A r \in SUBSET s : r # s => r \in Q) => s \in Q
  PROVE  SUBSET S \subseteq Q
<1> SUFFICES ASSUME ~(SUBSET S \subseteq Q) PROVE FALSE
    OBVIOUS
<1> DEFINE T == {s \in SUBSET S : s \notin Q}
<1>1. T \subseteq FiniteSubsetsOf(S) /\ T # {}
  BY FS_FiniteSubsetsOfFinite
<1>2. \E m \in T : \A k \in T : <<k, m>> \notin StrictSubsetOrdering(S)
  <2>1. IsWellFoundedOn(StrictSubsetOrdering(S), FiniteSubsetsOf(S))
    BY FS_StrictSubsetOrderingWellFounded
  <2> HIDE DEF T
  <2> QED
    BY <1>1, <2>1, WFMin
<1> PICK m \in T : \A k \in T : <<k, m>> \notin StrictSubsetOrdering(S)
  BY <1>2
<1>3. PICK r \in SUBSET m : r # m /\ r \notin Q
  OBVIOUS
<1>4. r \in T /\ <<r, m>> \in StrictSubsetOrdering(S)
  BY <1>3 DEF StrictSubsetOrdering
<1> QED
  BY <1>4

-----------------------------------------------------------------------------
(* Folds over a finite set *)

\* The element a fold takes next.
First(s) == CHOOSE x \in s : TRUE

\* What a fold takes next is in the set.
LEMMA FirstIsIn == ASSUME NEW s, s # {} PROVE First(s) \in s
BY DEF First

\* The equations of a fold, on every subset.
Folding(S, V, base, F, g) ==
  /\ g \in [SUBSET S -> V]
  /\ \A s \in SUBSET S : g[s] = IF s = {} THEN base ELSE F[<<First(s), g[s \ {First(s)}]>>]

\* A fold exists: the function that the library's definition recurs over.
LEMMA FoldExists ==
  ASSUME NEW S, IsFiniteSet(S), NEW V, NEW base, base \in V, NEW F, F \in [S \X V -> V]
  PROVE  \E g : Folding(S, V, base, F, g)
<1> DEFINE upto(n) == {s \in SUBSET S : Cardinality(s) <= n}
           folds(g, n) == /\ g \in [upto(n) -> V]
                          /\ \A s \in upto(n) :
                               g[s] = IF s = {} THEN base ELSE F[<<First(s), g[s \ {First(s)}]>>]
           Q == {n \in Nat : \E g : folds(g, n)}
<1>1. Cardinality(S) \in Nat /\ upto(Cardinality(S)) = SUBSET S
  BY FS_CardinalityType, FS_Subset
<1>2. \A s \in SUBSET S : IsFiniteSet(s) /\ Cardinality(s) \in Nat
  BY FS_CardinalityType, FS_Subset
<1>3. 0 \in Q
  <2>1. upto(0) = {{}}
    BY <1>2, FS_EmptySet
  <2> DEFINE g == [s \in upto(0) |-> base]
  <2>2. folds(g, 0)
    BY <2>1
  <2> QED
    BY <2>2
<1>4. ASSUME NEW n \in 0..(Cardinality(S) - 1), n \in Q PROVE n + 1 \in Q
  <2>1. PICK g : folds(g, n)
    BY <1>4
  <2>2. ASSUME NEW s \in upto(n + 1), s # {}
        PROVE  First(s) \in S /\ s \ {First(s)} \in upto(n) /\ s \ {First(s)} \in upto(n + 1)
    <3>1. First(s) \in s /\ IsFiniteSet(s) /\ Cardinality(s) \in Nat /\ Cardinality(s) <= n + 1
      BY <1>2, <2>2, FirstIsIn
    <3>2. Cardinality(s \ {First(s)}) = Cardinality(s) - 1
      BY <3>1, FS_RemoveElement
    <3> QED
      BY <3>1, <3>2, <1>1, <1>4
  <2> DEFINE h == [s \in upto(n + 1) |-> IF s = {} THEN base ELSE F[<<First(s), g[s \ {First(s)}]>>]]
  <2>3. h \in [upto(n + 1) -> V]
    BY <2>1, <2>2
  <2>4. \A s \in upto(n) : s \in upto(n + 1) /\ h[s] = g[s]
    <3>1. \A s \in upto(n) : s \in upto(n + 1)
      BY <1>1, <1>2, <1>4
    <3> QED
      BY <2>1, <3>1
  <2>5. \A s \in upto(n + 1) : h[s] = IF s = {} THEN base ELSE F[<<First(s), h[s \ {First(s)}]>>]
    BY <2>2, <2>4
  <2> HIDE DEF h, upto
  <2>6. folds(h, n + 1)
    BY <2>3, <2>5
  <2>7. n + 1 \in Nat
    BY <1>1, <1>4
  <2> QED
    BY <2>6, <2>7
<1>5. 0..Cardinality(S) \subseteq Q
  <2> HIDE DEF Q
  <2> QED
    BY <1>1, <1>3, <1>4, UpTo
<1>6. Cardinality(S) \in Q
  <2> HIDE DEF Q
  <2> QED
    BY <1>1, <1>5
<1>7. PICK g : folds(g, Cardinality(S))
  BY <1>6
<1> QED
  BY <1>1, <1>7 DEF Folding

-----------------------------------------------------------------------------
(* Adding indicators to a set *)

\* The function inside AddAll.
IsAdding(iocs, pairs, g) ==
  g = [s \in SUBSET pairs |-> IF s = {} THEN iocs ELSE Add(g[s \ {CHOOSE x \in s : TRUE}], CHOOSE x \in s : TRUE)]

\* AddAll is the fold that its definition names.
LEMMA AddingIsFold ==
  ASSUME NEW iocs, NEW pairs
  PROVE  AddAll(iocs, pairs) = (CHOOSE g : IsAdding(iocs, pairs, g))[pairs]
BY DEF AddAll, FoldSet, MapThenFoldSet, IsAdding

\* Its equations.
Adding(iocs, pairs, g) ==
  /\ g \in [SUBSET pairs -> SUBSET (iocs \cup pairs)]
  /\ AddAll(iocs, pairs) = g[pairs]
  /\ \A s \in SUBSET pairs : g[s] = IF s = {} THEN iocs ELSE Add(g[s \ {First(s)}], First(s))

\* For finitely many pairs the fold is a function, so its equations hold.
LEMMA AddingExists ==
  ASSUME NEW iocs, NEW pairs, IsFiniteSet(pairs)
  PROVE  \E g : Adding(iocs, pairs, g)
<1> DEFINE V == SUBSET (iocs \cup pairs)
           F == [z \in pairs \X V |-> Add(z[2], z[1])]
<1>1. F \in [pairs \X V -> V]
  BY DEF Add
<1>2. PICK g : Folding(pairs, V, iocs, F, g)
  <2> HIDE DEF F
  <2>1. iocs \in V
    OBVIOUS
  <2> HIDE DEF V
  <2> QED
    BY <1>1, <2>1, FoldExists
<1>2a. /\ g \in [SUBSET pairs -> V]
       /\ \A s \in SUBSET pairs : g[s] = IF s = {} THEN iocs ELSE F[<<First(s), g[s \ {First(s)}]>>]
  BY <1>2 DEF Folding
<1>3. \A s \in SUBSET pairs : g[s] = IF s = {} THEN iocs ELSE Add(g[s \ {First(s)}], First(s))
  <2> SUFFICES ASSUME NEW s \in SUBSET pairs, s # {}
               PROVE  g[s] = Add(g[s \ {First(s)}], First(s))
      BY <1>2a
  <2>1. First(s) \in pairs /\ g[s \ {First(s)}] \in V
    BY <1>2a, FirstIsIn
  <2>2. F[<<First(s), g[s \ {First(s)}]>>] = Add(g[s \ {First(s)}], First(s))
    BY <2>1
  <2> QED
    BY <1>2a, <2>2
<1>4. IsAdding(iocs, pairs, g)
  <2>1. g = [s \in SUBSET pairs |-> g[s]]
    BY <1>2a
  <2> QED
    BY <1>3, <2>1 DEF IsAdding, First
<1>5. \A h : IsAdding(iocs, pairs, h) => h = g
  <2> SUFFICES ASSUME NEW h, IsAdding(iocs, pairs, h) PROVE h = g
      OBVIOUS
  <2>1. /\ h = [s \in SUBSET pairs |-> h[s]]
        /\ \A s \in SUBSET pairs : h[s] = IF s = {} THEN iocs ELSE Add(h[s \ {First(s)}], First(s))
    BY DEF IsAdding, First
  <2> DEFINE Q == {s \in SUBSET pairs : h[s] = g[s]}
  <2>2. ASSUME NEW s \in SUBSET pairs, \A r \in SUBSET s : r # s => r \in Q PROVE s \in Q
    <3>1. CASE s = {}
      BY <3>1, <2>1, <1>3
    <3>2. CASE s # {}
      <4>1. s \ {First(s)} \in SUBSET s /\ s \ {First(s)} # s
        BY <3>2, FirstIsIn
      <4>2. h[s \ {First(s)}] = g[s \ {First(s)}]
        BY <2>2, <4>1
      <4> QED
        BY <3>2, <2>1, <1>3, <4>2
    <3> QED
      BY <3>1, <3>2
  <2>3. SUBSET pairs \subseteq Q
    <3> HIDE DEF Q
    <3> QED
      BY <2>2, UpToSubsets
  <2>4. \A s \in SUBSET pairs : h[s] = g[s]
    BY <2>3
  <2>5. g = [s \in SUBSET pairs |-> g[s]]
    BY <1>2a
  <2> QED
    BY <2>1, <2>4, <2>5
<1>6. AddAll(iocs, pairs) = g[pairs]
  <2>1. (CHOOSE h : IsAdding(iocs, pairs, h)) = g
    BY <1>4, <1>5
  <2> QED
    BY <2>1, AddingIsFold
<1> QED
  BY <1>2a, <1>3, <1>6 DEF Adding

\* Nothing is lost, and nothing comes from elsewhere.
LEMMA AddingGrows ==
  ASSUME NEW iocs, NEW pairs, IsFiniteSet(pairs)
  PROVE  iocs \subseteq AddAll(iocs, pairs) /\ AddAll(iocs, pairs) \subseteq iocs \cup pairs
<1>1. PICK g : Adding(iocs, pairs, g)
  BY AddingExists
<1>1a. /\ g \in [SUBSET pairs -> SUBSET (iocs \cup pairs)]
       /\ AddAll(iocs, pairs) = g[pairs]
       /\ \A s \in SUBSET pairs : g[s] = IF s = {} THEN iocs ELSE Add(g[s \ {First(s)}], First(s))
  BY <1>1 DEF Adding
<1> DEFINE Q == {s \in SUBSET pairs : iocs \subseteq g[s]}
<1>2. ASSUME NEW s \in SUBSET pairs, \A r \in SUBSET s : r # s => r \in Q PROVE s \in Q
  <2>1. CASE s = {}
    BY <2>1, <1>1a
  <2>2. CASE s # {}
    <3>1. s \ {First(s)} \in SUBSET s /\ s \ {First(s)} # s
      BY <2>2, FirstIsIn
    <3>2. iocs \subseteq g[s \ {First(s)}]
      BY <1>2, <3>1
    <3> QED
      BY <2>2, <1>1a, <3>2 DEF Add
  <2> QED
    BY <2>1, <2>2
<1>3. SUBSET pairs \subseteq Q
  <2> HIDE DEF Q
  <2> QED
    BY <1>2, UpToSubsets
<1> QED
  BY <1>1a, <1>3

\* The indicators of one kind.
LEMMA OfKind ==
  ASSUME NEW S, IsFiniteSet(S), NEW f
  PROVE  /\ IsFiniteSet(In(S, {f})) /\ Cardinality(In(S, {f})) \in Nat
         /\ \A T \in SUBSET S : /\ IsFiniteSet(In(T, {f})) /\ Cardinality(In(T, {f})) \in Nat
                                /\ Cardinality(In(T, {f})) <= Cardinality(In(S, {f}))
<1> DEFINE K == {q \in S : q[1] \in {f}}
           sec == [q \in K |-> q[2]]
<1>1. IsFiniteSet(K)
  BY FS_Subset
<1>2. sec \in Surjection(K, In(S, {f}))
  BY DEF Surjection, In
<1>3. IsFiniteSet(In(S, {f}))
  <2> HIDE DEF K, sec
  <2> QED
    BY <1>1, <1>2, FS_Surjection
<1>4. \A T \in SUBSET S : In(T, {f}) \in SUBSET In(S, {f})
  BY DEF In
<1> QED
  BY <1>3, <1>4, FS_Subset, FS_CardinalityType

\* As long as everything there is fits, nothing is dropped.
LEMMA AddingFits ==
  ASSUME NEW iocs, NEW pairs, IsFiniteSet(pairs), NEW A, IsFiniteSet(A), A \subseteq Fields \X Items,
         \A f \in Fields : Cardinality(In(A, {f})) <= MaxIOC, iocs \cup pairs \subseteq A
  PROVE  AddAll(iocs, pairs) = iocs \cup pairs
<1>1. PICK g : Adding(iocs, pairs, g)
  BY AddingExists
<1>1a. /\ g \in [SUBSET pairs -> SUBSET (iocs \cup pairs)]
       /\ AddAll(iocs, pairs) = g[pairs]
       /\ \A s \in SUBSET pairs : g[s] = IF s = {} THEN iocs ELSE Add(g[s \ {First(s)}], First(s))
  BY <1>1 DEF Adding
<1>2. ASSUME NEW acc \in SUBSET A, NEW p \in A, p \notin acc PROVE Cardinality(In(acc, {p[1]})) < MaxIOC
  <2> DEFINE f == p[1]
  <2>1. f \in Fields /\ p = <<p[1], p[2]>>
    OBVIOUS
  <2>2. In(acc, {f}) \in SUBSET In(A, {f}) /\ p[2] \in In(A, {f})
    BY DEF In
  <2>3. p[2] \notin In(acc, {f})
    <3> SUFFICES ASSUME NEW q \in acc, q[1] = f, q[2] = p[2] PROVE FALSE
        BY DEF In
    <3>1. q \in A /\ q = <<q[1], q[2]>>
      OBVIOUS
    <3> QED
      BY <2>1, <3>1, <1>2
  <2> HIDE DEF f
  <2>4. /\ IsFiniteSet(In(A, {f})) /\ Cardinality(In(A, {f})) \in Nat /\ Cardinality(In(acc, {f})) \in Nat
        /\ Cardinality(In(A, {f})) <= MaxIOC
    BY <2>1, OfKind
  <2>5. Cardinality(In(acc, {f})) <= Cardinality(In(A, {f})) /\ Cardinality(In(acc, {f})) # Cardinality(In(A, {f}))
    BY <2>2, <2>3, <2>4, FS_Subset
  <2>6. Cardinality(In(acc, {f})) < MaxIOC
    BY <2>4, <2>5, CapAssumption
  <2> QED
    BY <2>6 DEF f
<1> DEFINE Q == {s \in SUBSET pairs : g[s] = iocs \cup s}
<1>3. ASSUME NEW s \in SUBSET pairs, \A r \in SUBSET s : r # s => r \in Q PROVE s \in Q
  <2>1. CASE s = {}
    BY <2>1, <1>1a
  <2>2. CASE s # {}
    <3>1. s \ {First(s)} \in SUBSET s /\ s \ {First(s)} # s /\ First(s) \in s
      BY <2>2, FirstIsIn
    <3>2. g[s \ {First(s)}] = iocs \cup (s \ {First(s)})
      BY <1>3, <3>1
    <3>3. First(s) \notin g[s \ {First(s)}] => Cardinality(In(g[s \ {First(s)}], {First(s)[1]})) < MaxIOC
      BY <1>2, <3>1, <3>2
    <3>4. g[s] = g[s \ {First(s)}] \cup {First(s)}
      BY <2>2, <1>1a, <3>3 DEF Add
    <3> QED
      BY <3>1, <3>2, <3>4
  <2> QED
    BY <2>1, <2>2
<1>4. SUBSET pairs \subseteq Q
  <2> HIDE DEF Q
  <2> QED
    BY <1>3, UpToSubsets
<1> QED
  BY <1>1a, <1>4

\* A set below a bound that is no less than the cap stays below it.
LEMMA AddingStaysBelow ==
  ASSUME NEW iocs, NEW pairs, IsFiniteSet(pairs), IsFiniteSet(iocs), NEW n \in Nat, MaxIOC <= n,
         \A f \in Fields : Cardinality(In(iocs, {f})) <= n
  PROVE  \A f \in Fields : Cardinality(In(AddAll(iocs, pairs), {f})) <= n
<1>1. PICK g : Adding(iocs, pairs, g)
  BY AddingExists
<1>1a. /\ g \in [SUBSET pairs -> SUBSET (iocs \cup pairs)]
       /\ AddAll(iocs, pairs) = g[pairs]
       /\ \A s \in SUBSET pairs : g[s] = IF s = {} THEN iocs ELSE Add(g[s \ {First(s)}], First(s))
  BY <1>1 DEF Adding
<1>2. IsFiniteSet(iocs \cup pairs)
  BY FS_Union
<1>3. \A s \in SUBSET pairs : IsFiniteSet(g[s])
  BY <1>1a, <1>2, FS_Subset
<1>4. ASSUME NEW acc, IsFiniteSet(acc), NEW p, \A f \in Fields : Cardinality(In(acc, {f})) <= n
      PROVE  \A f \in Fields : Cardinality(In(Add(acc, p), {f})) <= n
  <2> SUFFICES ASSUME NEW f \in Fields, p \notin acc, Cardinality(In(acc, {p[1]})) < MaxIOC
               PROVE  Cardinality(In(acc \cup {p}, {f})) <= n
      BY <1>4 DEF Add
  <2>1. IsFiniteSet(In(acc, {f})) /\ Cardinality(In(acc, {f})) \in Nat
    BY <1>4, OfKind
  <2>2. CASE p[1] = f
    <3>1. In(acc \cup {p}, {f}) = In(acc, {f}) \cup {p[2]}
      BY <2>2 DEF In
    <3> HIDE DEF In
    <3> DEFINE K == In(acc, {f})
    <3>a. IsFiniteSet(K) /\ Cardinality(K) \in Nat
      BY <2>1
    <3> HIDE DEF K
    <3>b. Cardinality(K \cup {p[2]}) = IF p[2] \in K THEN Cardinality(K) ELSE Cardinality(K) + 1
      BY <3>a, FS_AddElement
    <3>2. Cardinality(K \cup {p[2]}) <= Cardinality(K) + 1
      BY <3>a, <3>b
    <3>3. Cardinality(K \cup {p[2]}) \in Nat
      BY <3>a, <3>b
    <3> USE DEF K
    <3> QED
      BY <2>1, <2>2, <3>1, <3>2, <3>3, CapAssumption
  <2>3. CASE p[1] # f
    <3>1. In(acc \cup {p}, {f}) = In(acc, {f})
      BY <2>3 DEF In
    <3> QED
      BY <3>1, <1>4
  <2> QED
    BY <2>2, <2>3
<1> DEFINE Q == {s \in SUBSET pairs : \A f \in Fields : Cardinality(In(g[s], {f})) <= n}
<1>5. ASSUME NEW s \in SUBSET pairs, \A r \in SUBSET s : r # s => r \in Q PROVE s \in Q
  <2>1. CASE s = {}
    BY <2>1, <1>1a
  <2>2. CASE s # {}
    <3>1. s \ {First(s)} \in SUBSET s /\ s \ {First(s)} # s
      BY <2>2, FirstIsIn
    <3>2. IsFiniteSet(g[s \ {First(s)}]) /\ \A f \in Fields : Cardinality(In(g[s \ {First(s)}], {f})) <= n
      BY <1>3, <1>5, <3>1
    <3>3. g[s] = Add(g[s \ {First(s)}], First(s))
      BY <2>2, <1>1a
    <3>4. \A f \in Fields : Cardinality(In(g[s], {f})) <= n
      BY <3>2, <3>3, <1>4
    <3> QED
      BY <3>4
  <2> QED
    BY <2>1, <2>2
<1>6. SUBSET pairs \subseteq Q
  <2> HIDE DEF Q
  <2> QED
    BY <1>5, UpToSubsets
<1> QED
  BY <1>1a, <1>6

-----------------------------------------------------------------------------
(* The sum of the weights of a set of reasons *)

\* Finitely many reasons with weights, and the sum of these.
Weighed(S) == IsFiniteSet(S) /\ \A r \in S : r.weight \in Nat
Total(S) == MapThenSumSet(LAMBDA r : r.weight, S)

\* The function inside the sum.
IsSumming(S, h) ==
  h = [s \in SUBSET S |-> IF s = {} THEN 0 ELSE (CHOOSE x \in s : TRUE).weight + h[s \ {CHOOSE x \in s : TRUE}]]

\* So is the sum of the weights.
LEMMA SummingIsFold ==
  ASSUME NEW S
  PROVE  Total(S) = (CHOOSE h : IsSumming(S, h))[S]
BY SMTT(20) DEF Total, MapThenSumSet, MapThenFoldSet, IsSumming

\* Its equations.
Summing(S, h) ==
  /\ h \in [SUBSET S -> Nat]
  /\ \A s \in SUBSET S : h[s] = IF s = {} THEN 0 ELSE First(s).weight + h[s \ {First(s)}]

\* The sum is the value of any function that obeys the equations.
LEMMA SummingIsTotal ==
  ASSUME NEW S, Weighed(S), NEW h, Summing(S, h)
  PROVE  Total(S) = h[S]
<1>1. /\ h \in [SUBSET S -> Nat]
      /\ \A s \in SUBSET S : h[s] = IF s = {} THEN 0 ELSE First(s).weight + h[s \ {First(s)}]
  BY DEF Summing
<1>2. IsSumming(S, h)
  <2>1. h = [s \in SUBSET S |-> h[s]]
    BY <1>1
  <2> QED
    BY <1>1, <2>1 DEF IsSumming, First
<1>3. \A g : IsSumming(S, g) => g = h
  <2> SUFFICES ASSUME NEW g, IsSumming(S, g) PROVE g = h
      OBVIOUS
  <2>1. /\ g = [s \in SUBSET S |-> g[s]]
        /\ \A s \in SUBSET S : g[s] = IF s = {} THEN 0 ELSE First(s).weight + g[s \ {First(s)}]
    BY DEF IsSumming, First
  <2> DEFINE Q == {s \in SUBSET S : g[s] = h[s]}
  <2>2. ASSUME NEW s \in SUBSET S, \A r \in SUBSET s : r # s => r \in Q PROVE s \in Q
    <3>1. CASE s = {}
      BY <3>1, <2>1, <1>1
    <3>2. CASE s # {}
      <4>1. s \ {First(s)} \in SUBSET s /\ s \ {First(s)} # s
        BY <3>2, FirstIsIn
      <4>2. g[s \ {First(s)}] = h[s \ {First(s)}]
        BY <2>2, <4>1
      <4> QED
        BY <3>2, <2>1, <1>1, <4>2
    <3> QED
      BY <3>1, <3>2
  <2>3. SUBSET S \subseteq Q
    <3> HIDE DEF Q
    <3> QED
      BY <2>2, UpToSubsets DEF Weighed
  <2>4. h = [s \in SUBSET S |-> h[s]]
    BY <1>1
  <2> QED
    BY <2>1, <2>3, <2>4
<1>4. (CHOOSE g : IsSumming(S, g)) = h
  BY <1>2, <1>3
<1> QED
  BY <1>4, SummingIsFold

\* There is one for finitely many reasons, and it gives the sum of each subset.
LEMMA SummingExists ==
  ASSUME NEW S, Weighed(S)
  PROVE  \E h : Summing(S, h) /\ \A T \in SUBSET S : Total(T) = h[T]
<1> DEFINE F == [z \in S \X Nat |-> z[1].weight + z[2]]
<1>1. F \in [S \X Nat -> Nat]
  BY DEF Weighed
<1>2. PICK h : Folding(S, Nat, 0, F, h)
  <2> HIDE DEF F
  <2> QED
    BY <1>1, FoldExists DEF Weighed
<1>3. /\ h \in [SUBSET S -> Nat]
      /\ \A s \in SUBSET S : h[s] = IF s = {} THEN 0 ELSE F[<<First(s), h[s \ {First(s)}]>>]
  BY <1>2 DEF Folding
<1>4. \A s \in SUBSET S : h[s] = IF s = {} THEN 0 ELSE First(s).weight + h[s \ {First(s)}]
  <2> SUFFICES ASSUME NEW s \in SUBSET S, s # {} PROVE h[s] = First(s).weight + h[s \ {First(s)}]
      BY <1>3
  <2>1. First(s) \in S /\ h[s \ {First(s)}] \in Nat
    BY <1>3, FirstIsIn
  <2>2. F[<<First(s), h[s \ {First(s)}]>>] = First(s).weight + h[s \ {First(s)}]
    BY <2>1
  <2> QED
    BY <1>3, <2>2
<1>5. ASSUME NEW T \in SUBSET S PROVE Total(T) = h[T]
  <2> DEFINE g == [s \in SUBSET T |-> h[s]]
  <2>1. Weighed(T)
    BY FS_Subset DEF Weighed
  <2>2. Summing(T, g)
    <3>1. g \in [SUBSET T -> Nat]
      BY <1>3
    <3>2. \A s \in SUBSET T : g[s] = IF s = {} THEN 0 ELSE First(s).weight + g[s \ {First(s)}]
      BY <1>4
    <3> HIDE DEF g
    <3> QED
      BY <3>1, <3>2 DEF Summing
  <2>3. g[T] = h[T]
    OBVIOUS
  <2> HIDE DEF g
  <2> QED
    BY <2>1, <2>2, <2>3, SummingIsTotal
<1> QED
  BY <1>3, <1>4, <1>5 DEF Summing

\* Whichever element is taken out first.
LEMMA TotalOfRest ==
  ASSUME NEW S, Weighed(S)
  PROVE  /\ \A T \in SUBSET S : Total(T) \in Nat
         /\ Total({}) = 0
         /\ \A T \in SUBSET S : \A x \in T : Total(T) = x.weight + Total(T \ {x})
<1>1. PICK h : Summing(S, h) /\ \A T \in SUBSET S : Total(T) = h[T]
  BY SummingExists
<1>2. /\ h \in [SUBSET S -> Nat]
      /\ \A s \in SUBSET S : h[s] = IF s = {} THEN 0 ELSE First(s).weight + h[s \ {First(s)}]
  BY <1>1 DEF Summing
<1> DEFINE Q == {s \in SUBSET S : \A x \in s : h[s] = x.weight + h[s \ {x}]}
<1>3. ASSUME NEW s \in SUBSET S, \A r \in SUBSET s : r # s => r \in Q PROVE s \in Q
  <2> SUFFICES ASSUME NEW x \in s PROVE h[s] = x.weight + h[s \ {x}]
      OBVIOUS
  <2> DEFINE y == First(s)
  <2>1. y \in s /\ h[s] = y.weight + h[s \ {y}]
    BY <1>2, FirstIsIn
  <2> HIDE DEF y
  <2>2. CASE x = y
    BY <2>1, <2>2
  <2>3. CASE x # y
    <3>1. s \ {y} \in Q /\ x \in s \ {y}
      BY <1>3, <2>1, <2>3
    <3>2. s \ {x} \in Q /\ y \in s \ {x}
      BY <1>3, <2>1, <2>3
    <3>3. (s \ {y}) \ {x} = (s \ {x}) \ {y}
      OBVIOUS
    <3>4. h[s \ {y}] = x.weight + h[(s \ {y}) \ {x}] /\ h[s \ {x}] = y.weight + h[(s \ {x}) \ {y}]
      BY <3>1, <3>2
    <3>5. x.weight \in Nat /\ y.weight \in Nat /\ h[(s \ {y}) \ {x}] \in Nat
      BY <1>2, <2>1 DEF Weighed
    <3> QED
      BY <2>1, <3>3, <3>4, <3>5
  <2> QED
    BY <2>2, <2>3
<1>4. SUBSET S \subseteq Q
  <2> HIDE DEF Q
  <2> QED
    BY <1>3, UpToSubsets DEF Weighed
<1> QED
  BY <1>1, <1>2, <1>4

\* More reasons weigh no less.
LEMMA TotalGrows ==
  ASSUME NEW S, Weighed(S), NEW T \in SUBSET S
  PROVE  Total(T) \in Nat /\ Total(S) \in Nat /\ Total(T) <= Total(S)
<1>1. /\ \A s \in SUBSET S : Total(s) \in Nat
      /\ \A s \in SUBSET S : \A x \in s : Total(s) = x.weight + Total(s \ {x})
  BY TotalOfRest
<1> DEFINE Q == {s \in SUBSET S : T \subseteq s => Total(T) <= Total(s)}
<1>2. ASSUME NEW s \in SUBSET S, \A r \in SUBSET s : r # s => r \in Q PROVE s \in Q
  <2> SUFFICES ASSUME T \subseteq s, T # s PROVE Total(T) <= Total(s)
      BY <1>1
  <2>1. PICK x \in s : x \notin T
    OBVIOUS
  <2>2. s \ {x} \in Q /\ T \subseteq s \ {x}
    BY <1>2, <2>1
  <2>3. Total(s) = x.weight + Total(s \ {x}) /\ x.weight \in Nat /\ Total(s \ {x}) \in Nat /\ Total(T) \in Nat
    BY <1>1 DEF Weighed
  <2> QED
    BY <2>2, <2>3
<1>3. SUBSET S \subseteq Q
  <2> HIDE DEF Q
  <2> QED
    BY <1>2, UpToSubsets DEF Weighed
<1> QED
  BY <1>1, <1>3

\* The score lies between 0 and 100, and more reasons give no less.
LEMMA ScoreGrows ==
  ASSUME NEW S, Weighed(S), NEW T \in SUBSET S
  PROVE  Score(T) \in 0..100 /\ Score(T) <= Score(S)
<1>1. Total(T) \in Nat /\ Total(S) \in Nat /\ Total(T) <= Total(S)
  BY TotalGrows
<1>2. /\ Score(T) = IF Total(T) > 100 THEN 100 ELSE Total(T)
      /\ Score(S) = IF Total(S) > 100 THEN 100 ELSE Total(S)
  BY DEF Score, Total
<1> QED
  BY <1>1, <1>2

\* One reason at most.
LEMMA ScoreOfOne ==
  ASSUME NEW x, x.weight \in 0..100, NEW S \in SUBSET {x}
  PROVE  Score(S) <= x.weight
<1>1. Weighed({x})
  <2>1. IsFiniteSet({x})
    BY FS_Singleton
  <2> QED
    BY <2>1 DEF Weighed
<1>2. Total({x}) = x.weight + Total({x} \ {x}) /\ Total({}) = 0
  BY <1>1, TotalOfRest
<1>3. Total({x}) = x.weight
  <2>1. {x} \ {x} = {}
    OBVIOUS
  <2> QED
    BY <1>2, <2>1
<1>4. Score({x}) = x.weight
  BY <1>3 DEF Score, Total
<1>5. Score(S) <= Score({x})
  BY <1>1, ScoreGrows
<1> QED
  BY <1>4, <1>5

-----------------------------------------------------------------------------
(* More evidence, more reasons *)

\* Events that say the same, and sets of events of which one mirrors the other.
Like(e, f) == e.cat = f.cat /\ e.op = f.op /\ e.args = f.args /\ e.note = f.note
Mirror(E, F, m) == m \in Injection(E, F) /\ \A e \in E : Like(e, m[e])
Mirrors(E, F) == \E m : Mirror(E, F, m)

\* What has been seen at least as often.
LEMMA MirrorsCount ==
  ASSUME NEW E, NEW F, IsFiniteSet(F), Mirrors(E, F)
  PROVE  /\ \A cat : Count(E, cat) \in Nat /\ Count(F, cat) \in Nat /\ Count(E, cat) <= Count(F, cat)
         /\ \A e \in E : \E f \in F : Like(e, f)
<1>1. PICK m : Mirror(E, F, m)
  BY DEF Mirrors
<1>2. m \in Injection(E, F) /\ \A e \in E : Like(e, m[e]) /\ m[e] \in F
  BY <1>1 DEF Mirror, Injection, IsInjective
<1>3. ASSUME NEW cat
      PROVE  Count(E, cat) \in Nat /\ Count(F, cat) \in Nat /\ Count(E, cat) <= Count(F, cat)
  <2> DEFINE S == {e \in E : e.cat = cat}
             T == {f \in F : f.cat = cat}
             k == [e \in S |-> m[e]]
  <2>1. IsFiniteSet(T)
    BY FS_Subset
  <2>2. k \in Injection(S, T)
    BY <1>2 DEF Injection, IsInjective, Like
  <2>3. Cardinality(S) <= Cardinality(T) /\ IsFiniteSet(S)
    <3> HIDE DEF S, T, k
    <3> QED
      BY <2>1, <2>2, FS_Injection
  <2>4. Cardinality(S) \in Nat /\ Cardinality(T) \in Nat
    <3> HIDE DEF S, T
    <3> QED
      BY <2>1, <2>3, FS_CardinalityType
  <2> QED
    BY <2>3, <2>4 DEF Count
<1> QED
  BY <1>2, <1>3

\* Events that are mirrored show their endpoints, arguments and words again.
LEMMA MirrorsShow ==
  ASSUME NEW E, NEW F, IsFiniteSet(F), Mirrors(E, F)
  PROVE  /\ Endpoints(E) \subseteq Endpoints(F)
         /\ \A cat : Arguments(E, cat) \subseteq Arguments(F, cat)
         /\ \A cat : Words(E, cat) \subseteq Words(F, cat)
<1>1. \A e \in E : \E f \in F : Like(e, f)
  BY MirrorsCount
<1>2. \A e \in E : \E f \in F : e.cat = f.cat /\ Said(e) = Said(f) /\ e.args = f.args
  BY <1>1 DEF Like, Said
<1> QED
  BY <1>2 DEF Endpoints, Arguments, Words

\* The indicators of a larger set.
LEMMA KindsGrow ==
  ASSUME NEW P, NEW Q, IsFiniteSet(Q), P \subseteq Q
  PROVE  /\ \A fs : In(P, fs) \subseteq In(Q, fs)
         /\ \A fs, trait : Matching(P, fs, trait) \subseteq Matching(Q, fs, trait)
         /\ \A f : /\ Cardinality(In(P, {f})) \in Nat /\ Cardinality(In(Q, {f})) \in Nat
                   /\ Cardinality(In(P, {f})) <= Cardinality(In(Q, {f}))
<1>1. \A fs : In(P, fs) \subseteq In(Q, fs)
  BY DEF In
<1>2. \A fs, trait : Matching(P, fs, trait) \subseteq Matching(Q, fs, trait)
  BY <1>1 DEF Matching
<1>3. \A f : /\ Cardinality(In(P, {f})) \in Nat /\ Cardinality(In(Q, {f})) \in Nat
             /\ Cardinality(In(P, {f})) <= Cardinality(In(Q, {f}))
  BY OfKind
<1> QED
  BY <1>1, <1>2, <1>3

(* What each view needs to show at least the same. *)
MoreScored(c, d) == IsFiniteSet(d.events) /\ IsFiniteSet(d.ic) /\ c.ic \subseteq d.ic /\ Mirrors(c.events, d.events)

MoreIntrinsic(c, d) ==
  /\ IsFiniteSet(d.intrinsic) /\ IsFiniteSet(d.mic) /\ c.mic \subseteq d.mic /\ Mirrors(c.intrinsic, d.intrinsic)
  /\ (\A cat : IsFiniteSet(Arguments(d.intrinsic, cat))) /\ c.watched \subseteq d.watched /\ c.tainted \subseteq d.tainted
More(view, c, d) ==
  \/ view = "scored" /\ MoreScored(c, d)
  \/ view = "intrinsic" /\ MoreIntrinsic(c, d)
  \/ view = "both" /\ MoreScored(c, d) /\ MoreIntrinsic(c, d)

\* The gates of the scored signatures are monotone.
LEMMA GatesScored ==
  ASSUME NEW c, NEW d, MoreScored(c, d)
  PROVE  /\ HardNet(c) \subseteq HardNet(d) /\ NetURLs(c) \subseteq NetURLs(d)
         /\ SuspiciousNet(c) => SuspiciousNet(d)
         /\ Correlated(c) => Correlated(d)
<1>1. HardNet(c) \subseteq HardNet(d)
  BY MirrorsShow DEF MoreScored, HardNet
<1>2. \A fs : In(c.ic, fs) \subseteq In(d.ic, fs)
  BY KindsGrow DEF MoreScored
<1>3. SuspiciousNet(c) => SuspiciousNet(d)
  BY <1>1, <1>2 DEF SuspiciousNet
<1>4. Correlated(c) => Correlated(d)
  BY <1>2, <1>3 DEF Correlated
<1> QED
  BY <1>1, <1>3, <1>4 DEF NetURLs

\* A reason is of the view it was given for.
LEMMA ReasonView ==
  ASSUME NEW view, NEW why, NEW weight, NEW holds
  PROVE  \A y \in Reason(view, why, weight, holds) : y.view = view
BY DEF Reason

\* A signature of dynamic code that fires fires on more evidence of its view.
LEMMA CodeGrows ==
  ASSUME NEW c, NEW d, NEW r \in DynamicCode(c), More(r.view, c, d)
  PROVE  r \in DynamicCode(d)
<1> DEFINE seen(x, cat) == Count(x.events, cat)
           n(x, field) == Cardinality(In(x.ic, {field}))
           acts(x) == Count(x.intrinsic, "net") > 0 \/ Count(x.intrinsic, "eval") > 0
           r1(x) == Reason("scored", "network activity", 20, seen(x, "net") > 0 /\ (HardNet(x) # {} \/ n(x, "Payloads") > 0))
           r2(x) == Reason("intrinsic", "download and execute", 60, Fetched(x) # {} /\ Count(x.intrinsic, "net") > 0)
           r3(x) == Reason("scored", "dynamic code", 20, seen(x, "eval") > 0 /\ Correlated(x))
           r4(x) == Reason("scored", "packed code", 15, seen(x, "eval") >= 5 /\ Correlated(x))
           r5(x) == Reason("intrinsic", "decoded loader", 60, Matching(x.mic, {"Decoded"}, "loader") # {})
           r6(x) == Reason("intrinsic", "decrypt then eval", 60, \E e \in x.intrinsic : e.op = "decrypt-then-eval")
           r7(x) == Reason("intrinsic", "hidden endpoint", 60, acts(x) /\ \E i \in In(x.mic, {"Decoded"}) : Hides(i))
           r8(x) == Reason("scored", "writes files", 15, n(x, "FilesWritten") > 0 /\ Correlated(x))
           r9(x) == Reason("scored", "deletes files", 18, n(x, "FilesDeleted") > 0)
           r10(x) == Reason("scored", "wallets", 30, n(x, "Wallets") > 0 /\ (NetURLs(x) # {} \/ n(x, "Payloads") > 0))
           r11(x) == Reason("scored", "onion", 25, n(x, "Onion") > 0)
           r12(x) == Reason("scored", "secrets", 20, n(x, "Secrets") > 0 /\ (SuspiciousNet(x) \/ seen(x, "net") > 0))
           r13(x) == Reason("scored", "payloads", 15, n(x, "Payloads") > 0 /\ seen(x, "net") > 0)
           r14(x) == Reason("scored", "ransomware", 25, Matching(x.ic, {"CryptoOps"}, "cipher") # {} /\ n(x, "FilesWritten") >= 3)
           r15(x) == Reason("scored", "decodes", 10, n(x, "Decoded") > 0 /\ Correlated(x))
           r16(x) == Reason("scored", "staged loader", 15, n(x, "Decoded") > 0 /\ SuspiciousNet(x))
           r17(x) == Reason("scored", "wiper", 45, n(x, "FilesDeleted") > 0 /\ n(x, "Decoded") > 0 /\ seen(x, "eval") > 0)
<1>1. \A x : DynamicCode(x) = r1(x) \cup r2(x) \cup r3(x) \cup r4(x) \cup r5(x) \cup r6(x) \cup r7(x) \cup r8(x) \cup r9(x)
            \cup r10(x) \cup r11(x) \cup r12(x) \cup r13(x) \cup r14(x) \cup r15(x) \cup r16(x) \cup r17(x)
  BY DEF DynamicCode
<1>2. ASSUME MoreScored(c, d)
      PROVE  /\ r1(c) \subseteq r1(d)
             /\ r3(c) \subseteq r3(d)
             /\ r4(c) \subseteq r4(d)
             /\ r8(c) \subseteq r8(d)
             /\ r9(c) \subseteq r9(d)
             /\ r10(c) \subseteq r10(d)
             /\ r11(c) \subseteq r11(d)
             /\ r12(c) \subseteq r12(d)
             /\ r13(c) \subseteq r13(d)
             /\ r14(c) \subseteq r14(d)
             /\ r15(c) \subseteq r15(d)
             /\ r16(c) \subseteq r16(d)
             /\ r17(c) \subseteq r17(d)
  <2>1. /\ HardNet(c) # {} => HardNet(d) # {}
        /\ NetURLs(c) # {} => NetURLs(d) # {}
        /\ SuspiciousNet(c) => SuspiciousNet(d)
        /\ Correlated(c) => Correlated(d)
    BY <1>2, GatesScored
  <2>2. \A cat : seen(c, cat) \in Nat /\ seen(d, cat) \in Nat /\ seen(c, cat) <= seen(d, cat)
    BY <1>2, MirrorsCount DEF MoreScored
  <2>3. \A f : n(c, f) \in Nat /\ n(d, f) \in Nat /\ n(c, f) <= n(d, f)
    BY <1>2, KindsGrow DEF MoreScored
  <2>4. Matching(c.ic, {"CryptoOps"}, "cipher") \subseteq Matching(d.ic, {"CryptoOps"}, "cipher")
    BY <1>2, KindsGrow DEF MoreScored
  <2> HIDE DEF seen, n
  <2>5. /\ \A cat : seen(c, cat) > 0 => seen(d, cat) > 0
        /\ seen(c, "eval") >= 5 => seen(d, "eval") >= 5
    BY <2>2
  <2>6. \A f : (n(c, f) > 0 => n(d, f) > 0) /\ (n(c, f) >= 3 => n(d, f) >= 3)
    BY <2>3
  <2>s0. r1(c) \subseteq r1(d)
    BY <2>1, <2>4, <2>5, <2>6 DEF Reason
  <2>s1. r3(c) \subseteq r3(d)
    BY <2>1, <2>4, <2>5, <2>6 DEF Reason
  <2>s2. r4(c) \subseteq r4(d)
    BY <2>1, <2>4, <2>5, <2>6 DEF Reason
  <2>s3. r8(c) \subseteq r8(d)
    BY <2>1, <2>4, <2>5, <2>6 DEF Reason
  <2>s4. r9(c) \subseteq r9(d)
    BY <2>1, <2>4, <2>5, <2>6 DEF Reason
  <2>s5. r10(c) \subseteq r10(d)
    BY <2>1, <2>4, <2>5, <2>6 DEF Reason
  <2>s6. r11(c) \subseteq r11(d)
    BY <2>1, <2>4, <2>5, <2>6 DEF Reason
  <2>s7. r12(c) \subseteq r12(d)
    BY <2>1, <2>4, <2>5, <2>6 DEF Reason
  <2>s8. r13(c) \subseteq r13(d)
    BY <2>1, <2>4, <2>5, <2>6 DEF Reason
  <2>s9. r14(c) \subseteq r14(d)
    BY <2>1, <2>4, <2>5, <2>6 DEF Reason
  <2>s10. r15(c) \subseteq r15(d)
    BY <2>1, <2>4, <2>5, <2>6 DEF Reason
  <2>s11. r16(c) \subseteq r16(d)
    BY <2>1, <2>4, <2>5, <2>6 DEF Reason
  <2>s12. r17(c) \subseteq r17(d)
    BY <2>1, <2>4, <2>5, <2>6 DEF Reason
  <2> QED
    BY <2>s0, <2>s1, <2>s2, <2>s3, <2>s4, <2>s5, <2>s6, <2>s7, <2>s8, <2>s9, <2>s10, <2>s11, <2>s12
<1>3. ASSUME MoreIntrinsic(c, d)
      PROVE  /\ r2(c) \subseteq r2(d)
             /\ r5(c) \subseteq r5(d)
             /\ r6(c) \subseteq r6(d)
             /\ r7(c) \subseteq r7(d)
  <2>1. \A cat : Count(c.intrinsic, cat) > 0 => Count(d.intrinsic, cat) > 0
    <3>1. \A cat : Count(c.intrinsic, cat) \in Nat /\ Count(d.intrinsic, cat) \in Nat
                   /\ Count(c.intrinsic, cat) <= Count(d.intrinsic, cat)
      BY <1>3, MirrorsCount DEF MoreIntrinsic
    <3> QED
      BY <3>1
  <2>2. \A e \in c.intrinsic : \E f \in d.intrinsic : Like(e, f)
    BY <1>3, MirrorsCount DEF MoreIntrinsic
  <2>3. Fetched(c) # {} => Fetched(d) # {}
    BY <2>2 DEF Fetched, Like, Said
  <2>4. /\ Matching(c.mic, {"Decoded"}, "loader") \subseteq Matching(d.mic, {"Decoded"}, "loader")
        /\ In(c.mic, {"Decoded"}) \subseteq In(d.mic, {"Decoded"})
    BY <1>3, KindsGrow DEF MoreIntrinsic
  <2>5. acts(c) => acts(d)
    BY <2>1
  <2>6. (\E e \in c.intrinsic : e.op = "decrypt-then-eval") => \E e \in d.intrinsic : e.op = "decrypt-then-eval"
    BY <2>2 DEF Like
  <2> HIDE DEF acts
  <2>s0. r2(c) \subseteq r2(d)
    BY <2>1, <2>3, <2>4, <2>5, <2>6 DEF Reason
  <2>s1. r5(c) \subseteq r5(d)
    BY <2>1, <2>3, <2>4, <2>5, <2>6 DEF Reason
  <2>s2. r6(c) \subseteq r6(d)
    BY <2>1, <2>3, <2>4, <2>5, <2>6 DEF Reason
  <2>s3. r7(c) \subseteq r7(d)
    BY <2>1, <2>3, <2>4, <2>5, <2>6 DEF Reason
  <2> QED
    BY <2>s0, <2>s1, <2>s2, <2>s3
<1> HIDE DEF seen, n, acts
<1>v1. ASSUME NEW y \in r1(c) PROVE y.view = "scored"
  <2>1. y = [why |-> <<"network activity">>, weight |-> 20, view |-> "scored"]
    BY DEF Reason
  <2> QED
    BY <2>1
<1>v2. ASSUME NEW y \in r2(c) PROVE y.view = "intrinsic"
  <2>1. y = [why |-> <<"download and execute">>, weight |-> 60, view |-> "intrinsic"]
    BY DEF Reason
  <2> QED
    BY <2>1
<1>v3. ASSUME NEW y \in r3(c) PROVE y.view = "scored"
  <2>1. y = [why |-> <<"dynamic code">>, weight |-> 20, view |-> "scored"]
    BY DEF Reason
  <2> QED
    BY <2>1
<1>v4. ASSUME NEW y \in r4(c) PROVE y.view = "scored"
  <2>1. y = [why |-> <<"packed code">>, weight |-> 15, view |-> "scored"]
    BY DEF Reason
  <2> QED
    BY <2>1
<1>v5. ASSUME NEW y \in r5(c) PROVE y.view = "intrinsic"
  <2>1. y = [why |-> <<"decoded loader">>, weight |-> 60, view |-> "intrinsic"]
    BY DEF Reason
  <2> QED
    BY <2>1
<1>v6. ASSUME NEW y \in r6(c) PROVE y.view = "intrinsic"
  <2>1. y = [why |-> <<"decrypt then eval">>, weight |-> 60, view |-> "intrinsic"]
    BY DEF Reason
  <2> QED
    BY <2>1
<1>v7. ASSUME NEW y \in r7(c) PROVE y.view = "intrinsic"
  <2>1. y = [why |-> <<"hidden endpoint">>, weight |-> 60, view |-> "intrinsic"]
    BY DEF Reason
  <2> QED
    BY <2>1
<1>v8. ASSUME NEW y \in r8(c) PROVE y.view = "scored"
  <2>1. y = [why |-> <<"writes files">>, weight |-> 15, view |-> "scored"]
    BY DEF Reason
  <2> QED
    BY <2>1
<1>v9. ASSUME NEW y \in r9(c) PROVE y.view = "scored"
  <2>1. y = [why |-> <<"deletes files">>, weight |-> 18, view |-> "scored"]
    BY DEF Reason
  <2> QED
    BY <2>1
<1>v10. ASSUME NEW y \in r10(c) PROVE y.view = "scored"
  <2>1. y = [why |-> <<"wallets">>, weight |-> 30, view |-> "scored"]
    BY DEF Reason
  <2> QED
    BY <2>1
<1>v11. ASSUME NEW y \in r11(c) PROVE y.view = "scored"
  <2>1. y = [why |-> <<"onion">>, weight |-> 25, view |-> "scored"]
    BY DEF Reason
  <2> QED
    BY <2>1
<1>v12. ASSUME NEW y \in r12(c) PROVE y.view = "scored"
  <2>1. y = [why |-> <<"secrets">>, weight |-> 20, view |-> "scored"]
    BY DEF Reason
  <2> QED
    BY <2>1
<1>v13. ASSUME NEW y \in r13(c) PROVE y.view = "scored"
  <2>1. y = [why |-> <<"payloads">>, weight |-> 15, view |-> "scored"]
    BY DEF Reason
  <2> QED
    BY <2>1
<1>v14. ASSUME NEW y \in r14(c) PROVE y.view = "scored"
  <2>1. y = [why |-> <<"ransomware">>, weight |-> 25, view |-> "scored"]
    BY DEF Reason
  <2> QED
    BY <2>1
<1>v15. ASSUME NEW y \in r15(c) PROVE y.view = "scored"
  <2>1. y = [why |-> <<"decodes">>, weight |-> 10, view |-> "scored"]
    BY DEF Reason
  <2> QED
    BY <2>1
<1>v16. ASSUME NEW y \in r16(c) PROVE y.view = "scored"
  <2>1. y = [why |-> <<"staged loader">>, weight |-> 15, view |-> "scored"]
    BY DEF Reason
  <2> QED
    BY <2>1
<1>v17. ASSUME NEW y \in r17(c) PROVE y.view = "scored"
  <2>1. y = [why |-> <<"wiper">>, weight |-> 45, view |-> "scored"]
    BY DEF Reason
  <2> QED
    BY <2>1
<1> HIDE DEF r1, r2, r3, r4, r5, r6, r7, r8, r9, r10, r11, r12, r13, r14, r15, r16, r17
<1> QED
  BY <1>1, <1>2, <1>3, <1>v1, <1>v2, <1>v3, <1>v4, <1>v5, <1>v6, <1>v7, <1>v8, <1>v9, <1>v10, <1>v11,
     <1>v12, <1>v13, <1>v14, <1>v15, <1>v16, <1>v17
     DEF More

\* The events that matter of the intrinsic view.
LEMMA WritesGrow ==
  ASSUME NEW c, NEW d, MoreIntrinsic(c, d)
  PROVE  /\ Writes(c) \subseteq Writes(d)
         /\ \A p, q : WritesBoth(c, p, q) => WritesBoth(d, p, q)
         /\ Injects(c) => Injects(d)
         /\ \A e \in c.intrinsic : \E f \in d.intrinsic : Like(e, f)
<1>1. \A e \in c.intrinsic : \E f \in d.intrinsic : Like(e, f)
  BY MirrorsCount DEF MoreIntrinsic
<1>2. Writes(c) \subseteq Writes(d)
  BY <1>1 DEF Writes, Like
<1>3. \A p, q : WritesBoth(c, p, q) => WritesBoth(d, p, q)
  BY <1>2 DEF WritesBoth
<1> QED
  BY <1>1, <1>2, <1>3 DEF Injects

\* The same of exfiltration and processes,
LEMMA ExfilGrows ==
  ASSUME NEW c, NEW d, NEW r \in ExfilAndProc(c), More(r.view, c, d)
  PROVE  r \in ExfilAndProc(d)
<1> DEFINE r1(x) == Reason("intrinsic", "exfiltration", 60,
                      \/ ExfilSources(x) /\ Endpoints(x.intrinsic) # {}
                      \/ \E v \in x.watched : Reaches(Egress(x), v))
           r2(x) == Reason("intrinsic", "shell on a socket", 60,
                      Count(x.intrinsic, "net") > 0 /\ Spawned(x, "interactive shell") # {})
<1>1. \A x : ExfilAndProc(x) = r1(x) \cup r2(x)
  BY DEF ExfilAndProc
<1>2. ASSUME MoreIntrinsic(c, d)
      PROVE  r1(c) \subseteq r1(d) /\ r2(c) \subseteq r2(d)
  <2>1. \A e \in c.intrinsic : \E f \in d.intrinsic : Like(e, f)
    BY <1>2, MirrorsCount DEF MoreIntrinsic
  <2>2. \A trait : Spawned(c, trait) # {} => Spawned(d, trait) # {}
    BY <2>1 DEF Spawned, Like
  <2>3. /\ \A fs : In(c.mic, fs) \subseteq In(d.mic, fs)
        /\ \A fs, trait : Matching(c.mic, fs, trait) \subseteq Matching(d.mic, fs, trait)
    BY <1>2, KindsGrow DEF MoreIntrinsic
  <2>4. Endpoints(c.intrinsic) \subseteq Endpoints(d.intrinsic)
    BY <1>2, MirrorsShow DEF MoreIntrinsic
  <2>5. ExfilSources(c) => ExfilSources(d)
    BY <2>2, <2>3 DEF ExfilSources
  <2>6. Egress(c) \subseteq Egress(d)
    BY <2>3, <2>4 DEF Egress
  <2>7. \A v : Reaches(Egress(c), v) => Reaches(Egress(d), v)
    BY <2>6 DEF Reaches
  <2>8. Count(c.intrinsic, "net") > 0 => Count(d.intrinsic, "net") > 0
    <3>1. /\ Count(c.intrinsic, "net") \in Nat /\ Count(d.intrinsic, "net") \in Nat
          /\ Count(c.intrinsic, "net") <= Count(d.intrinsic, "net")
      BY <1>2, MirrorsCount DEF MoreIntrinsic
    <3> QED
      BY <3>1
  <2>9. r1(c) \subseteq r1(d)
    BY <1>2, <2>4, <2>5, <2>7 DEF Reason, MoreIntrinsic
  <2>10. r2(c) \subseteq r2(d)
    BY <2>2, <2>8 DEF Reason
  <2> QED
    BY <2>9, <2>10
<1>v1. ASSUME NEW y \in r1(c) PROVE y.view = "intrinsic"
  <2>1. y = [why |-> <<"exfiltration">>, weight |-> 60, view |-> "intrinsic"]
    BY DEF Reason
  <2> QED
    BY <2>1
<1>v2. ASSUME NEW y \in r2(c) PROVE y.view = "intrinsic"
  <2>1. y = [why |-> <<"shell on a socket">>, weight |-> 60, view |-> "intrinsic"]
    BY DEF Reason
  <2> QED
    BY <2>1
<1> HIDE DEF r1, r2
<1> QED
  BY <1>1, <1>2, <1>v1, <1>v2 DEF More

\* of sensitive paths,
LEMMA PathsGrow ==
  ASSUME NEW c, NEW d, NEW r \in SensitivePaths(c), More(r.view, c, d)
  PROVE  r \in SensitivePaths(d)
<1> DEFINE when(gate, items) == IF gate THEN items ELSE {}
           p1(x) == PerItem("scored", "env", 25, when(SuspiciousNet(x), Matching(x.ic, {"EnvAccessed"}, "sensitive")))
           p2(x) == PerItem("scored", "reads", 25, when(Correlated(x), Matching(x.ic, {"Paths"}, "sensitive")))
           p3(x) == PerItem("scored", "writes", 20, Matching(x.ic, {"FilesWritten"}, "sensitive"))
           r4(x) == Reason("intrinsic", "registry hijack", 45, WritesBoth(x, "registry file", "foreign registry"))
<1>1. \A x : SensitivePaths(x) = p1(x) \cup p2(x) \cup p3(x) \cup r4(x)
  BY DEF SensitivePaths
<1>2. ASSUME MoreScored(c, d)
      PROVE  p1(c) \subseteq p1(d) /\ p2(c) \subseteq p2(d) /\ p3(c) \subseteq p3(d)
  <2>1. \A fs, trait : Matching(c.ic, fs, trait) \subseteq Matching(d.ic, fs, trait)
    BY <1>2, KindsGrow DEF MoreScored
  <2>2. (SuspiciousNet(c) => SuspiciousNet(d)) /\ (Correlated(c) => Correlated(d))
    BY <1>2, GatesScored
  <2>3. p1(c) \subseteq p1(d)
    BY <2>1, <2>2 DEF PerItem
  <2>4. p2(c) \subseteq p2(d)
    BY <2>1, <2>2 DEF PerItem
  <2>5. p3(c) \subseteq p3(d)
    BY <2>1 DEF PerItem
  <2> QED
    BY <2>3, <2>4, <2>5
<1>3. ASSUME MoreIntrinsic(c, d) PROVE r4(c) \subseteq r4(d)
  BY <1>3, WritesGrow DEF Reason
<1>4. ASSUME NEW y \in p1(c) \cup p2(c) \cup p3(c) PROVE y.view = "scored"
  <2>1. \E why, weight : y = [why |-> why, weight |-> weight, view |-> "scored"]
    BY DEF PerItem
  <2> QED
    BY <2>1
<1>5. ASSUME NEW y \in r4(c) PROVE y.view = "intrinsic"
  <2>1. y = [why |-> <<"registry hijack">>, weight |-> 45, view |-> "intrinsic"]
    BY DEF Reason
  <2> QED
    BY <2>1
<1> HIDE DEF p1, p2, p3, r4
<1> QED
  BY <1>1, <1>2, <1>3, <1>4, <1>5 DEF More

\* of commands,
LEMMA CommandsGrow ==
  ASSUME NEW c, NEW d, NEW r \in CommandSignatures(c), More(r.view, c, d)
  PROVE  r \in CommandSignatures(d)
<1> DEFINE commands(x, trait) == Matching(x.mic, {"Commands"}, trait) # {}
           r2(x) == Reason("intrinsic", "staged download", 60, StagedDownload(x))
           r3(x) == Reason("intrinsic", "drop and exec", 60, DropAndExec(x))
           r4(x) == Reason("intrinsic", "injection", 60, Injects(x))
           r5(x) == Reason("intrinsic", "native addon", 60, \E w \in Writes(x) : Has(w[1], "native addon"))
           r6(x) == Reason("intrinsic", "extract and run", 60, commands(x, "extracts") /\ commands(x, "runs from stage"))
           r7(x) == Reason("both", "worm", 60, commands(x, "publish") /\ (Injects(x) \/ Correlated(x)))
<1>1. \A x : CommandSignatures(x) = Matched(x) \cup r2(x) \cup r3(x) \cup r4(x) \cup r5(x) \cup r6(x) \cup r7(x)
  BY DEF CommandSignatures
<1>2. ASSUME MoreIntrinsic(c, d)
      PROVE  /\ Matched(c) \subseteq Matched(d) /\ r2(c) \subseteq r2(d) /\ r3(c) \subseteq r3(d)
             /\ r4(c) \subseteq r4(d) /\ r5(c) \subseteq r5(d) /\ r6(c) \subseteq r6(d)
  <2>1. /\ \A fs : In(c.mic, fs) \subseteq In(d.mic, fs)
        /\ \A fs, trait : Matching(c.mic, fs, trait) \subseteq Matching(d.mic, fs, trait)
    BY <1>2, KindsGrow DEF MoreIntrinsic
  <2>2. Matched(c) \subseteq Matched(d)
    <3>1. \A s : Reason("intrinsic", s[1], s[2], Matching(c.mic, s[3], s[1]) # {})
                 \subseteq Reason("intrinsic", s[1], s[2], Matching(d.mic, s[3], s[1]) # {})
      BY <2>1 DEF Reason
    <3> QED
      BY <3>1 DEF Matched
  <2>3. (StagedDownload(c) => StagedDownload(d)) /\ (DropAndExec(c) => DropAndExec(d))
    BY <2>1 DEF StagedDownload, DropAndExec
  <2>4. (Injects(c) => Injects(d)) /\ Writes(c) \subseteq Writes(d)
    BY <1>2, WritesGrow
  <2>5. r2(c) \subseteq r2(d)
    BY <2>3 DEF Reason
  <2>6. r3(c) \subseteq r3(d)
    BY <2>3 DEF Reason
  <2>7. r4(c) \subseteq r4(d)
    BY <2>4 DEF Reason
  <2>8. r5(c) \subseteq r5(d)
    BY <2>4 DEF Reason
  <2>9. r6(c) \subseteq r6(d)
    BY <2>1 DEF Reason
  <2> QED
    BY <2>2, <2>5, <2>6, <2>7, <2>8, <2>9
<1>3. ASSUME MoreScored(c, d), MoreIntrinsic(c, d) PROVE r7(c) \subseteq r7(d)
  <2>1. Matching(c.mic, {"Commands"}, "publish") \subseteq Matching(d.mic, {"Commands"}, "publish")
    BY <1>3, KindsGrow DEF MoreIntrinsic
  <2>2. (Injects(c) => Injects(d)) /\ (Correlated(c) => Correlated(d))
    BY <1>3, WritesGrow, GatesScored
  <2> QED
    BY <2>1, <2>2 DEF Reason
<1>4. ASSUME NEW y \in Matched(c) \cup r2(c) \cup r3(c) \cup r4(c) \cup r5(c) \cup r6(c) PROVE y.view = "intrinsic"
  <2>1. PICK why, weight : y = [why |-> why, weight |-> weight, view |-> "intrinsic"]
    <3>1. CASE y \in Matched(c)
      BY <3>1 DEF Matched, Reason
    <3>2. CASE y \in r2(c)
      BY <3>2 DEF Reason
    <3>3. CASE y \in r3(c)
      BY <3>3 DEF Reason
    <3>4. CASE y \in r4(c)
      BY <3>4 DEF Reason
    <3>5. CASE y \in r5(c)
      BY <3>5 DEF Reason
    <3>6. CASE y \in r6(c)
      BY <3>6 DEF Reason
    <3> HIDE DEF r2, r3, r4, r5, r6
    <3> QED
      BY <3>1, <3>2, <3>3, <3>4, <3>5, <3>6
  <2> QED
    BY <2>1
<1>5. ASSUME NEW y \in r7(c) PROVE y.view = "both"
  <2>1. y = [why |-> <<"worm">>, weight |-> 60, view |-> "both"]
    BY DEF Reason
  <2> QED
    BY <2>1
<1> HIDE DEF r2, r3, r4, r5, r6, r7
<1> QED
  BY <1>1, <1>2, <1>3, <1>4, <1>5 DEF More

\* of the sandbox probes,
LEMMA ProbesGrow ==
  ASSUME NEW c, NEW d, MoreScored(c, d), MoreIntrinsic(c, d), Probes(c)
  PROVE  Probes(d)
<1>1. \A cat : Arguments(c.intrinsic, cat) \subseteq Arguments(d.intrinsic, cat)
  BY MirrorsShow DEF MoreIntrinsic
<1>2. \A cat, trait : /\ Arg(c, cat, trait) \subseteq Arg(d, cat, trait)
                      /\ Arg(d, cat, trait) \in SUBSET Arguments(d.intrinsic, cat)
  BY <1>1 DEF Arg
<1>3. ASSUME NEW cat, NEW trait
      PROVE  /\ Cardinality(Arg(c, cat, trait)) \in Nat /\ Cardinality(Arg(d, cat, trait)) \in Nat
             /\ Cardinality(Arg(c, cat, trait)) <= Cardinality(Arg(d, cat, trait))
  <2>1. IsFiniteSet(Arg(d, cat, trait))
    BY <1>2, FS_Subset DEF MoreIntrinsic
  <2>2. Arg(c, cat, trait) \in SUBSET Arg(d, cat, trait)
    BY <1>2
  <2> QED
    BY <2>1, <2>2, FS_Subset, FS_CardinalityType
<1>4. Ambient(c) => Ambient(d)
  <2>1. Arg(c, "fs", "ambient") # {} => Arg(d, "fs", "ambient") # {}
    BY <1>2
  <2>2. Cardinality(Arg(c, "env", "ci")) >= 3 => Cardinality(Arg(d, "env", "ci")) >= 3
    BY <1>3
  <2> QED
    BY <2>1, <2>2 DEF Ambient
<1>5. Correlated(c) => Correlated(d)
  BY GatesScored
<1> DEFINE m == Cardinality(Arg(c, "fs", "tell"))
           n == Cardinality(Arg(d, "fs", "tell"))
<1>6. m \in Nat /\ n \in Nat /\ m <= n
  BY <1>3
<1>7. m >= 2 \/ (m = 1 /\ Ambient(c) /\ Correlated(c))
  BY DEF Probes
<1>8. n >= 2 \/ (n = 1 /\ Ambient(d) /\ Correlated(d))
  <2> HIDE DEF m, n
  <2> QED
    BY <1>4, <1>5, <1>6, <1>7
<1> QED
  BY <1>8 DEF Probes

\* of evasion and endpoints,
LEMMA EvasionGrows ==
  ASSUME NEW c, NEW d, NEW r \in EvasionAndEndpoints(c), More(r.view, c, d)
  PROVE  r \in EvasionAndEndpoints(d)
<1> DEFINE r1(x) == Reason("intrinsic", "inspector", 60, \E e \in x.intrinsic : e.op = "inspector.open")
           r2(x) == Reason("intrinsic", "dns hijack", 45, \E e \in x.intrinsic : e.op = "dns.setServers")
           r3(x) == Reason("both", "sandbox probes", 20, Probes(x))
           r4(x) == Reason("scored", "fingerprint", 8, Count(x.events, "os") > 0 /\ HardNet(x) # {})
           r5(x) == Reason("scored", "endpoints", 10, HardNet(x) # {})
<1>1. \A x : EvasionAndEndpoints(x) = r1(x) \cup r2(x) \cup r3(x) \cup r4(x) \cup r5(x)
  BY DEF EvasionAndEndpoints
<1>2. ASSUME MoreIntrinsic(c, d) PROVE r1(c) \subseteq r1(d) /\ r2(c) \subseteq r2(d)
  <2>1. \A e \in c.intrinsic : \E f \in d.intrinsic : e.op = f.op
    BY <1>2, MirrorsCount DEF MoreIntrinsic, Like
  <2>2. r1(c) \subseteq r1(d)
    BY <2>1 DEF Reason
  <2>3. r2(c) \subseteq r2(d)
    BY <2>1 DEF Reason
  <2> QED
    BY <2>2, <2>3
<1>3. ASSUME MoreScored(c, d) PROVE r4(c) \subseteq r4(d) /\ r5(c) \subseteq r5(d)
  <2>1. HardNet(c) # {} => HardNet(d) # {}
    BY <1>3, GatesScored
  <2>2. /\ Count(c.events, "os") \in Nat /\ Count(d.events, "os") \in Nat
        /\ Count(c.events, "os") <= Count(d.events, "os")
    BY <1>3, MirrorsCount DEF MoreScored
  <2>3. Count(c.events, "os") > 0 => Count(d.events, "os") > 0
    BY <2>2
  <2>4. r4(c) \subseteq r4(d)
    BY <2>1, <2>3 DEF Reason
  <2>5. r5(c) \subseteq r5(d)
    BY <2>1 DEF Reason
  <2> QED
    BY <2>4, <2>5
<1>4. ASSUME MoreScored(c, d), MoreIntrinsic(c, d) PROVE r3(c) \subseteq r3(d)
  BY <1>4, ProbesGrow DEF Reason
<1>5. ASSUME NEW y \in r1(c) \cup r2(c) PROVE y.view = "intrinsic"
  <2>1. PICK why, weight : y = [why |-> why, weight |-> weight, view |-> "intrinsic"]
    BY DEF Reason
  <2> QED
    BY <2>1
<1>6. ASSUME NEW y \in r4(c) \cup r5(c) PROVE y.view = "scored"
  <2>1. PICK why, weight : y = [why |-> why, weight |-> weight, view |-> "scored"]
    BY DEF Reason
  <2> QED
    BY <2>1
<1>7. ASSUME NEW y \in r3(c) PROVE y.view = "both"
  <2>1. y = [why |-> <<"sandbox probes">>, weight |-> 20, view |-> "both"]
    BY DEF Reason
  <2> QED
    BY <2>1
<1> HIDE DEF r1, r2, r3, r4, r5
<1> QED
  BY <1>1, <1>2, <1>3, <1>4, <1>5, <1>6, <1>7 DEF More

\* of the taint rules,
LEMMA TaintGrows ==
  ASSUME NEW c, NEW d, NEW r \in CustomTaint(c), More(r.view, c, d)
  PROVE  r \in CustomTaint(d)
<1>1. PICK x \in Rules : /\ \E s \in x.sinks, p \in c.tainted : p[1] = x.name /\ Reaches(Space(c, s), p[2])
                         /\ r = [why |-> <<"rule", x.name>>, weight |-> x.weight, view |-> "intrinsic"]
  BY DEF CustomTaint
<1>2. MoreIntrinsic(c, d)
  <2>1. r.view = "intrinsic"
    BY <1>1
  <2> QED
    BY <2>1 DEF More
<1>3. \A fs : In(c.mic, fs) \subseteq In(d.mic, fs)
  BY <1>2, KindsGrow DEF MoreIntrinsic
<1>4. Endpoints(c.intrinsic) \subseteq Endpoints(d.intrinsic) /\ \A cat : Words(c.intrinsic, cat) \subseteq Words(d.intrinsic, cat)
  BY <1>2, MirrorsShow DEF MoreIntrinsic
<1>5. PICK s \in x.sinks, p \in c.tainted : p[1] = x.name /\ Reaches(Space(c, s), p[2])
  BY <1>1
<1>6. Reaches(Space(d, s), p[2])
  <2>1. CASE s = "network"
    BY <1>3, <1>4, <1>5, <2>1 DEF Space, Egress, Reaches
  <2>2. CASE s = "command"
    BY <1>3, <1>4, <1>5, <2>2 DEF Space, Reaches
  <2>3. CASE s = "file"
    BY <1>3, <1>4, <1>5, <2>3 DEF Space, Reaches
  <2> QED
    BY <2>1, <2>2, <2>3, RuleAssumption DEF Sinks
<1>7. p \in d.tainted
  BY <1>2 DEF MoreIntrinsic
<1> QED
  BY <1>1, <1>5, <1>6, <1>7 DEF CustomTaint

\* and of static obfuscation.
LEMMA StaticGrows ==
  ASSUME NEW c, NEW d, NEW r \in StaticObfuscation(c), More(r.view, c, d)
  PROVE  r \in StaticObfuscation(d)
<1>1. /\ \E e \in c.intrinsic : e.op = "obfuscated-loader"
      /\ r = [why |-> <<"obfuscated loader">>, weight |-> 60, view |-> "intrinsic"]
  BY DEF StaticObfuscation, Reason
<1>2. r.view = "intrinsic"
  BY <1>1
<1>3. \E e \in d.intrinsic : e.op = "obfuscated-loader"
  <2>1. MoreIntrinsic(c, d)
    BY <1>2 DEF More
  <2>2. \A e \in c.intrinsic : \E f \in d.intrinsic : e.op = f.op
    BY <2>1, MirrorsCount DEF MoreIntrinsic, Like
  <2> QED
    BY <1>1, <2>2
<1> QED
  BY <1>1, <1>3 DEF StaticObfuscation, Reason

\* A reason drawn from a view that shows at least as much is still there.
LEMMA ReasonsGrow ==
  ASSUME NEW t, NEW u, NEW r \in Reasons(t), More(r.view, Context(t), Context(u))
  PROVE  r \in Reasons(u)
<1> DEFINE c == Context(t)
           d == Context(u)
<1>1. \/ r \in ExfilAndProc(c) \/ r \in DynamicCode(c) \/ r \in SensitivePaths(c) \/ r \in CommandSignatures(c)
      \/ r \in EvasionAndEndpoints(c) \/ r \in CustomTaint(c) \/ r \in StaticObfuscation(c)
  BY DEF Reasons
<1>2. \/ r \in ExfilAndProc(d) \/ r \in DynamicCode(d) \/ r \in SensitivePaths(d) \/ r \in CommandSignatures(d)
      \/ r \in EvasionAndEndpoints(d) \/ r \in CustomTaint(d) \/ r \in StaticObfuscation(d)
  <2> HIDE DEF c, d
  <2>0. More(r.view, c, d)
    BY DEF c, d
  <2> QED
    BY <1>1, <2>0, ExfilGrows, CodeGrows, PathsGrow, CommandsGrow, EvasionGrows, TaintGrows, StaticGrows
<1> QED
  BY <1>2 DEF Reasons

-----------------------------------------------------------------------------
(* Reasons are finitely many, and each weighs something *)

\* A function on a finite set has finitely many values,
LEMMA ImageFinite ==
  ASSUME NEW f, IsFiniteSet(DOMAIN f)
  PROVE  IsFiniteSet({f[x] : x \in DOMAIN f})
<1> DEFINE S == DOMAIN f
           T == {f[x] : x \in S}
           g == [x \in S |-> f[x]]
<1>1. g \in Surjection(S, T)
  BY DEF Surjection
<1> HIDE DEF S, T, g
<1>2. IsFiniteSet(T)
  <2>1. IsFiniteSet(S)
    BY DEF S
  <2> QED
    BY <1>1, <2>1, FS_Surjection
<1> QED
  BY <1>2 DEF S, T

\* and so has a sequence.
LEMMA RangeFinite ==
  ASSUME NEW S, NEW s \in Seq(S)
  PROVE  IsFiniteSet(Range(s))
<1>1. DOMAIN s = 1..Len(s) /\ Len(s) \in Nat
  OBVIOUS
<1>2. IsFiniteSet(1..Len(s))
  BY <1>1, FS_Interval
<1>3. Range(s) = {s[x] : x \in DOMAIN s}
  BY DEF Range
<1> QED
  BY <1>1, <1>2, <1>3, ImageFinite

\* The views of a reason, and a sound set of reasons.
Views == {"scored", "intrinsic", "both"}
Sound(R) == IsFiniteSet(R) /\ \A r \in R : r.weight \in 1..100 /\ r.view \in Views

\* One reason is sound,
LEMMA SoundReason ==
  ASSUME NEW view \in Views, NEW why, NEW weight \in 1..100, NEW holds
  PROVE  Sound(Reason(view, why, weight, holds))
<1> DEFINE R == Reason(view, why, weight, holds)
           x == [why |-> <<why>>, weight |-> weight, view |-> view]
<1>1. R = {} \/ R = {x}
  BY DEF Reason
<1>2. x.weight = weight /\ x.view = view
  OBVIOUS
<1> HIDE DEF R, x
<1>3. IsFiniteSet({}) /\ IsFiniteSet({x})
  BY FS_EmptySet, FS_Singleton
<1>4. Sound(R)
  BY <1>1, <1>2, <1>3 DEF Sound
<1> QED
  BY <1>4 DEF R

\* so is one for each of finitely many indicators,
LEMMA SoundPerItem ==
  ASSUME NEW view \in Views, NEW why, NEW weight \in 1..100, NEW items, IsFiniteSet(items)
  PROVE  Sound(PerItem(view, why, weight, items))
<1> DEFINE f == [i \in items |-> [why |-> <<why, i>>, weight |-> weight, view |-> view]]
<1>1. PerItem(view, why, weight, items) = {f[i] : i \in DOMAIN f} /\ DOMAIN f = items
  BY DEF PerItem
<1>2. \A i \in items : f[i].weight = weight /\ f[i].view = view
  OBVIOUS
<1> HIDE DEF f
<1>3. IsFiniteSet({f[i] : i \in DOMAIN f})
  BY <1>1, ImageFinite
<1> QED
  BY <1>1, <1>2, <1>3 DEF Sound

\* and so are two sound sets together.
LEMMA SoundTogether ==
  ASSUME NEW P, NEW Q, Sound(P), Sound(Q)
  PROVE  Sound(P \cup Q)
BY FS_Union DEF Sound

\* The weights the signatures use.
LEMMA Weights ==
  /\ 8 \in 1..100 /\ 10 \in 1..100 /\ 15 \in 1..100 /\ 18 \in 1..100 /\ 20 \in 1..100 /\ 25 \in 1..100
  /\ 30 \in 1..100 /\ 45 \in 1..100 /\ 60 \in 1..100
  /\ "scored" \in Views /\ "intrinsic" \in Views /\ "both" \in Views
BY DEF Views

\* Each detector gives a sound set of reasons: the table of single matches,
LEMMA SoundMatched == ASSUME NEW c PROVE Sound(Matched(c))
<1> DEFINE n == 24
           part == [k \in 1..n |-> Reason("intrinsic", OneMatch[k][1], OneMatch[k][2], Matching(c.mic, OneMatch[k][3], OneMatch[k][1]) # {})]
<1>1. DOMAIN OneMatch = 1..n
  BY DEF OneMatch
<1>2. \A k \in 1..n : OneMatch[k][2] \in 1..100
  <2>1. /\ OneMatch[1][2] \in 1..100
        /\ OneMatch[2][2] \in 1..100
        /\ OneMatch[3][2] \in 1..100
        /\ OneMatch[4][2] \in 1..100
        /\ OneMatch[5][2] \in 1..100
        /\ OneMatch[6][2] \in 1..100
        /\ OneMatch[7][2] \in 1..100
        /\ OneMatch[8][2] \in 1..100
        /\ OneMatch[9][2] \in 1..100
        /\ OneMatch[10][2] \in 1..100
        /\ OneMatch[11][2] \in 1..100
        /\ OneMatch[12][2] \in 1..100
        /\ OneMatch[13][2] \in 1..100
        /\ OneMatch[14][2] \in 1..100
        /\ OneMatch[15][2] \in 1..100
        /\ OneMatch[16][2] \in 1..100
        /\ OneMatch[17][2] \in 1..100
        /\ OneMatch[18][2] \in 1..100
        /\ OneMatch[19][2] \in 1..100
        /\ OneMatch[20][2] \in 1..100
        /\ OneMatch[21][2] \in 1..100
        /\ OneMatch[22][2] \in 1..100
        /\ OneMatch[23][2] \in 1..100
        /\ OneMatch[24][2] \in 1..100
    BY DEF OneMatch
  <2> QED
    BY <2>1
<1>3. \A k \in 1..n : Sound(part[k])
  BY <1>2, SoundReason, Weights
<1>4. Matched(c) = UNION {part[k] : k \in DOMAIN part}
  <2>1. \A r : r \in Matched(c) <=> \E k \in 1..n : r \in part[k]
    <3> HIDE DEF n
    <3> QED
      BY <1>1 DEF Matched, Range
  <2>2. DOMAIN part = 1..n
    OBVIOUS
  <2> HIDE DEF part, n
  <2> QED
    BY <2>1, <2>2
<1>5. DOMAIN part = 1..n /\ IsFiniteSet(1..n)
  <2>1. n \in Int
    OBVIOUS
  <2> HIDE DEF n
  <2>2. IsFiniteSet(1..n)
    BY <2>1, FS_Interval
  <2> QED
    BY <2>2
<1> HIDE DEF part, n
<1>6. IsFiniteSet({part[k] : k \in DOMAIN part})
  BY <1>5, ImageFinite
<1>7. IsFiniteSet(UNION {part[k] : k \in DOMAIN part})
  <2> DEFINE K == {part[k] : k \in DOMAIN part}
  <2>1. \A T \in K : IsFiniteSet(T)
    BY <1>3, <1>5 DEF Sound
  <2> HIDE DEF K
  <2>2. IsFiniteSet(UNION K)
    <3>1. IsFiniteSet(K)
      BY <1>6 DEF K
    <3> QED
      BY <2>1, <3>1, FS_UNION
  <2> QED
    BY <2>2 DEF K
<1> QED
  BY <1>3, <1>4, <1>5, <1>7 DEF Sound

\* the taint rules, whose weights were validated,
LEMMA SoundTaint == ASSUME NEW c PROVE Sound(CustomTaint(c))
<1> DEFINE f == [r \in Rules |-> [why |-> <<"rule", r.name>>, weight |-> r.weight, view |-> "intrinsic"]]
           F == {f[r] : r \in DOMAIN f}
<1>1. CustomTaint(c) \in SUBSET F
  BY DEF CustomTaint
<1>2. \A y \in F : y.weight \in 1..100 /\ y.view \in Views
  BY RuleAssumption DEF Views
<1>3. DOMAIN f = Rules /\ IsFiniteSet(Rules)
  BY RuleAssumption
<1> HIDE DEF f
<1>4. IsFiniteSet(F)
  BY <1>3, ImageFinite
<1> HIDE DEF F
<1> QED
  BY <1>1, <1>2, <1>4, FS_Subset DEF Sound

\* the sensitive paths,
LEMMA SoundPaths == ASSUME NEW c, IsFiniteSet(c.ic) PROVE Sound(SensitivePaths(c))
<1>1. ASSUME NEW f PROVE IsFiniteSet(Matching(c.ic, {f}, "sensitive"))
  <2>1. IsFiniteSet(In(c.ic, {f})) /\ Matching(c.ic, {f}, "sensitive") \in SUBSET In(c.ic, {f})
    BY OfKind DEF Matching
  <2> QED
    BY <2>1, FS_Subset
<1> DEFINE when(gate, items) == IF gate THEN items ELSE {}
           i1 == when(SuspiciousNet(c), Matching(c.ic, {"EnvAccessed"}, "sensitive"))
           i2 == when(Correlated(c), Matching(c.ic, {"Paths"}, "sensitive"))
           i3 == Matching(c.ic, {"FilesWritten"}, "sensitive")
           p1 == PerItem("scored", "env", 25, i1)
           p2 == PerItem("scored", "reads", 25, i2)
           p3 == PerItem("scored", "writes", 20, i3)
           r4 == Reason("intrinsic", "registry hijack", 45, WritesBoth(c, "registry file", "foreign registry"))
<1>2. SensitivePaths(c) = p1 \cup p2 \cup p3 \cup r4
  BY DEF SensitivePaths
<1>3. IsFiniteSet(i1)
  BY <1>1, FS_EmptySet
<1>4. IsFiniteSet(i2)
  BY <1>1, FS_EmptySet
<1>5. IsFiniteSet(i3)
  BY <1>1
<1> HIDE DEF i1, i2, i3
<1>6. Sound(p1) /\ Sound(p2) /\ Sound(p3)
  BY <1>3, <1>4, <1>5, SoundPerItem, Weights, Zenon
<1>7. Sound(r4)
  BY SoundReason, Weights, Zenon
<1> HIDE DEF p1, p2, p3, r4
<1> QED
  BY <1>2, <1>6, <1>7, SoundTogether

\* dynamic code,
LEMMA SoundCode == ASSUME NEW c PROVE Sound(DynamicCode(c))
<1> DEFINE seen(cat) == Count(c.events, cat)
           n(field) == Cardinality(In(c.ic, {field}))
           acts == Count(c.intrinsic, "net") > 0 \/ Count(c.intrinsic, "eval") > 0
           r1 == Reason("scored", "network activity", 20, seen("net") > 0 /\ (HardNet(c) # {} \/ n("Payloads") > 0))
           r2 == Reason("intrinsic", "download and execute", 60, Fetched(c) # {} /\ Count(c.intrinsic, "net") > 0)
           r3 == Reason("scored", "dynamic code", 20, seen("eval") > 0 /\ Correlated(c))
           r4 == Reason("scored", "packed code", 15, seen("eval") >= 5 /\ Correlated(c))
           r5 == Reason("intrinsic", "decoded loader", 60, Matching(c.mic, {"Decoded"}, "loader") # {})
           r6 == Reason("intrinsic", "decrypt then eval", 60, \E e \in c.intrinsic : e.op = "decrypt-then-eval")
           r7 == Reason("intrinsic", "hidden endpoint", 60, acts /\ \E i \in In(c.mic, {"Decoded"}) : Hides(i))
           r8 == Reason("scored", "writes files", 15, n("FilesWritten") > 0 /\ Correlated(c))
           r9 == Reason("scored", "deletes files", 18, n("FilesDeleted") > 0)
           r10 == Reason("scored", "wallets", 30, n("Wallets") > 0 /\ (NetURLs(c) # {} \/ n("Payloads") > 0))
           r11 == Reason("scored", "onion", 25, n("Onion") > 0)
           r12 == Reason("scored", "secrets", 20, n("Secrets") > 0 /\ (SuspiciousNet(c) \/ seen("net") > 0))
           r13 == Reason("scored", "payloads", 15, n("Payloads") > 0 /\ seen("net") > 0)
           r14 == Reason("scored", "ransomware", 25, Matching(c.ic, {"CryptoOps"}, "cipher") # {} /\ n("FilesWritten") >= 3)
           r15 == Reason("scored", "decodes", 10, n("Decoded") > 0 /\ Correlated(c))
           r16 == Reason("scored", "staged loader", 15, n("Decoded") > 0 /\ SuspiciousNet(c))
           r17 == Reason("scored", "wiper", 45, n("FilesDeleted") > 0 /\ n("Decoded") > 0 /\ seen("eval") > 0)
<1>1. DynamicCode(c) = r1 \cup r2 \cup r3 \cup r4 \cup r5 \cup r6 \cup r7 \cup r8 \cup r9
            \cup r10 \cup r11 \cup r12 \cup r13 \cup r14 \cup r15 \cup r16 \cup r17
  BY DEF DynamicCode
<1>2. Sound(r1)
  BY SoundReason, Weights, Zenon
<1>3. Sound(r2)
  BY SoundReason, Weights, Zenon
<1>4. Sound(r3)
  BY SoundReason, Weights, Zenon
<1>5. Sound(r4)
  BY SoundReason, Weights, Zenon
<1>6. Sound(r5)
  BY SoundReason, Weights, Zenon
<1>7. Sound(r6)
  BY SoundReason, Weights, Zenon
<1>8. Sound(r7)
  BY SoundReason, Weights, Zenon
<1>9. Sound(r8)
  BY SoundReason, Weights, Zenon
<1>10. Sound(r9)
  BY SoundReason, Weights, Zenon
<1>11. Sound(r10)
  BY SoundReason, Weights, Zenon
<1>12. Sound(r11)
  BY SoundReason, Weights, Zenon
<1>13. Sound(r12)
  BY SoundReason, Weights, Zenon
<1>14. Sound(r13)
  BY SoundReason, Weights, Zenon
<1>15. Sound(r14)
  BY SoundReason, Weights, Zenon
<1>16. Sound(r15)
  BY SoundReason, Weights, Zenon
<1>17. Sound(r16)
  BY SoundReason, Weights, Zenon
<1>18. Sound(r17)
  BY SoundReason, Weights, Zenon
<1> HIDE DEF r1, r2, r3, r4, r5, r6, r7, r8, r9, r10, r11, r12, r13, r14, r15, r16, r17
<1>a. Sound(r1 \cup r2 \cup r3 \cup r4 \cup r5 \cup r6 \cup r7 \cup r8 \cup r9)
  BY <1>2, <1>3, <1>4, <1>5, <1>6, <1>7, <1>8, <1>9, <1>10, SoundTogether
<1>b. Sound(r1 \cup r2 \cup r3 \cup r4 \cup r5 \cup r6 \cup r7 \cup r8 \cup r9 \cup r10 \cup r11 \cup r12 \cup r13)
  BY <1>a, <1>11, <1>12, <1>13, <1>14, SoundTogether
<1>c. Sound(r1 \cup r2 \cup r3 \cup r4 \cup r5 \cup r6 \cup r7 \cup r8 \cup r9 \cup r10 \cup r11 \cup r12 \cup r13 \cup r14 \cup r15 \cup r16 \cup r17)
  BY <1>b, <1>15, <1>16, <1>17, <1>18, SoundTogether
<1> QED
  BY <1>1, <1>c

\* exfiltration and processes,
LEMMA SoundExfil == ASSUME NEW c PROVE Sound(ExfilAndProc(c))
<1> DEFINE r1 == Reason("intrinsic", "exfiltration", 60,
                      \/ ExfilSources(c) /\ Endpoints(c.intrinsic) # {}
                      \/ \E v \in c.watched : Reaches(Egress(c), v))
           r2 == Reason("intrinsic", "shell on a socket", 60,
                      Count(c.intrinsic, "net") > 0 /\ Spawned(c, "interactive shell") # {})
<1>1. ExfilAndProc(c) = r1 \cup r2
  BY DEF ExfilAndProc
<1>2. Sound(r1)
  BY SoundReason, Weights, Zenon
<1>3. Sound(r2)
  BY SoundReason, Weights, Zenon
<1> HIDE DEF r1, r2
<1> QED
  BY <1>1, <1>2, <1>3, SoundTogether

\* commands,
LEMMA SoundCommands == ASSUME NEW c PROVE Sound(CommandSignatures(c))
<1> DEFINE commands(trait) == Matching(c.mic, {"Commands"}, trait) # {}
           r2 == Reason("intrinsic", "staged download", 60, StagedDownload(c))
           r3 == Reason("intrinsic", "drop and exec", 60, DropAndExec(c))
           r4 == Reason("intrinsic", "injection", 60, Injects(c))
           r5 == Reason("intrinsic", "native addon", 60, \E w \in Writes(c) : Has(w[1], "native addon"))
           r6 == Reason("intrinsic", "extract and run", 60, commands("extracts") /\ commands("runs from stage"))
           r7 == Reason("both", "worm", 60, commands("publish") /\ (Injects(c) \/ Correlated(c)))
<1>1. CommandSignatures(c) = Matched(c) \cup r2 \cup r3 \cup r4 \cup r5 \cup r6 \cup r7
  BY DEF CommandSignatures
<1>2. Sound(r2)
  BY SoundReason, Weights, Zenon
<1>3. Sound(r3)
  BY SoundReason, Weights, Zenon
<1>4. Sound(r4)
  BY SoundReason, Weights, Zenon
<1>5. Sound(r5)
  BY SoundReason, Weights, Zenon
<1>6. Sound(r6)
  BY SoundReason, Weights, Zenon
<1>7. Sound(r7)
  BY SoundReason, Weights, Zenon
<1> HIDE DEF r2, r3, r4, r5, r6, r7
<1> QED
  BY <1>1, <1>2, <1>3, <1>4, <1>5, <1>6, <1>7, SoundTogether, SoundMatched

\* evasion and endpoints,
LEMMA SoundEvasion == ASSUME NEW c PROVE Sound(EvasionAndEndpoints(c))
<1> DEFINE r1 == Reason("intrinsic", "inspector", 60, \E e \in c.intrinsic : e.op = "inspector.open")
           r2 == Reason("intrinsic", "dns hijack", 45, \E e \in c.intrinsic : e.op = "dns.setServers")
           r3 == Reason("both", "sandbox probes", 20, Probes(c))
           r4 == Reason("scored", "fingerprint", 8, Count(c.events, "os") > 0 /\ HardNet(c) # {})
           r5 == Reason("scored", "endpoints", 10, HardNet(c) # {})
<1>1. EvasionAndEndpoints(c) = r1 \cup r2 \cup r3 \cup r4 \cup r5
  BY DEF EvasionAndEndpoints
<1>2. Sound(r1)
  BY SoundReason, Weights, Zenon
<1>3. Sound(r2)
  BY SoundReason, Weights, Zenon
<1>4. Sound(r3)
  BY SoundReason, Weights, Zenon
<1>5. Sound(r4)
  BY SoundReason, Weights, Zenon
<1>6. Sound(r5)
  BY SoundReason, Weights, Zenon
<1> HIDE DEF r1, r2, r3, r4, r5
<1> QED
  BY <1>1, <1>2, <1>3, <1>4, <1>5, <1>6, SoundTogether

\* and static obfuscation.
LEMMA SoundStatic == ASSUME NEW c PROVE Sound(StaticObfuscation(c))
BY SoundReason, Weights, Zenon DEF StaticObfuscation

\* The verdict adds up finitely many positive weights.
LEMMA SoundReasons == ASSUME NEW t, IsFiniteSet(t.iocs) PROVE Sound(Reasons(t)) /\ Weighed(Reasons(t))
<1> DEFINE c == Context(t)
<1>1. Reasons(t) = ExfilAndProc(c) \cup DynamicCode(c) \cup SensitivePaths(c) \cup CommandSignatures(c)
                   \cup EvasionAndEndpoints(c) \cup CustomTaint(c) \cup StaticObfuscation(c)
  BY DEF Reasons
<1>2. IsFiniteSet(c.ic)
  BY DEF Context
<1> HIDE DEF c
<1>3. /\ Sound(ExfilAndProc(c)) /\ Sound(DynamicCode(c)) /\ Sound(SensitivePaths(c)) /\ Sound(CommandSignatures(c))
      /\ Sound(EvasionAndEndpoints(c)) /\ Sound(CustomTaint(c)) /\ Sound(StaticObfuscation(c))
  BY <1>2, SoundExfil, SoundCode, SoundPaths, SoundCommands, SoundEvasion, SoundTaint, SoundStatic
<1>4. Sound(Reasons(t))
  <2> DEFINE A == ExfilAndProc(c)
             B == DynamicCode(c)
             P == SensitivePaths(c)
             C == CommandSignatures(c)
             E == EvasionAndEndpoints(c)
             T == CustomTaint(c)
             S == StaticObfuscation(c)
  <2> HIDE DEF A, B, P, C, E, T, S
  <2>1. Sound(A) /\ Sound(B) /\ Sound(P) /\ Sound(C) /\ Sound(E) /\ Sound(T) /\ Sound(S)
    BY <1>3 DEF A, B, P, C, E, T, S
  <2>2. Sound(A \cup B \cup P \cup C \cup E \cup T \cup S)
    BY <2>1, SoundTogether
  <2> QED
    BY <1>1, <2>2 DEF A, B, P, C, E, T, S
<1> QED
  BY <1>4 DEF Sound, Weighed

-----------------------------------------------------------------------------
(* What the stubs tell *)

\* Well-formed events, and calls of the tracer.
EventOK(e) == e.args \in Seq(Items) /\ e.note \in Seq(Items)
EventsOK(es) == es \in Seq(Range(es)) /\ \A e \in Range(es) : EventOK(e)
Pairs == Fields \X Items
CallOK(c) ==
  /\ c = [events |-> c.events, adds |-> c.adds, decoded |-> c.decoded, watched |-> c.watched, tainted |-> c.tainted]
  /\ EventsOK(c.events)
  /\ IsFiniteSet(c.adds) /\ c.adds \subseteq Pairs
  /\ IsFiniteSet(c.decoded) /\ c.decoded \subseteq Items

\* A call made of well-formed events and indicators is well-formed.
LEMMA ToldIsOK ==
  ASSUME NEW events, EventsOK(events), NEW adds \in SUBSET Pairs, IsFiniteSet(adds)
  PROVE  CallOK(Told(events, adds))
BY FS_EmptySet DEF Told, CallOK

\* An event about items is well-formed.
LEMMA EventIsOK ==
  ASSUME NEW cat, NEW op, NEW i \in Items, NEW j \in Items
  PROVE  /\ EventOK(Event(cat, op, <<>>)) /\ EventOK(Event(cat, op, <<i>>))
         /\ EventOK(Event(cat, op, <<i, j>>)) /\ EventOK(Noted(cat, op, <<i>>, j))
BY DEF Event, Noted, EventOK

\* So is a call that decodes an item.
LEMMA DecodedIsOK ==
  ASSUME NEW c, CallOK(c), NEW i \in Items
  PROVE  CallOK(Decoded(c, i))
<1>1. IsFiniteSet({i}) /\ {i} \subseteq Items
  BY FS_Singleton
<1>2. Decoded(c, i) = [events |-> c.events, adds |-> c.adds, decoded |-> {i}, watched |-> c.watched, tainted |-> c.tainted]
  BY DEF CallOK, Decoded
<1> QED
  BY <1>1, <1>2 DEF CallOK

\* Short lists of events, and one indicator.
LEMMA FewEvents ==
  /\ EventsOK(<<>>)
  /\ \A e : EventOK(e) => EventsOK(<<e>>)
  /\ \A d, e : EventOK(d) /\ EventOK(e) => EventsOK(<<d, e>>)
<1>1. EventsOK(<<>>)
  BY DEF EventsOK, Range
<1>2. ASSUME NEW e, EventOK(e) PROVE EventsOK(<<e>>)
  BY <1>2 DEF EventsOK, Range
<1>3. ASSUME NEW d, NEW e, EventOK(d), EventOK(e) PROVE EventsOK(<<d, e>>)
  BY <1>3 DEF EventsOK, Range
<1> QED
  BY <1>1, <1>2, <1>3

\* No pair and one pair are finite sets of pairs.
LEMMA OnePair ==
  /\ {} \in SUBSET Pairs /\ IsFiniteSet({})
  /\ \A f \in Fields : \A i \in Items : {<<f, i>>} \in SUBSET Pairs /\ IsFiniteSet({<<f, i>>})
<1>1. ASSUME NEW f \in Fields, NEW i \in Items PROVE {<<f, i>>} \in SUBSET Pairs /\ IsFiniteSet({<<f, i>>})
  <2>1. IsFiniteSet({<<f, i>>})
    BY FS_Singleton
  <2> QED
    BY <2>1 DEF Pairs
<1>2. IsFiniteSet({})
  BY FS_EmptySet
<1> QED
  BY <1>1, <1>2

\* A call that tells one event,
LEMMA ToldOne ==
  ASSUME NEW e, EventOK(e), NEW i \in Items
  PROVE  /\ CallOK(Told(<<e>>, {}))
         /\ \A f \in Fields : CallOK(Told(<<e>>, {<<f, i>>}))
BY FewEvents, OnePair, ToldIsOK

\* and one that tells two.
LEMMA ToldTwo ==
  ASSUME NEW d, EventOK(d), NEW e, EventOK(e), NEW i \in Items
  PROVE  /\ CallOK(Told(<<d, e>>, {}))
         /\ \A f \in Fields : CallOK(Told(<<d, e>>, {<<f, i>>}))
BY FewEvents, OnePair, ToldIsOK

\* A call that a quiet runtime leaves out.
LEMMA UnlessIsOK ==
  ASSUME NEW c, CallOK(c), NEW quiet
  PROVE  CallOK(Unless(quiet, c)) /\ CallOK(Silence)
<1>1. CallOK(Silence)
  BY FewEvents, OnePair, ToldIsOK DEF Silence
<1> QED
  BY <1>1 DEF Unless

\* The fields that the stubs add to.
LEMMA FieldsAre ==
  /\ "Paths" \in Fields /\ "Headers" \in Fields /\ "Payloads" \in Fields /\ "Domains" \in Fields
  /\ "Commands" \in Fields /\ "EnvAccessed" \in Fields /\ "CryptoOps" \in Fields /\ "FilesWritten" \in Fields
  /\ "FilesDeleted" \in Fields /\ "Decoded" \in Fields
BY DEF Fields, Found

\* The stubs that tell one or two events.
LEMMA SimpleStubs ==
  ASSUME NEW i \in Items, NEW j \in Items
  PROVE  /\ CallOK(Request(i))
         /\ CallOK(RequestOver(i))
         /\ CallOK(SetHeader(i))
         /\ CallOK(Send("request.write", i))
         /\ CallOK(Fetch(i))
         /\ CallOK(Post(i, j))
         /\ CallOK(Beacon(i, j))
         /\ CallOK(XHR(i, j))
         /\ CallOK(Connect(i))
         /\ CallOK(Listen)
         /\ CallOK(Lookup(i))
         /\ CallOK(SetServers(i))
         /\ CallOK(Spawn("spawn", i))
         /\ CallOK(Spawn("shell-exec", i))
         /\ CallOK(ShellInterpreter(i))
         /\ CallOK(EnvRead(i))
         /\ CallOK(ReadMissing(i))
         /\ CallOK(Cipher(i))
         /\ CallOK(HostInfo)
         /\ CallOK(Inspector)
         /\ CallOK(ObfuscatedLoader)
<1>1. CallOK(Request(i))
  BY EventIsOK, FieldsAre, ToldOne, ToldTwo DEF Request
<1>2. CallOK(RequestOver(i))
  BY EventIsOK, FieldsAre, ToldOne, ToldTwo DEF RequestOver
<1>3. CallOK(SetHeader(i))
  BY EventIsOK, FieldsAre, ToldOne, ToldTwo DEF SetHeader
<1>4. CallOK(Send("request.write", i))
  BY EventIsOK, FieldsAre, ToldOne, ToldTwo DEF Send
<1>5. CallOK(Fetch(i))
  BY EventIsOK, FieldsAre, ToldOne, ToldTwo DEF Fetch
<1>6. CallOK(Post(i, j))
  BY EventIsOK, FieldsAre, ToldOne, ToldTwo DEF Post
<1>7. CallOK(Beacon(i, j))
  BY EventIsOK, FieldsAre, ToldOne, ToldTwo DEF Beacon
<1>8. CallOK(XHR(i, j))
  BY EventIsOK, FieldsAre, ToldOne, ToldTwo DEF XHR
<1>9. CallOK(Connect(i))
  BY EventIsOK, FieldsAre, ToldOne, ToldTwo DEF Connect
<1>10. CallOK(Listen)
  BY EventIsOK, FieldsAre, ToldOne, ToldTwo DEF Listen
<1>11. CallOK(Lookup(i))
  BY EventIsOK, FieldsAre, ToldOne, ToldTwo DEF Lookup
<1>12. CallOK(SetServers(i))
  BY EventIsOK, FieldsAre, ToldOne, ToldTwo DEF SetServers
<1>13. CallOK(Spawn("spawn", i))
  BY EventIsOK, FieldsAre, ToldOne, ToldTwo DEF Spawn
<1>14. CallOK(Spawn("shell-exec", i))
  BY EventIsOK, FieldsAre, ToldOne, ToldTwo DEF Spawn
<1>15. CallOK(ShellInterpreter(i))
  BY EventIsOK, FieldsAre, ToldOne, ToldTwo DEF ShellInterpreter
<1>16. CallOK(EnvRead(i))
  BY EventIsOK, FieldsAre, ToldOne, ToldTwo DEF EnvRead
<1>17. CallOK(ReadMissing(i))
  BY EventIsOK, FieldsAre, ToldOne, ToldTwo DEF ReadMissing
<1>18. CallOK(Cipher(i))
  BY EventIsOK, FieldsAre, ToldOne, ToldTwo DEF Cipher
<1>19. CallOK(HostInfo)
  BY EventIsOK, FieldsAre, ToldOne, ToldTwo DEF HostInfo
<1>20. CallOK(Inspector)
  BY EventIsOK, FieldsAre, ToldOne, ToldTwo DEF Inspector
<1>21. CallOK(ObfuscatedLoader)
  BY EventIsOK, FieldsAre, ToldOne, ToldTwo DEF ObfuscatedLoader
<1> QED
  BY <1>1, <1>2, <1>3, <1>4, <1>5, <1>6, <1>7, <1>8, <1>9, <1>10, <1>11, <1>12, <1>13, <1>14, <1>15,
     <1>16, <1>17, <1>18, <1>19, <1>20, <1>21

\* fs.readFile, which watches what it returns.
LEMMA ReadIsOK == ASSUME NEW i \in Items, NEW j \in Items PROVE CallOK(Read(i, j))
<1> DEFINE call == Told(<<Event("fs", "readFileSync", <<i>>)>>, {<<"Paths", i>>})
           from == ReadSources(i, j)
<1>1. CallOK(call)
  BY EventIsOK, FieldsAre, ToldOne
<1>2. Read(i, j) = [call EXCEPT !.watched = from.watched, !.tainted = from.tainted]
  BY DEF Read
<1> HIDE DEF call, from
<1>3. Read(i, j) = [events |-> call.events, adds |-> call.adds, decoded |-> call.decoded,
                    watched |-> from.watched, tainted |-> from.tainted]
  BY <1>1, <1>2 DEF CallOK
<1> QED
  BY <1>1, <1>3 DEF CallOK

\* A file that is written, and what it runs.
LEMMA WrittenIsOK ==
  ASSUME NEW i \in Items, NEW j \in Items
  PROVE  LET adds == {<<"FilesWritten", i>>} \cup IF Executable(i, j) THEN {<<"Commands", j>>} ELSE {}
         IN  adds \in SUBSET Pairs /\ IsFiniteSet(adds)
<1> DEFINE a == {<<"FilesWritten", i>>}
           b == IF Executable(i, j) THEN {<<"Commands", j>>} ELSE {}
<1>1. a \in SUBSET Pairs /\ IsFiniteSet(a)
  BY FieldsAre, OnePair
<1>2. b \in SUBSET Pairs /\ IsFiniteSet(b)
  BY FieldsAre, OnePair
<1> HIDE DEF a, b
<1>3. a \cup b \in SUBSET Pairs /\ IsFiniteSet(a \cup b)
  BY <1>1, <1>2, FS_Union
<1> QED
  BY <1>3 DEF a, b

\* fs.writeFile and its shell counterpart.
LEMMA WriteIsOK == ASSUME NEW i \in Items, NEW j \in Items PROVE CallOK(Write(i, j)) /\ CallOK(ShellWrite(i, j))
<1>1. EventsOK(<<Event("fs", "writeFileSync", <<i, j>>)>>)
  BY EventIsOK, FewEvents
<1>2. EventsOK(<<Event("fs", "shell-write", <<i>>), Noted("fs", "shell-write-data", <<i>>, j)>>)
  BY EventIsOK, FewEvents
<1> DEFINE adds == {<<"FilesWritten", i>>} \cup IF Executable(i, j) THEN {<<"Commands", j>>} ELSE {}
<1>3. adds \in SUBSET Pairs /\ IsFiniteSet(adds)
  BY WrittenIsOK
<1>4. /\ Write(i, j) = Told(<<Event("fs", "writeFileSync", <<i, j>>)>>, adds)
      /\ ShellWrite(i, j) = Told(<<Event("fs", "shell-write", <<i>>), Noted("fs", "shell-write-data", <<i>>, j)>>, adds)
  BY DEF Write, ShellWrite
<1> HIDE DEF adds
<1> QED
  BY <1>1, <1>2, <1>3, <1>4, ToldIsOK

\* Appending to no event and to one.
LEMMA Joined == ASSUME NEW d, NEW e PROVE <<>> \o <<e>> = <<e>> /\ <<d>> \o <<e>> = <<d, e>>
<1> DEFINE S == {d, e}
           s == <<d>> \o <<e>>
<1>1. <<d>> \in Seq(S) /\ <<e>> \in Seq(S) /\ <<d, e>> \in Seq(S)
  OBVIOUS
<1>2. s \in Seq(S) /\ Len(s) = 2 /\ s[1] = d /\ s[2] = e
  BY <1>1, ConcatProperties
<1>3. \A k \in 1..2 : s[k] = <<d, e>>[k]
  BY <1>2
<1>4. s = <<d, e>>
  <2> HIDE DEF s, S
  <2> QED
    BY <1>1, <1>2, <1>3, SeqEqual
<1> QED
  BY <1>4

\* eval, whose notes depend on what it runs.
LEMMA EvalIsOK == ASSUME NEW i \in Items, NEW quiet \in BOOLEAN PROVE CallOK(Eval(i, quiet))
<1> DEFINE d == Event("eval", "decrypt-then-eval", <<i>>)
           e == Event("eval", "dynamic-code", <<i>>)
           deciphered == IF Has(i, "deciphered") THEN <<d>> ELSE <<>>
           code == Told(deciphered \o <<e>>, {})
<1>1. EventOK(d) /\ EventOK(e)
  BY EventIsOK
<1>2. deciphered = <<>> \/ deciphered = <<d>>
  OBVIOUS
<1>3. Eval(i, quiet) \in {Told(deciphered, {}), Decoded(code, i), code}
  BY DEF Eval
<1> HIDE DEF d, e, deciphered
<1>4. deciphered \o <<e>> = <<e>> \/ deciphered \o <<e>> = <<d, e>>
  <2>1. CASE deciphered = <<>>
    BY <2>1
  <2>2. CASE deciphered = <<d>>
    BY <2>2, Joined
  <2> QED
    BY <1>2, <2>1, <2>2
<1>5. EventsOK(deciphered) /\ EventsOK(deciphered \o <<e>>)
  BY <1>1, <1>2, <1>4, FewEvents
<1>6. CallOK(Told(deciphered, {})) /\ CallOK(code)
  BY <1>5, OnePair, ToldIsOK
<1> HIDE DEF code
<1> QED
  BY <1>3, <1>6, DecodedIsOK

\* The stubs that decode, and the deletions.
LEMMA DecodingStubs ==
  ASSUME NEW i \in Items, NEW j \in Items, NEW quiet \in BOOLEAN
  PROVE  /\ CallOK(Delete(i, quiet)) /\ CallOK(BufferFrom(i)) /\ CallOK(BufferConcat(i)) /\ CallOK(Atob(i, quiet))
         /\ CallOK(FromCharCode(i, quiet)) /\ CallOK(ShellDecode(i)) /\ CallOK(Decipher(i, j))
<1>1. CallOK(Delete(i, quiet))
  BY EventIsOK, FieldsAre, ToldOne, UnlessIsOK DEF Delete
<1>2. CallOK(BufferFrom(i))
  BY EventIsOK, ToldOne, DecodedIsOK DEF BufferFrom
<1>3. CallOK(BufferConcat(i))
  <2>1. CallOK(Silence)
    BY FewEvents, OnePair, ToldIsOK DEF Silence
  <2> QED
    BY <2>1, DecodedIsOK DEF BufferConcat
<1>4. CallOK(Atob(i, quiet))
  <2> DEFINE event == Unless(quiet, Told(<<Event("eval", "atob", <<i>>)>>, {}))
  <2>1. CallOK(event)
    BY EventIsOK, ToldOne, UnlessIsOK
  <2>2. Atob(i, quiet) = event \/ Atob(i, quiet) = Decoded(event, i)
    BY DEF Atob
  <2> HIDE DEF event
  <2> QED
    BY <2>1, <2>2, DecodedIsOK
<1>5. CallOK(FromCharCode(i, quiet))
  BY EventIsOK, ToldOne, DecodedIsOK, UnlessIsOK DEF FromCharCode
<1>6. CallOK(ShellDecode(i))
  BY EventIsOK, ToldOne, DecodedIsOK DEF ShellDecode
<1>7. CallOK(Decipher(i, j))
  BY EventIsOK, FieldsAre, ToldTwo, DecodedIsOK DEF Decipher
<1> QED
  BY <1>1, <1>2, <1>3, <1>4, <1>5, <1>6, <1>7

\* What a sample may ask.
DoType == [stub : StubNames, on : Items, with : Items]

\* Whatever a sample asks of a stub, the tracer is told something well-formed.
LEMMA PerformIsOK ==
  ASSUME NEW do \in DoType, NEW quiet \in BOOLEAN
  PROVE  CallOK(Perform(do, quiet))
<1> DEFINE i == do.on
           j == do.with
<1>1. i \in Items /\ j \in Items /\ do.stub \in StubNames
  BY DEF DoType
<1>2. CASE do.stub = "request"
  <2>1. Perform(do, quiet) = Request(i)
    BY <1>2 DEF Perform
  <2> HIDE DEF i, j
  <2> QED
    BY <1>1, <2>1, SimpleStubs
<1>3. CASE do.stub = "requestOver"
  <2>1. Perform(do, quiet) = RequestOver(i)
    BY <1>3 DEF Perform
  <2> HIDE DEF i, j
  <2> QED
    BY <1>1, <2>1, SimpleStubs
<1>4. CASE do.stub = "setHeader"
  <2>1. Perform(do, quiet) = SetHeader(i)
    BY <1>4 DEF Perform
  <2> HIDE DEF i, j
  <2> QED
    BY <1>1, <2>1, SimpleStubs
<1>5. CASE do.stub = "send"
  <2>1. Perform(do, quiet) = Send("request.write", i)
    BY <1>5 DEF Perform
  <2> HIDE DEF i, j
  <2> QED
    BY <1>1, <2>1, SimpleStubs
<1>6. CASE do.stub = "fetch"
  <2>1. Perform(do, quiet) = Fetch(i)
    BY <1>6 DEF Perform
  <2> HIDE DEF i, j
  <2> QED
    BY <1>1, <2>1, SimpleStubs
<1>7. CASE do.stub = "post"
  <2>1. Perform(do, quiet) = Post(i, j)
    BY <1>7 DEF Perform
  <2> HIDE DEF i, j
  <2> QED
    BY <1>1, <2>1, SimpleStubs
<1>8. CASE do.stub = "beacon"
  <2>1. Perform(do, quiet) = Beacon(i, j)
    BY <1>8 DEF Perform
  <2> HIDE DEF i, j
  <2> QED
    BY <1>1, <2>1, SimpleStubs
<1>9. CASE do.stub = "xhr"
  <2>1. Perform(do, quiet) = XHR(i, j)
    BY <1>9 DEF Perform
  <2> HIDE DEF i, j
  <2> QED
    BY <1>1, <2>1, SimpleStubs
<1>10. CASE do.stub = "connect"
  <2>1. Perform(do, quiet) = Connect(i)
    BY <1>10 DEF Perform
  <2> HIDE DEF i, j
  <2> QED
    BY <1>1, <2>1, SimpleStubs
<1>11. CASE do.stub = "listen"
  <2>1. Perform(do, quiet) = Listen
    BY <1>11 DEF Perform
  <2> HIDE DEF i, j
  <2> QED
    BY <1>1, <2>1, SimpleStubs
<1>12. CASE do.stub = "lookup"
  <2>1. Perform(do, quiet) = Lookup(i)
    BY <1>12 DEF Perform
  <2> HIDE DEF i, j
  <2> QED
    BY <1>1, <2>1, SimpleStubs
<1>13. CASE do.stub = "setServers"
  <2>1. Perform(do, quiet) = SetServers(i)
    BY <1>13 DEF Perform
  <2> HIDE DEF i, j
  <2> QED
    BY <1>1, <2>1, SimpleStubs
<1>14. CASE do.stub = "spawn"
  <2>1. Perform(do, quiet) = Spawn("spawn", i)
    BY <1>14 DEF Perform
  <2> HIDE DEF i, j
  <2> QED
    BY <1>1, <2>1, SimpleStubs
<1>15. CASE do.stub = "shellExec"
  <2>1. Perform(do, quiet) = Spawn("shell-exec", i)
    BY <1>15 DEF Perform
  <2> HIDE DEF i, j
  <2> QED
    BY <1>1, <2>1, SimpleStubs
<1>16. CASE do.stub = "runNode"
  <2>1. Perform(do, quiet) = ShellInterpreter(i)
    BY <1>16 DEF Perform
  <2> HIDE DEF i, j
  <2> QED
    BY <1>1, <2>1, SimpleStubs
<1>17. CASE do.stub = "env"
  <2>1. Perform(do, quiet) = EnvRead(i)
    BY <1>17 DEF Perform
  <2> HIDE DEF i, j
  <2> QED
    BY <1>1, <2>1, SimpleStubs
<1>18. CASE do.stub = "readMissing"
  <2>1. Perform(do, quiet) = ReadMissing(i)
    BY <1>18 DEF Perform
  <2> HIDE DEF i, j
  <2> QED
    BY <1>1, <2>1, SimpleStubs
<1>19. CASE do.stub = "cipher"
  <2>1. Perform(do, quiet) = Cipher(i)
    BY <1>19 DEF Perform
  <2> HIDE DEF i, j
  <2> QED
    BY <1>1, <2>1, SimpleStubs
<1>20. CASE do.stub = "hostInfo"
  <2>1. Perform(do, quiet) = HostInfo
    BY <1>20 DEF Perform
  <2> HIDE DEF i, j
  <2> QED
    BY <1>1, <2>1, SimpleStubs
<1>21. CASE do.stub = "inspector"
  <2>1. Perform(do, quiet) = Inspector
    BY <1>21 DEF Perform
  <2> HIDE DEF i, j
  <2> QED
    BY <1>1, <2>1, SimpleStubs
<1>22. CASE do.stub = "obfuscated"
  <2>1. Perform(do, quiet) = ObfuscatedLoader
    BY <1>22 DEF Perform
  <2> HIDE DEF i, j
  <2> QED
    BY <1>1, <2>1, SimpleStubs
<1>23. CASE do.stub = "read"
  <2>1. Perform(do, quiet) = Read(i, j)
    BY <1>23 DEF Perform
  <2> HIDE DEF i, j
  <2> QED
    BY <1>1, <2>1, ReadIsOK
<1>24. CASE do.stub = "write"
  <2>1. Perform(do, quiet) = Write(i, j)
    BY <1>24 DEF Perform
  <2> HIDE DEF i, j
  <2> QED
    BY <1>1, <2>1, WriteIsOK
<1>25. CASE do.stub = "shellWrite"
  <2>1. Perform(do, quiet) = ShellWrite(i, j)
    BY <1>25 DEF Perform
  <2> HIDE DEF i, j
  <2> QED
    BY <1>1, <2>1, WriteIsOK
<1>26. CASE do.stub = "delete"
  <2>1. Perform(do, quiet) = Delete(i, quiet)
    BY <1>26 DEF Perform
  <2> HIDE DEF i, j
  <2> QED
    BY <1>1, <2>1, DecodingStubs
<1>27. CASE do.stub = "bufferFrom"
  <2>1. Perform(do, quiet) = BufferFrom(i)
    BY <1>27 DEF Perform
  <2> HIDE DEF i, j
  <2> QED
    BY <1>1, <2>1, DecodingStubs
<1>28. CASE do.stub = "bufferConcat"
  <2>1. Perform(do, quiet) = BufferConcat(i)
    BY <1>28 DEF Perform
  <2> HIDE DEF i, j
  <2> QED
    BY <1>1, <2>1, DecodingStubs
<1>29. CASE do.stub = "atob"
  <2>1. Perform(do, quiet) = Atob(i, quiet)
    BY <1>29 DEF Perform
  <2> HIDE DEF i, j
  <2> QED
    BY <1>1, <2>1, DecodingStubs
<1>30. CASE do.stub = "fromCharCode"
  <2>1. Perform(do, quiet) = FromCharCode(i, quiet)
    BY <1>30 DEF Perform
  <2> HIDE DEF i, j
  <2> QED
    BY <1>1, <2>1, DecodingStubs
<1>31. CASE do.stub = "eval"
  <2>1. Perform(do, quiet) = Eval(i, quiet)
    BY <1>31 DEF Perform
  <2> HIDE DEF i, j
  <2> QED
    BY <1>1, <2>1, EvalIsOK
<1>32. CASE do.stub = "shellDecode"
  <2>1. Perform(do, quiet) = ShellDecode(i)
    BY <1>32 DEF Perform
  <2> HIDE DEF i, j
  <2> QED
    BY <1>1, <2>1, DecodingStubs
<1>33. CASE do.stub = "decipher"
  <2>1. Perform(do, quiet) = Decipher(i, j)
    BY <1>33 DEF Perform
  <2> HIDE DEF i, j
  <2> QED
    BY <1>1, <2>1, DecodingStubs
<1> QED
  BY <1>1, <1>2, <1>3, <1>4, <1>5, <1>6, <1>7, <1>8, <1>9, <1>10, <1>11, <1>12, <1>13, <1>14, <1>15,
     <1>16, <1>17, <1>18, <1>19, <1>20, <1>21, <1>22, <1>23, <1>24, <1>25, <1>26, <1>27, <1>28, <1>29,
     <1>30, <1>31, <1>32, <1>33
     DEF StubNames

-----------------------------------------------------------------------------
(* The merged timeline *)

\* A strict total order of a finite set, and the place of each element in it.
StrictTotal(S, R) ==
  /\ IsFiniteSet(S)
  /\ \A p \in S : <<p, p>> \notin R
  /\ \A p, q, r \in S : <<p, q>> \in R /\ <<q, r>> \in R => <<p, r>> \in R
  /\ \A p, q \in S : p # q => <<p, q>> \in R \/ <<q, p>> \in R
Rank(S, R) == [p \in S |-> Cardinality({q \in S : <<q, p>> \in R}) + 1]

\* The ranks of a finite set in a strict total order are 1, 2, ...
LEMMA Ranks ==
  ASSUME NEW S, NEW R, StrictTotal(S, R), NEW place, place = Rank(S, R)
  PROVE  /\ Cardinality(S) \in Nat /\ place \in [S -> 1..Cardinality(S)]
         /\ \A p, q \in S : <<p, q>> \in R <=> place[p] < place[q]
         /\ \A p, q \in S : place[p] = place[q] => p = q
         /\ \A n \in 1..Cardinality(S) : \E p \in S : place[p] = n
<1> DEFINE N == Cardinality(S)
           below(p) == {q \in S : <<q, p>> \in R}
<1>0. /\ IsFiniteSet(S)
      /\ \A p \in S : <<p, p>> \notin R
      /\ \A p, q, r \in S : <<p, q>> \in R /\ <<q, r>> \in R => <<p, r>> \in R
      /\ \A p, q \in S : p # q => <<p, q>> \in R \/ <<q, p>> \in R
  BY DEF StrictTotal
<1>1. N \in Nat
  BY <1>0, FS_CardinalityType
<1>2. ASSUME NEW p \in S
      PROVE  IsFiniteSet(below(p)) /\ Cardinality(below(p)) \in 0..(N - 1)
  <2>1. below(p) \in SUBSET S /\ p \in S \ below(p)
    BY <1>0
  <2>2. IsFiniteSet(below(p)) /\ Cardinality(below(p)) <= N /\ (N = Cardinality(below(p)) => below(p) = S)
    <3> HIDE DEF below
    <3> QED
      BY <1>0, <2>1, FS_Subset
  <2>3. Cardinality(below(p)) \in Nat
    <3> HIDE DEF below
    <3> QED
      BY <2>2, FS_CardinalityType
  <2> HIDE DEF below, N
  <2> QED
    BY <1>1, <2>1, <2>2, <2>3
<1>3. ASSUME NEW p \in S, NEW q \in S, <<p, q>> \in R
      PROVE  Cardinality(below(p)) < Cardinality(below(q))
  <2>1. below(p) \in SUBSET below(q) /\ p \in below(q) /\ p \notin below(p)
    BY <1>0, <1>3
  <2> HIDE DEF below
  <2>2. IsFiniteSet(below(q)) /\ Cardinality(below(p)) \in Nat /\ Cardinality(below(q)) \in Nat
    <3> HIDE DEF N
    <3> QED
      BY <1>1, <1>2
  <2>3. Cardinality(below(p)) <= Cardinality(below(q)) /\ Cardinality(below(p)) # Cardinality(below(q))
    BY <2>1, <2>2, FS_Subset
  <2> QED
    BY <2>2, <2>3
<1>4. DOMAIN place = S /\ place = [p \in S |-> place[p]] /\ \A p \in S : place[p] = Cardinality(below(p)) + 1
  BY DEF Rank
<1> HIDE DEF below
<1>5. place \in [S -> 1..N]
  <2>1. \A p \in S : place[p] \in 1..N
    <3> HIDE DEF N
    <3> QED
      BY <1>1, <1>2, <1>4
  <2> HIDE DEF N
  <2> QED
    BY <1>4, <2>1
<1> HIDE DEF N
<1>6. \A p, q \in S : <<p, q>> \in R => place[p] < place[q]
  BY <1>1, <1>2, <1>3, <1>4
<1>7. \A p, q \in S : place[p] = place[q] => p = q
  <2> SUFFICES ASSUME NEW p \in S, NEW q \in S, place[p] = place[q], p # q PROVE FALSE
      OBVIOUS
  <2>1. place[p] < place[q] \/ place[q] < place[p]
    BY <1>0, <1>6
  <2> QED
    BY <1>1, <1>5, <2>1
<1>8. \A p, q \in S : place[p] < place[q] => <<p, q>> \in R
  <2> SUFFICES ASSUME NEW p \in S, NEW q \in S, place[p] < place[q], <<p, q>> \notin R PROVE FALSE
      OBVIOUS
  <2>1. place[p] \in Int /\ place[q] \in Int
    BY <1>1, <1>5
  <2>2. p # q
    BY <2>1
  <2>3. place[q] < place[p]
    BY <1>0, <1>6, <2>2
  <2> QED
    BY <2>1, <2>3
<1>9. \A n \in 1..N : \E p \in S : place[p] = n
  <2>1. place \in Injection(S, 1..N)
    BY <1>5, <1>7 DEF Injection, IsInjective
  <2>2. IsFiniteSet(1..N) /\ Cardinality(1..N) = N
    BY <1>1, FS_Interval
  <2>3. place \in Surjection(S, 1..N)
    <3>1. N = Cardinality(S)
      BY DEF N
    <3> QED
      BY <1>0, <2>1, <2>2, <3>1, FS_Injection
  <2> QED
    BY <2>3 DEF Surjection
<1> QED
  BY <1>1, <1>5, <1>6, <1>7, <1>8, <1>9 DEF N

\* Tracers whose events have times.
TracersOK(ts) ==
  /\ ts \in Seq(Range(ts))
  /\ \A k \in DOMAIN ts : /\ ts[k].events \in Seq(Range(ts[k].events))
                          /\ \A j \in DOMAIN ts[k].events : ts[k].events[j].at \in Nat

\* There are finitely many slots, each a tracer and a place in its events.
LEMMA SlotsFinite ==
  ASSUME NEW ts, TracersOK(ts)
  PROVE  /\ IsFiniteSet(Slots(ts)) /\ Cardinality(Slots(ts)) \in Nat
         /\ \A p \in Slots(ts) : p = <<p[1], p[2]>> /\ p[1] \in DOMAIN ts /\ p[2] \in DOMAIN ts[p[1]].events
                                 /\ p[1] \in Nat /\ p[2] \in Nat /\ At(ts, p).at \in Nat
         /\ \A k \in DOMAIN ts : \A j \in DOMAIN ts[k].events : <<k, j>> \in Slots(ts)
<1> DEFINE f == [k \in DOMAIN ts |-> {k} \X DOMAIN ts[k].events]
<1>1. DOMAIN ts = 1..Len(ts) /\ Len(ts) \in Nat
  BY DEF TracersOK
<1>2. IsFiniteSet(DOMAIN ts)
  BY <1>1, FS_Interval
<1>3. ASSUME NEW k \in DOMAIN ts PROVE IsFiniteSet(f[k]) /\ DOMAIN ts[k].events \in SUBSET Nat
  <2>1. DOMAIN ts[k].events = 1..Len(ts[k].events) /\ Len(ts[k].events) \in Nat
    BY DEF TracersOK
  <2>2. IsFiniteSet(DOMAIN ts[k].events)
    BY <2>1, FS_Interval
  <2>3. IsFiniteSet({k})
    BY FS_Singleton
  <2>4. IsFiniteSet({k} \X DOMAIN ts[k].events)
    BY <2>2, <2>3, FS_Product
  <2>5. f[k] = {k} \X DOMAIN ts[k].events
    OBVIOUS
  <2>6. DOMAIN ts[k].events \in SUBSET Nat
    BY <2>1
  <2> HIDE DEF f
  <2> QED
    BY <2>4, <2>5, <2>6
<1>4. Slots(ts) = UNION {f[k] : k \in DOMAIN f} /\ DOMAIN f = DOMAIN ts
  BY DEF Slots
<1>5. IsFiniteSet(UNION {f[k] : k \in DOMAIN f})
  <2> DEFINE K == {f[k] : k \in DOMAIN f}
  <2>1. \A T \in K : IsFiniteSet(T)
    BY <1>3
  <2>2. IsFiniteSet(DOMAIN f)
    BY <1>2
  <2> HIDE DEF f
  <2>3. IsFiniteSet(K)
    BY <2>2, ImageFinite
  <2> HIDE DEF K
  <2>4. IsFiniteSet(UNION K)
    BY <2>1, <2>3, FS_UNION
  <2> QED
    BY <2>4 DEF K
<1>6. IsFiniteSet(Slots(ts)) /\ Cardinality(Slots(ts)) \in Nat
  BY <1>4, <1>5, FS_CardinalityType
<1>7. ASSUME NEW p \in Slots(ts)
      PROVE  /\ p = <<p[1], p[2]>> /\ p[1] \in DOMAIN ts /\ p[2] \in DOMAIN ts[p[1]].events
             /\ p[1] \in Nat /\ p[2] \in Nat /\ At(ts, p).at \in Nat
  <2>1. PICK k \in DOMAIN ts : p \in {k} \X DOMAIN ts[k].events
    BY DEF Slots
  <2>2. p = <<p[1], p[2]>> /\ p[1] = k /\ p[2] \in DOMAIN ts[k].events
    BY <2>1
  <2>3. At(ts, p).at \in Nat
    BY <2>2 DEF At, TracersOK
  <2>4. DOMAIN ts[k].events = 1..Len(ts[k].events) /\ DOMAIN ts = 1..Len(ts)
    BY <1>1 DEF TracersOK
  <2>5. p[1] \in Nat /\ p[2] \in Nat
    BY <2>2, <2>4
  <2> QED
    BY <2>2, <2>3, <2>5
<1>8. \A k \in DOMAIN ts : \A j \in DOMAIN ts[k].events : <<k, j>> \in Slots(ts)
  BY DEF Slots
<1> QED
  BY <1>6, <1>7, <1>8

\* The places of the slots, and that the timeline has each event at its slot's place.
Placing(ts, place) ==
  /\ Cardinality(Slots(ts)) \in Nat /\ place \in [Slots(ts) -> 1..Cardinality(Slots(ts))]
  /\ \A p, q \in Slots(ts) : Earlier(ts, p, q) <=> place[p] < place[q]
  /\ \A p, q \in Slots(ts) : place[p] = place[q] => p = q
  /\ \A n \in 1..Cardinality(Slots(ts)) : \E p \in Slots(ts) : place[p] = n
  /\ DOMAIN Timeline(ts) = 1..Cardinality(Slots(ts)) /\ Timeline(ts) \in Seq(Range(Timeline(ts)))
  /\ \A p \in Slots(ts) : Timeline(ts)[place[p]] = At(ts, p)

\* Every event has its place in the timeline, and the places are in order.
LEMMA TimelineIs ==
  ASSUME NEW ts, TracersOK(ts)
  PROVE  \E place : Placing(ts, place)
<1> DEFINE S == Slots(ts)
           N == Cardinality(S)
           R == {pq \in S \X S : Earlier(ts, pq[1], pq[2])}
           place == [p \in S |-> Cardinality({q \in S : <<q, p>> \in R}) + 1]
<1>1. /\ IsFiniteSet(S) /\ N \in Nat
      /\ \A p \in S : p = <<p[1], p[2]>> /\ p[1] \in Nat /\ p[2] \in Nat /\ At(ts, p).at \in Nat
  BY SlotsFinite
<1>2. \A p, q \in S : <<p, q>> \in R <=> Earlier(ts, p, q)
  OBVIOUS
<1>3. \A p, q \in S : Earlier(ts, p, q) <=> \/ At(ts, p).at < At(ts, q).at
                                            \/ /\ At(ts, p).at = At(ts, q).at
                                               /\ p[1] < q[1] \/ (p[1] = q[1] /\ p[2] < q[2])
  BY DEF Earlier, Sooner
<1> HIDE DEF S, R
<1>4. \A p \in S : <<p, p>> \notin R
  BY <1>1, <1>2, <1>3
<1>5. \A p, q, r \in S : <<p, q>> \in R /\ <<q, r>> \in R => <<p, r>> \in R
  BY <1>1, <1>2, <1>3
<1>6. \A p, q \in S : p # q => <<p, q>> \in R \/ <<q, p>> \in R
  <2> SUFFICES ASSUME NEW p \in S, NEW q \in S, p # q PROVE Earlier(ts, p, q) \/ Earlier(ts, q, p)
      BY <1>2
  <2>1. p[1] # q[1] \/ p[2] # q[2]
    BY <1>1
  <2> QED
    BY <1>1, <1>3, <2>1
<1>7. /\ place \in [S -> 1..N]
      /\ \A p, q \in S : <<p, q>> \in R <=> place[p] < place[q]
      /\ \A p, q \in S : place[p] = place[q] => p = q
      /\ \A n \in 1..N : \E p \in S : place[p] = n
  <2> HIDE DEF place
  <2>1. place = Rank(S, R)
    BY DEF place, Rank
  <2>2. StrictTotal(S, R)
    BY <1>1, <1>4, <1>5, <1>6 DEF StrictTotal
  <2> QED
    BY <2>1, <2>2, Ranks
<1>8. Timeline(ts) = [n \in 1..N |-> At(ts, CHOOSE p \in S : place[p] = n)]
  <2>1. \A p \in S : Cardinality({q \in S : Earlier(ts, q, p)}) + 1 = place[p]
    <3> SUFFICES ASSUME NEW p \in S PROVE Cardinality({q \in S : Earlier(ts, q, p)}) + 1 = place[p]
        OBVIOUS
    <3>1. {q \in S : Earlier(ts, q, p)} = {q \in S : <<q, p>> \in R}
      BY <1>2
    <3> QED
      BY <3>1
  <2>2. Timeline(ts) = [n \in 1..N |-> At(ts, CHOOSE p \in S : Cardinality({q \in S : Earlier(ts, q, p)}) + 1 = n)]
    BY DEF Timeline, S
  <2>3. ASSUME NEW n \in 1..N
        PROVE  (CHOOSE p \in S : Cardinality({q \in S : Earlier(ts, q, p)}) + 1 = n) = CHOOSE p \in S : place[p] = n
    <3> HIDE DEF place
    <3> QED
      BY <2>1
  <2> HIDE DEF place
  <2> QED
    BY <2>2, <2>3
<1> HIDE DEF place
<1>9. \A p \in S : Timeline(ts)[place[p]] = At(ts, p)
  <2> SUFFICES ASSUME NEW p \in S PROVE Timeline(ts)[place[p]] = At(ts, p)
      OBVIOUS
  <2>1. place[p] \in 1..N
    BY <1>7
  <2>2. (CHOOSE q \in S : place[q] = place[p]) = p
    BY <1>7
  <2> HIDE DEF N
  <2> QED
    BY <1>8, <2>1, <2>2
<1>10. DOMAIN Timeline(ts) = 1..N /\ Timeline(ts) \in Seq(Range(Timeline(ts)))
  <2> HIDE DEF N
  <2>1. DOMAIN Timeline(ts) = 1..N
    BY <1>8
  <2>2. Timeline(ts) \in [1..N -> Range(Timeline(ts))]
    BY <1>8, <2>1 DEF Range
  <2> QED
    BY <1>1, <2>1, <2>2
<1>11. Placing(ts, place)
  BY <1>1, <1>2, <1>7, <1>9, <1>10 DEF Placing, S
<1> QED
  BY <1>11

-----------------------------------------------------------------------------
(* The indicators of a step *)

\* A step with a well-formed call.
StepOK(step) == CallOK(step.call) /\ step.muted \in BOOLEAN

\* What an event says are finitely many items.
LEMMA SaidIs ==
  ASSUME NEW e, EventOK(e)
  PROVE  Said(e) \subseteq Items /\ IsFiniteSet(Said(e))
<1>1. e.args \o e.note \in Seq(Items)
  BY DEF EventOK
<1>2. IsFiniteSet(Range(e.args \o e.note))
  BY <1>1, RangeFinite
<1>3. Range(e.args \o e.note) \subseteq Items
  <2> DEFINE s == e.args \o e.note
  <2>1. s \in Seq(Items)
    BY <1>1
  <2> HIDE DEF s
  <2>2. Range(s) \subseteq Items
    BY <2>1 DEF Range
  <2> QED
    BY <2>2 DEF s
<1> QED
  BY <1>2, <1>3 DEF Said

\* A scan of finitely many items finds finitely many pairs.
LEMMA ScanIs ==
  ASSUME NEW items \in SUBSET Items, IsFiniteSet(items)
  PROVE  Scan(items) \subseteq Pairs /\ IsFiniteSet(Scan(items))
<1> DEFINE f == [i \in items |-> Text[i].finds]
           K == {f[i] : i \in DOMAIN f}
<1>1. Scan(items) = UNION K
  BY DEF Scan
<1>2. \A i \in items : IsFiniteSet(f[i]) /\ f[i] \subseteq Pairs
  <2>1. Found \subseteq Fields
    BY DEF Fields
  <2>2. \A i \in Items : IsFiniteSet(Text[i].finds) /\ Text[i].finds \subseteq Found \X Items
    BY TextAssumption
  <2> QED
    BY <2>1, <2>2 DEF Pairs
<1>3. DOMAIN f = items
  OBVIOUS
<1> HIDE DEF f
<1>4. IsFiniteSet(K)
  BY <1>3, ImageFinite
<1>5. \A T \in K : IsFiniteSet(T) /\ T \subseteq Pairs
  BY <1>2, <1>3
<1> HIDE DEF K
<1>6. IsFiniteSet(UNION K)
  BY <1>4, <1>5, FS_UNION
<1> QED
  BY <1>1, <1>5, <1>6

\* So a step adds finitely many, heard and bared.
LEMMA HeardIs ==
  ASSUME NEW step, StepOK(step)
  PROVE  /\ Heard(step) \subseteq Pairs /\ IsFiniteSet(Heard(step))
         /\ Bared(step) \subseteq Pairs /\ IsFiniteSet(Bared(step))
<1> DEFINE es == step.call.events
           d == step.call.decoded
<1>1. /\ es \in Seq(Range(es)) /\ \A e \in Range(es) : EventOK(e)
      /\ IsFiniteSet(step.call.adds) /\ step.call.adds \subseteq Pairs
      /\ IsFiniteSet(d) /\ d \subseteq Items
  BY DEF StepOK, CallOK, EventsOK
<1>2. Heard(step) \subseteq Pairs /\ IsFiniteSet(Heard(step))
  <2> DEFINE f == [e \in Range(es) |-> Said(e)]
             K == {f[e] : e \in DOMAIN f}
  <2>1. UNION {Said(e) : e \in Range(es)} = UNION K /\ DOMAIN f = Range(es)
    OBVIOUS
  <2>2. \A e \in Range(es) : f[e] \subseteq Items /\ IsFiniteSet(f[e])
    BY <1>1, SaidIs
  <2>3. IsFiniteSet(Range(es))
    BY <1>1, RangeFinite
  <2> HIDE DEF f
  <2>4. IsFiniteSet(K)
    BY <2>1, <2>3, ImageFinite
  <2>5. \A T \in K : IsFiniteSet(T) /\ T \subseteq Items
    BY <2>1, <2>2
  <2> HIDE DEF K
  <2>6. UNION K \in SUBSET Items /\ IsFiniteSet(UNION K)
    BY <2>4, <2>5, FS_UNION
  <2>7. Heard(step) = Scan(UNION K) \cup step.call.adds
    BY <2>1 DEF Heard
  <2>8. Scan(UNION K) \subseteq Pairs /\ IsFiniteSet(Scan(UNION K))
    BY <2>6, ScanIs
  <2> QED
    BY <1>1, <2>7, <2>8, FS_Union
<1>3. Bared(step) \subseteq Pairs /\ IsFiniteSet(Bared(step))
  <2> DEFINE f == [i \in d |-> <<"Decoded", i>>]
             K == {f[i] : i \in DOMAIN f}
  <2>1. Bared(step) = K \cup Scan(d)
    BY DEF Bared
  <2>2. K \subseteq Pairs
    <3>1. \A i \in d : <<"Decoded", i>> \in Fields \X Items
      BY <1>1, FieldsAre
    <3> QED
      BY <3>1 DEF Pairs
  <2>3. DOMAIN f = d
    OBVIOUS
  <2> HIDE DEF f
  <2>4. IsFiniteSet(K)
    BY <1>1, <2>3, ImageFinite
  <2> HIDE DEF K
  <2>5. Scan(d) \subseteq Pairs /\ IsFiniteSet(Scan(d))
    BY <1>1, ScanIs
  <2> QED
    BY <2>1, <2>2, <2>4, <2>5, FS_Union
<1> QED
  BY <1>2, <1>3

-----------------------------------------------------------------------------
(* What a tracer holds of the steps it was told *)

\* A log of steps in the order of time.
LogOK(log) ==
  /\ log \in Seq(Range(log))
  /\ \A k \in DOMAIN log : StepOK(log[k].step) /\ log[k].at \in Nat
  /\ \A j, k \in DOMAIN log : j <= k => log[j].at <= log[k].at

\* The part of a step's indicators that goes into a set.
Share(step, set) == (IF Sink(step) = set THEN Heard(step) ELSE {}) \cup (IF ScoredSink(step) = set THEN Bared(step) ELSE {})
Part(log, H, set) == UNION {Share(log[k].step, set) : k \in H}
Roomy(A) == IsFiniteSet(A) /\ A \subseteq Pairs /\ \A f \in Fields : Cardinality(In(A, {f})) <= MaxIOC
Covers(A, log, H) == \A k \in H : Heard(log[k].step) \cup Bared(log[k].step) \subseteq A
Shape(t) == t = [who |-> t.who, seq |-> t.seq, events |-> t.events, iocs |-> t.iocs, devIOCs |-> t.devIOCs,
                 mutedIOCs |-> t.mutedIOCs, watched |-> t.watched, tainted |-> t.tainted]
Below(iocs, n) == \A f \in Fields : Cardinality(In(iocs, {f})) <= n

\* A tracer holds what it was told by the steps H of the log: each set is part of their
\* share, all of it unless something did not fit, and what is watched is never lost.
Holds(t, log, H, n) ==
  /\ Shape(t)
  /\ \A s \in Sets : IsFiniteSet(t[s]) /\ t[s] \subseteq Part(log, H, s) /\ Below(t[s], n)
  /\ \A A : Roomy(A) /\ Covers(A, log, H) => \A s \in Sets : t[s] = Part(log, H, s)
  /\ t.watched = Seeds.watched \cup UNION {log[k].step.call.watched : k \in H}
  /\ t.tainted = Seeds.tainted \cup UNION {log[k].step.call.tainted : k \in H}

\* A fresh tracer holds what it is told by no step.
LEMMA FreshHolds ==
  ASSUME NEW who, NEW log, NEW n \in Nat
  PROVE  Holds(Fresh(who, Seeds), log, {}, n)
<1> DEFINE t == Fresh(who, Seeds)
<1>1. Shape(t) /\ t.watched = Seeds.watched /\ t.tainted = Seeds.tainted /\ \A s \in Sets : t[s] = {}
  BY DEF Fresh, Shape, Sets
<1>2. \A s : Part(log, {}, s) = {}
  BY DEF Part
<1>3. IsFiniteSet({}) /\ Below({}, n)
  <2>1. IsFiniteSet({}) /\ Cardinality({}) = 0
    BY FS_EmptySet
  <2>2. \A f : In({}, {f}) = {}
    BY DEF In
  <2>3. \A f : Cardinality(In({}, {f})) = 0
    BY <2>1, <2>2
  <2> QED
    BY <2>1, <2>3 DEF Below
<1> HIDE DEF t
<1>4. Holds(t, log, {}, n)
  BY <1>1, <1>2, <1>3 DEF Holds
<1> QED
  BY <1>4 DEF t

\* Where Take leaves everything.
LEMMA TakeIs ==
  ASSUME NEW t, Shape(t), NEW step, NEW at, NEW u, u = Take(t, step, at)
  PROVE  /\ Shape(u) /\ u.who = t.who
         /\ u.seq = t.seq + Len(step.call.events) /\ u.events = t.events \o Stamped(t, step, at)
         /\ u.watched = t.watched \cup step.call.watched /\ u.tainted = t.tainted \cup step.call.tainted
         /\ \A s \in Sets : u[s] = Filed(t, step, s)
<1>1. u = [who |-> t.who, seq |-> t.seq + Len(step.call.events), events |-> t.events \o Stamped(t, step, at),
           iocs |-> Filed(t, step, "iocs"), devIOCs |-> Filed(t, step, "devIOCs"),
           mutedIOCs |-> Filed(t, step, "mutedIOCs"),
           watched |-> t.watched \cup step.call.watched, tainted |-> t.tainted \cup step.call.tainted]
  BY DEF Take, Shape
<1> QED
  BY <1>1 DEF Shape, Sets

\* What one step files in one set.
LEMMA FiledIs ==
  ASSUME NEW t, NEW step, StepOK(step), NEW s, IsFiniteSet(t[s])
  PROVE  LET u == Filed(t, step, s)
         IN  /\ IsFiniteSet(u) /\ t[s] \subseteq u /\ u \subseteq t[s] \cup Share(step, s)
             /\ \A n \in Nat : MaxIOC <= n /\ Below(t[s], n) => Below(u, n)
             /\ \A A : Roomy(A) /\ t[s] \cup Heard(step) \cup Bared(step) \subseteq A => u = t[s] \cup Share(step, s)
<1> DEFINE h == Heard(step)
           b == Bared(step)
           mid == IF Sink(step) = s THEN AddAll(t[s], h) ELSE t[s]
           u == Filed(t, step, s)
<1>1. IsFiniteSet(h) /\ IsFiniteSet(b)
  BY HeardIs
<1>2. u = IF ScoredSink(step) = s THEN AddAll(mid, b) ELSE mid
  BY DEF Filed
<1>3. Share(step, s) = (IF Sink(step) = s THEN h ELSE {}) \cup (IF ScoredSink(step) = s THEN b ELSE {})
  BY DEF Share
<1> HIDE DEF h, b
<1>4. t[s] \subseteq AddAll(t[s], h) /\ AddAll(t[s], h) \subseteq t[s] \cup h /\ IsFiniteSet(AddAll(t[s], h))
  <2>1. t[s] \subseteq AddAll(t[s], h) /\ AddAll(t[s], h) \subseteq t[s] \cup h
    BY <1>1, AddingGrows
  <2>2. IsFiniteSet(t[s] \cup h)
    BY <1>1, FS_Union
  <2> QED
    BY <2>1, <2>2, FS_Subset
<1>5. t[s] \subseteq mid /\ mid \subseteq t[s] \cup (IF Sink(step) = s THEN h ELSE {}) /\ IsFiniteSet(mid)
  BY <1>4
<1>6. \A n \in Nat : MaxIOC <= n /\ Below(t[s], n) => Below(mid, n)
  BY <1>1, AddingStaysBelow DEF Below
<1>7. \A A : Roomy(A) /\ t[s] \cup h \cup b \subseteq A => mid = t[s] \cup (IF Sink(step) = s THEN h ELSE {})
  <2> SUFFICES ASSUME NEW A, Roomy(A), t[s] \cup h \cup b \subseteq A PROVE AddAll(t[s], h) = t[s] \cup h
      OBVIOUS
  <2> QED
    BY <1>1, AddingFits DEF Roomy, Pairs
<1> HIDE DEF mid
<1>8. mid \subseteq AddAll(mid, b) /\ AddAll(mid, b) \subseteq mid \cup b /\ IsFiniteSet(AddAll(mid, b))
  <2>1. mid \subseteq AddAll(mid, b) /\ AddAll(mid, b) \subseteq mid \cup b
    BY <1>1, AddingGrows
  <2>2. IsFiniteSet(mid \cup b)
    BY <1>1, <1>5, FS_Union
  <2> QED
    BY <2>1, <2>2, FS_Subset
<1>9. \A n \in Nat : MaxIOC <= n /\ Below(t[s], n) => Below(u, n)
  <2> SUFFICES ASSUME NEW n \in Nat, MaxIOC <= n, Below(mid, n) PROVE Below(AddAll(mid, b), n)
      BY <1>2, <1>6
  <2> QED
    BY <1>1, <1>5, AddingStaysBelow DEF Below
<1>10. \A A : Roomy(A) /\ t[s] \cup h \cup b \subseteq A => u = t[s] \cup Share(step, s)
  <2> SUFFICES ASSUME NEW A, Roomy(A), t[s] \cup h \cup b \subseteq A PROVE u = t[s] \cup Share(step, s)
      OBVIOUS
  <2>1. mid = t[s] \cup (IF Sink(step) = s THEN h ELSE {})
    BY <1>7
  <2>2. AddAll(mid, b) = mid \cup b
    BY <1>1, <2>1, AddingFits DEF Roomy, Pairs
  <2> QED
    BY <1>2, <1>3, <2>1, <2>2
<1>11. IsFiniteSet(u) /\ t[s] \subseteq u /\ u \subseteq t[s] \cup Share(step, s)
  BY <1>2, <1>3, <1>5, <1>8
<1> HIDE DEF u
<1>12. \A A : Roomy(A) /\ t[s] \cup Heard(step) \cup Bared(step) \subseteq A => u = t[s] \cup Share(step, s)
  BY <1>10 DEF h, b
<1> QED
  BY <1>9, <1>11, <1>12 DEF u

\* Part by part.
LEMMA PartGrows ==
  ASSUME NEW log, NEW H, NEW k, NEW s
  PROVE  Part(log, H \cup {k}, s) = Part(log, H, s) \cup Share(log[k].step, s)
BY DEF Part

\* What covers all that the steps add covers each set.
LEMMA PartIsCovered ==
  ASSUME NEW log, NEW H, NEW A, Covers(A, log, H), NEW s
  PROVE  Part(log, H, s) \subseteq A
BY DEF Part, Share, Covers

\* Take adds the part of its step, and no set loses anything.
LEMMA TakeHolds ==
  ASSUME NEW t, NEW log, NEW H, NEW n \in Nat, Holds(t, log, H, n), MaxIOC <= n,
         NEW k, StepOK(log[k].step), NEW u, u = Take(t, log[k].step, log[k].at)
  PROVE  Holds(u, log, H \cup {k}, n) /\ \A s \in Sets : t[s] \subseteq u[s]
<1> DEFINE step == log[k].step
           K == H \cup {k}
<1>1. /\ Shape(u)
      /\ u.watched = t.watched \cup step.call.watched /\ u.tainted = t.tainted \cup step.call.tainted
      /\ \A s \in Sets : u[s] = Filed(t, step, s)
  BY TakeIs DEF Holds
<1>2. ASSUME NEW s \in Sets
      PROVE  /\ IsFiniteSet(u[s]) /\ t[s] \subseteq u[s] /\ u[s] \subseteq Part(log, K, s) /\ Below(u[s], n)
             /\ \A A : Roomy(A) /\ Covers(A, log, K) => u[s] = Part(log, K, s)
  <2>1. /\ IsFiniteSet(t[s]) /\ t[s] \subseteq Part(log, H, s) /\ Below(t[s], n)
        /\ \A A : Roomy(A) /\ Covers(A, log, H) => t[s] = Part(log, H, s)
    BY DEF Holds
  <2>2. Part(log, K, s) = Part(log, H, s) \cup Share(step, s)
    BY PartGrows
  <2> DEFINE v == Filed(t, step, s)
  <2>3. /\ IsFiniteSet(v) /\ t[s] \subseteq v /\ v \subseteq t[s] \cup Share(step, s)
        /\ MaxIOC <= n /\ Below(t[s], n) => Below(v, n)
        /\ \A A : Roomy(A) /\ t[s] \cup Heard(step) \cup Bared(step) \subseteq A => v = t[s] \cup Share(step, s)
    BY <2>1, FiledIs
  <2>4. u[s] = v
    BY <1>1
  <2> HIDE DEF v
  <2>5. ASSUME NEW A, Roomy(A), Covers(A, log, K) PROVE v = Part(log, K, s)
    <3>1. Covers(A, log, H) /\ Heard(step) \cup Bared(step) \subseteq A
      BY <2>5 DEF Covers
    <3>2. t[s] = Part(log, H, s) /\ Part(log, H, s) \subseteq A
      BY <2>1, <2>5, <3>1, PartIsCovered
    <3> QED
      BY <2>2, <2>3, <2>5, <3>1, <3>2
  <2> QED
    BY <2>1, <2>2, <2>3, <2>4, <2>5
<1>3. /\ u.watched = Seeds.watched \cup UNION {log[j].step.call.watched : j \in K}
      /\ u.tainted = Seeds.tainted \cup UNION {log[j].step.call.tainted : j \in K}
  BY <1>1 DEF Holds
<1> HIDE DEF step, K
<1>4. Holds(u, log, K, n)
  BY <1>1, <1>2, <1>3 DEF Holds
<1> QED
  BY <1>2, <1>4 DEF K

\* What was told later changes nothing.
LEMMA HoldsOn ==
  ASSUME NEW t, NEW log, NEW H, NEW n, Holds(t, log, H, n), NEW m, \A k \in H : m[k] = log[k]
  PROVE  Holds(t, m, H, n)
<1>1. \A s : Part(m, H, s) = Part(log, H, s)
  BY DEF Part
<1>2. \A A : Covers(A, m, H) <=> Covers(A, log, H)
  BY DEF Covers
<1>3. /\ UNION {m[k].step.call.watched : k \in H} = UNION {log[k].step.call.watched : k \in H}
      /\ UNION {m[k].step.call.tainted : k \in H} = UNION {log[k].step.call.tainted : k \in H}
  OBVIOUS
<1> QED
  BY <1>1, <1>2, <1>3 DEF Holds

-----------------------------------------------------------------------------
(* The merged sets *)

\* A record of tracers, and which steps each was told.
HoldAll(ts, log, Hs) == \A k \in DOMAIN ts : Holds(ts[k], log, Hs[k], MaxIOC)
All(ts, Hs) == UNION {Hs[k] : k \in DOMAIN ts}

\* What Absorb leaves in each field of the tracer.
LEMMA AbsorbIs ==
  ASSUME NEW t, Shape(t), NEW workers, NEW u, u = Absorb(t, workers)
  PROVE  /\ Shape(u) /\ u.who = t.who
         /\ u.events = Numbered(Timeline(<<t>> \o workers)) /\ u.seq = Len(u.events)
         /\ \A s \in Sets \cup {"watched", "tainted"} : u[s] = United(t, workers, s)
<1> DEFINE all == Numbered(Timeline(<<t>> \o workers))
<1>1. u = [who |-> t.who, seq |-> Len(all), events |-> all, iocs |-> United(t, workers, "iocs"),
           devIOCs |-> United(t, workers, "devIOCs"), mutedIOCs |-> United(t, workers, "mutedIOCs"),
           watched |-> United(t, workers, "watched"), tainted |-> United(t, workers, "tainted")]
  BY DEF Absorb, Shape
<1> HIDE DEF all
<1>2. /\ Shape(u) /\ u.who = t.who /\ u.events = all /\ u.seq = Len(u.events)
      /\ \A s \in Sets \cup {"watched", "tainted"} : u[s] = United(t, workers, s)
  BY <1>1 DEF Shape, Sets
<1> QED
  BY <1>2 DEF all

\* A united set holds the sets of all tracers and nothing else.
LEMMA UnitedIs ==
  ASSUME NEW t, NEW workers, NEW s
  PROVE  /\ t[s] \subseteq United(t, workers, s)
         /\ \A k \in DOMAIN workers : workers[k][s] \subseteq United(t, workers, s)
         /\ \A x \in United(t, workers, s) : x \in t[s] \/ \E k \in DOMAIN workers : x \in workers[k][s]
BY DEF United, Range

\* Uniting n sets below the cap stays below n times the cap.
LEMMA UnionBelow ==
  ASSUME NEW n \in Nat, NEW F, \A k \in 0..n : IsFiniteSet(F[k]) /\ Below(F[k], MaxIOC),
         NEW V, V = UNION {F[k] : k \in 0..n}
  PROVE  IsFiniteSet(V) /\ Below(V, MaxIOC * (1 + n))
<1> DEFINE U(i) == UNION {F[k] : k \in 0..i}
           Q == {i \in 0..n : IsFiniteSet(U(i)) /\ Below(U(i), MaxIOC * (1 + i))}
<1>1. 0 \in Q
  <2>1. U(0) = F[0]
    OBVIOUS
  <2>2. MaxIOC * (1 + 0) = MaxIOC
    BY CapAssumption
  <2> QED
    BY <2>1, <2>2
<1>2. ASSUME NEW i \in 0..(n - 1), i \in Q PROVE i + 1 \in Q
  <2> DEFINE B == F[i + 1]
             X == U(i)
  <2>1. U(i + 1) = X \cup B
    OBVIOUS
  <2>2. IsFiniteSet(X) /\ Below(X, MaxIOC * (1 + i)) /\ IsFiniteSet(B) /\ Below(B, MaxIOC) /\ i + 1 \in 0..n
    BY <1>2
  <2> HIDE DEF X, B, U
  <2>3. IsFiniteSet(X \cup B)
    BY <2>2, FS_Union
  <2>4. ASSUME NEW f \in Fields PROVE Cardinality(In(X \cup B, {f})) <= MaxIOC * (1 + (i + 1))
    <3>1. In(X \cup B, {f}) = In(X, {f}) \cup In(B, {f})
      BY DEF In
    <3>2. /\ IsFiniteSet(In(X, {f})) /\ Cardinality(In(X, {f})) \in Nat
          /\ IsFiniteSet(In(B, {f})) /\ Cardinality(In(B, {f})) \in Nat
      BY <2>2, OfKind
    <3>3. Cardinality(In(X, {f})) <= MaxIOC * (1 + i) /\ Cardinality(In(B, {f})) <= MaxIOC
      BY <2>2 DEF Below
    <3> DEFINE C == In(X, {f})
               D == In(B, {f})
    <3>4. /\ Cardinality(C \cup D) = Cardinality(C) + Cardinality(D) - Cardinality(C \cap D)
          /\ Cardinality(C \cap D) \in Nat
      <4> HIDE DEF C, D
      <4>1. IsFiniteSet(C) /\ IsFiniteSet(D)
        BY <3>2 DEF C, D
      <4>2. IsFiniteSet(C \cap D)
        BY <4>1, FS_Intersection
      <4> QED
        BY <4>1, <4>2, FS_Union, FS_CardinalityType
    <3>5. MaxIOC * (1 + (i + 1)) = MaxIOC * (1 + i) + MaxIOC /\ MaxIOC * (1 + i) \in Nat
      BY CapAssumption
    <3> HIDE DEF C, D
    <3>6. Cardinality(C \cup D) <= MaxIOC * (1 + i) + MaxIOC
      <4>1. /\ Cardinality(C) \in Nat /\ Cardinality(D) \in Nat /\ Cardinality(C) <= MaxIOC * (1 + i)
            /\ Cardinality(D) <= MaxIOC
        BY <3>2, <3>3 DEF C, D
      <4> HIDE <3>5
      <4>2. MaxIOC * (1 + i) \in Nat /\ MaxIOC \in Nat
        BY <3>5, CapAssumption
      <4> DEFINE z == MaxIOC * (1 + i)
      <4> HIDE DEF z
      <4>3. z \in Nat /\ Cardinality(C) <= z
        BY <4>1, <4>2 DEF z
      <4>4. Cardinality(C \cup D) <= z + MaxIOC
        BY <3>4, <4>1, <4>2, <4>3
      <4> QED
        BY <4>4 DEF z
    <3> QED
      BY <3>1, <3>5, <3>6 DEF C, D
  <2>5. Below(X \cup B, MaxIOC * (1 + (i + 1)))
    BY <2>4 DEF Below
  <2> QED
    BY <2>1, <2>2, <2>3, <2>5
<1>3. 0..n \subseteq Q
  <2> HIDE DEF Q
  <2> QED
    BY <1>1, <1>2, UpTo
<1> QED
  BY <1>3

\* The caps of the merged sets.
LEMMA CapIsBelow ==
  ASSUME NEW n \in Nat
  PROVE  MaxIOC * (1 + n) \in Nat /\ MaxIOC <= MaxIOC * (1 + n)
BY CapAssumption, SMTT(30)

\* The merged tracer holds what all of them were told, with as many caps as tracers.
LEMMA AbsorbHolds ==
  ASSUME NEW t, NEW workers, workers \in Seq(Range(workers)), NEW log, NEW H, Holds(t, log, H, MaxIOC),
         NEW Hs, HoldAll(workers, log, Hs), NEW u, u = Absorb(t, workers)
  PROVE  /\ Holds(u, log, H \cup All(workers, Hs), MaxIOC * (1 + Len(workers)))
         /\ \A s \in Sets : t[s] \subseteq u[s]
<1> DEFINE n == Len(workers)
           K == H \cup All(workers, Hs)
<1>1. n \in Nat /\ DOMAIN workers = 1..n
  OBVIOUS
<1>2. /\ Shape(u)
      /\ \A s \in Sets \cup {"watched", "tainted"} : u[s] = United(t, workers, s)
  <2>1. Shape(t)
    BY DEF Holds
  <2> QED
    BY <2>1, AbsorbIs
<1>3. \A s : /\ \A x \in Part(log, H, s) : x \in Part(log, K, s)
             /\ \A k \in DOMAIN workers : \A x \in Part(log, Hs[k], s) : x \in Part(log, K, s)
             /\ \A x \in Part(log, K, s) : x \in Part(log, H, s) \/ \E k \in DOMAIN workers : x \in Part(log, Hs[k], s)
  BY DEF Part, All
<1>4. ASSUME NEW s \in Sets
      PROVE  /\ IsFiniteSet(u[s]) /\ t[s] \subseteq u[s] /\ u[s] \subseteq Part(log, K, s)
             /\ Below(u[s], MaxIOC * (1 + n))
             /\ \A A : Roomy(A) /\ Covers(A, log, K) => u[s] = Part(log, K, s)
  <2>1. /\ IsFiniteSet(t[s]) /\ t[s] \subseteq Part(log, H, s) /\ Below(t[s], MaxIOC)
        /\ \A A : Roomy(A) /\ Covers(A, log, H) => t[s] = Part(log, H, s)
    BY DEF Holds
  <2>2. \A k \in DOMAIN workers :
          /\ IsFiniteSet(workers[k][s]) /\ workers[k][s] \subseteq Part(log, Hs[k], s) /\ Below(workers[k][s], MaxIOC)
          /\ \A A : Roomy(A) /\ Covers(A, log, Hs[k]) => workers[k][s] = Part(log, Hs[k], s)
    BY DEF HoldAll, Holds
  <2>3. u[s] = United(t, workers, s)
    BY <1>2
  <2>4. /\ t[s] \subseteq u[s]
        /\ \A k \in DOMAIN workers : workers[k][s] \subseteq u[s]
        /\ \A x \in u[s] : x \in t[s] \/ \E k \in DOMAIN workers : x \in workers[k][s]
    BY <2>3, UnitedIs
  <2>5. u[s] \subseteq Part(log, K, s)
    BY <1>3, <2>1, <2>2, <2>4
  <2>6. ASSUME NEW A, Roomy(A), Covers(A, log, K) PROVE u[s] = Part(log, K, s)
    <3>1. Covers(A, log, H) /\ \A k \in DOMAIN workers : Covers(A, log, Hs[k])
      BY <2>6 DEF Covers, All
    <3>2. t[s] = Part(log, H, s) /\ \A k \in DOMAIN workers : workers[k][s] = Part(log, Hs[k], s)
      BY <2>1, <2>2, <2>6, <3>1
    <3>3. \A x \in Part(log, K, s) : x \in u[s]
      <4> HIDE DEF K
      <4> QED
        BY <1>3, <2>4, <3>2
    <3> QED
      BY <2>5, <3>3
  <2>7. IsFiniteSet(u[s]) /\ Below(u[s], MaxIOC * (1 + n))
    <3> DEFINE F == [k \in 0..n |-> IF k = 0 THEN t[s] ELSE workers[k][s]]
    <3>1. \A k \in 0..n : IsFiniteSet(F[k]) /\ Below(F[k], MaxIOC)
      BY <1>1, <2>1, <2>2
    <3>2. u[s] = UNION {F[k] : k \in 0..n}
      <4>1. F[0] = t[s] /\ \A k \in 1..n : F[k] = workers[k][s]
        BY <1>1
      <4> HIDE DEF F
      <4>2. \A x \in u[s] : x \in UNION {F[k] : k \in 0..n}
        BY <1>1, <2>4, <4>1
      <4>3. \A x \in UNION {F[k] : k \in 0..n} : x \in u[s]
        BY <1>1, <2>4, <4>1
      <4> QED
        BY <4>2, <4>3
    <3> DEFINE V == u[s]
    <3>3. V = UNION {F[k] : k \in 0..n}
      BY <3>2
    <3> HIDE DEF F, n, V
    <3>4. IsFiniteSet(V) /\ Below(V, MaxIOC * (1 + n))
      BY <1>1, <3>1, <3>3, UnionBelow
    <3> QED
      BY <3>4 DEF V
  <2> QED
    BY <2>4, <2>5, <2>6, <2>7
<1>5. /\ u.watched = Seeds.watched \cup UNION {log[j].step.call.watched : j \in K}
      /\ u.tainted = Seeds.tainted \cup UNION {log[j].step.call.tainted : j \in K}
  <2>1. /\ t.watched = Seeds.watched \cup UNION {log[j].step.call.watched : j \in H}
        /\ t.tainted = Seeds.tainted \cup UNION {log[j].step.call.tainted : j \in H}
    BY DEF Holds
  <2>2. \A k \in DOMAIN workers :
           /\ workers[k].watched = Seeds.watched \cup UNION {log[j].step.call.watched : j \in Hs[k]}
           /\ workers[k].tainted = Seeds.tainted \cup UNION {log[j].step.call.tainted : j \in Hs[k]}
    BY DEF HoldAll, Holds
  <2>3. u.watched = United(t, workers, "watched") /\ u.tainted = United(t, workers, "tainted")
    BY <1>2
  <2>4. u.watched = Seeds.watched \cup UNION {log[j].step.call.watched : j \in K}
    <3>1. \A x : x \in u.watched <=> x \in t.watched \/ \E k \in DOMAIN workers : x \in workers[k].watched
      BY <2>3, UnitedIs
    <3>2. \A x : x \in UNION {log[j].step.call.watched : j \in K} <=>
                   \/ x \in UNION {log[j].step.call.watched : j \in H}
                   \/ \E k \in DOMAIN workers : x \in UNION {log[j].step.call.watched : j \in Hs[k]}
      BY DEF All
    <3> HIDE DEF K
    <3>3. \A x : x \in u.watched <=> x \in Seeds.watched \/ x \in UNION {log[j].step.call.watched : j \in K}
      <4>1. \A x : x \in t.watched <=> x \in Seeds.watched \/ x \in UNION {log[j].step.call.watched : j \in H}
        BY <2>1
      <4>2. \A k \in DOMAIN workers : \A x : x \in workers[k].watched <=> x \in Seeds.watched
                                                             \/ x \in UNION {log[j].step.call.watched : j \in Hs[k]}
        BY <2>2
      <4> QED
        BY <3>1, <3>2, <4>1, <4>2, Zenon
    <3> QED
      BY <3>3
  <2>5. u.tainted = Seeds.tainted \cup UNION {log[j].step.call.tainted : j \in K}
    <3>1. \A x : x \in u.tainted <=> x \in t.tainted \/ \E k \in DOMAIN workers : x \in workers[k].tainted
      BY <2>3, UnitedIs
    <3>2. \A x : x \in UNION {log[j].step.call.tainted : j \in K} <=>
                   \/ x \in UNION {log[j].step.call.tainted : j \in H}
                   \/ \E k \in DOMAIN workers : x \in UNION {log[j].step.call.tainted : j \in Hs[k]}
      BY DEF All
    <3> HIDE DEF K
    <3>3. \A x : x \in u.tainted <=> x \in Seeds.tainted \/ x \in UNION {log[j].step.call.tainted : j \in K}
      <4>1. \A x : x \in t.tainted <=> x \in Seeds.tainted \/ x \in UNION {log[j].step.call.tainted : j \in H}
        BY <2>1
      <4>2. \A k \in DOMAIN workers : \A x : x \in workers[k].tainted <=> x \in Seeds.tainted
                                                             \/ x \in UNION {log[j].step.call.tainted : j \in Hs[k]}
        BY <2>2
      <4> QED
        BY <3>1, <3>2, <4>1, <4>2, Zenon
    <3> QED
      BY <3>3
  <2> QED
    BY <2>4, <2>5
<1> HIDE DEF K, n
<1>6. Holds(u, log, K, MaxIOC * (1 + n))
  BY <1>2, <1>4, <1>5 DEF Holds
<1> QED
  BY <1>4, <1>6 DEF K, n

-----------------------------------------------------------------------------
(* What a tracer has recorded of the steps it was told *)

\* An event that was made is a step of the log and a place in its call; whoever made
\* the step is its author, or the main tracer when one tracer was told all.
StepOf(p) == p[1]
PlaceOf(p) == p[2]
Author(log, k, own) == IF own THEN log[k].who ELSE "main"
Made(log, H) == UNION {{k} \X DOMAIN log[k].step.call.events : k \in H}
Entry(step, at, j, n, who) ==
  LET e == step.call.events[j]
  IN  [seq |-> n, at |-> at, by |-> who, src |-> step.scope, muted |-> step.muted,
       cat |-> e.cat, op |-> e.op, args |-> e.args, note |-> e.note]
Stamp(log, p, n, who) == Entry(log[p[1]].step, log[p[1]].at, p[2], n, who)
\* Events in the order of time.
Sorted(t) ==
  /\ t.events \in Seq(Range(t.events)) /\ t.seq = Len(t.events)
  /\ \A m, n \in DOMAIN t.events : m <= n => t.events[m].at <= t.events[n].at
\* A tracer has recorded what the steps H made: one event for each, in the author's
\* order, stamped with the step's time, scope and mute.
Recording(t, log, H, own, b) ==
  /\ Sorted(t)
  /\ b \in [Made(log, H) -> DOMAIN t.events]
  /\ \A p, q \in Made(log, H) : b[p] = b[q] => p = q
  /\ \A n \in DOMAIN t.events : \E p \in Made(log, H) : b[p] = n
  /\ \A p \in Made(log, H) : t.events[b[p]] = Stamp(log, p, b[p], Author(log, StepOf(p), own))
  /\ \A p, q \in Made(log, H) : Sooner(p, q) /\ Author(log, StepOf(p), own) = Author(log, StepOf(q), own) => b[p] < b[q]
Records(t, log, H, own) == \E b : Recording(t, log, H, own, b)

\* An event that was made is a step and a place in it.
LEMMA MadeIs ==
  ASSUME NEW log, LogOK(log), NEW H \in SUBSET DOMAIN log
  PROVE  /\ \A p \in Made(log, H) : /\ p = <<StepOf(p), PlaceOf(p)>> /\ StepOf(p) \in H /\ PlaceOf(p) \in DOMAIN log[StepOf(p)].step.call.events
                                    /\ StepOf(p) \in Nat /\ PlaceOf(p) \in Nat
         /\ \A k \in H : \A j \in DOMAIN log[k].step.call.events : <<k, j>> \in Made(log, H)
<1>1. DOMAIN log = 1..Len(log) /\ Len(log) \in Nat
  BY DEF LogOK
<1>2. ASSUME NEW p \in Made(log, H)
      PROVE  /\ p = <<p[1], p[2]>> /\ p[1] \in H /\ p[2] \in DOMAIN log[p[1]].step.call.events
             /\ p[1] \in Nat /\ p[2] \in Nat
  <2>1. PICK k \in H : p \in {k} \X DOMAIN log[k].step.call.events
    BY DEF Made
  <2>2. DOMAIN log[k].step.call.events = 1..Len(log[k].step.call.events)
    BY DEF LogOK, StepOK, CallOK, EventsOK
  <2>3. p = <<p[1], p[2]>> /\ p[1] = k /\ p[2] \in DOMAIN log[k].step.call.events
    BY <2>1
  <2> QED
    BY <1>1, <2>2, <2>3
<1>3. \A k \in H : \A j \in DOMAIN log[k].step.call.events : <<k, j>> \in Made(log, H)
  BY DEF Made
<1> QED
  BY <1>2, <1>3 DEF StepOf, PlaceOf

\* The step and the place of a pair.
LEMMA SlotIs ==
  ASSUME NEW k, NEW j
  PROVE  StepOf(<<k, j>>) = k /\ PlaceOf(<<k, j>>) = j
BY DEF StepOf, PlaceOf

\* Events are made in the order of steps, and of places within a step.
LEMMA SoonerIs ==
  ASSUME NEW p, NEW q
  PROVE  Sooner(p, q) <=> StepOf(p) < StepOf(q) \/ (StepOf(p) = StepOf(q) /\ PlaceOf(p) < PlaceOf(q))
BY DEF Sooner, StepOf, PlaceOf

\* A fresh tracer has recorded nothing.
LEMMA FreshRecords ==
  ASSUME NEW who, NEW log, NEW own
  PROVE  Records(Fresh(who, Seeds), log, {}, own)
<1> DEFINE t == Fresh(who, Seeds)
           b == [p \in {} |-> 0]
<1>1. Made(log, {}) = {}
  BY DEF Made
<1>2. t.events = <<>> /\ t.seq = 0
  BY DEF Fresh
<1>3. Sorted(t)
  BY <1>2 DEF Sorted, Range
<1> HIDE DEF t
<1>4. Recording(t, log, {}, own, b)
  BY <1>1, <1>2, <1>3 DEF Recording
<1> QED
  BY <1>4 DEF Records, t

\* A function on 1..n is a sequence,
LEMMA SeqFrom ==
  ASSUME NEW T, NEW n \in Nat, NEW s \in [1..n -> T]
  PROVE  s \in Seq(T) /\ Len(s) = n
OBVIOUS

\* and a sequence is a function on 1..n,
LEMMA SeqTo ==
  ASSUME NEW T, NEW s \in Seq(T)
  PROVE  s \in [1..Len(s) -> T] /\ Len(s) \in Nat
OBVIOUS

\* into its range.
LEMMA RangeOf ==
  ASSUME NEW n, NEW s, DOMAIN s = 1..n, s = [k \in 1..n |-> s[k]]
  PROVE  s \in [1..n -> Range(s)]
<1>1. \A k \in 1..n : s[k] \in Range(s)
  BY DEF Range
<1> QED
  BY <1>1

\* Place by place.
Appended(v, s, r) ==
  /\ v \in Seq(Range(v)) /\ Len(v) = Len(s) + Len(r)
  /\ DOMAIN v = 1..(Len(s) + Len(r)) /\ DOMAIN s = 1..Len(s) /\ DOMAIN r = 1..Len(r)
  /\ \A n \in 1..Len(s) : v[n] = s[n]
  /\ \A n \in 1..Len(r) : v[Len(s) + n] = r[n]

\* What appending leaves at each place.
LEMMA Appending ==
  ASSUME NEW s, s \in Seq(Range(s)), NEW r, r \in Seq(Range(r)), NEW v, v = s \o r
  PROVE  Appended(v, s, r)
<1> DEFINE S == Range(s) \cup Range(r)
<1>1. s \in Seq(S) /\ r \in Seq(S)
  <2>1. s \in [1..Len(s) -> Range(s)] /\ r \in [1..Len(r) -> Range(r)] /\ Len(s) \in Nat /\ Len(r) \in Nat
    OBVIOUS
  <2> DEFINE P == Range(s)
             Q == Range(r)
  <2>2. s \in [1..Len(s) -> P] /\ r \in [1..Len(r) -> Q]
    BY <2>1
  <2> HIDE DEF P, Q
  <2>3. s \in [1..Len(s) -> P \cup Q] /\ r \in [1..Len(r) -> P \cup Q]
    BY <2>2
  <2>4. s \in Seq(P \cup Q) /\ r \in Seq(P \cup Q)
    BY <2>1, <2>3, SeqFrom
  <2> QED
    BY <2>4 DEF P, Q
<1> HIDE DEF S
<1>2. /\ v \in Seq(S) /\ Len(v) = Len(s) + Len(r) /\ Len(s) \in Nat /\ Len(r) \in Nat
      /\ \A n \in 1..(Len(s) + Len(r)) : v[n] = IF n <= Len(s) THEN s[n] ELSE r[n - Len(s)]
  BY <1>1, ConcatProperties
<1>3. DOMAIN v = 1..Len(v) /\ DOMAIN s = 1..Len(s) /\ DOMAIN r = 1..Len(r)
  BY <1>1, <1>2
<1>4. v \in Seq(Range(v))
  <2> DEFINE n == Len(v)
  <2>0. v \in [1..n -> S] /\ n \in Nat
    BY <1>2, SeqTo
  <2>1. n \in Nat /\ DOMAIN v = 1..n /\ v = [k \in 1..n |-> v[k]]
    BY <2>0
  <2> HIDE DEF n
  <2>2. v \in [1..n -> Range(v)]
    BY <2>1, RangeOf
  <2> QED
    BY <2>1, <2>2, SeqFrom
<1> QED
  BY <1>2, <1>3, <1>4 DEF Appended

\* The fields of an event as it was stamped.
LEMMA StampIs ==
  ASSUME NEW log, NEW p, NEW n, NEW who
  PROVE  LET x == log[StepOf(p)]
             e == x.step.call.events[PlaceOf(p)]
             s == Stamp(log, p, n, who)
         IN  /\ s.seq = n /\ s.at = x.at /\ s.by = who /\ s.src = x.step.scope /\ s.muted = x.step.muted
             /\ s.cat = e.cat /\ s.op = e.op /\ s.args = e.args /\ s.note = e.note
BY DEF Stamp, Entry, StepOf, PlaceOf

\* The numbers and times of a record.
LEMMA RecordedIs ==
  ASSUME NEW t, NEW log, LogOK(log), NEW H \in SUBSET DOMAIN log, NEW own, NEW b, Recording(t, log, H, own, b)
  PROVE  /\ DOMAIN t.events = 1..Len(t.events) /\ Len(t.events) \in Nat
         /\ \A n \in DOMAIN t.events : t.events[n].at \in Nat /\ t.events[n].seq = n
         /\ \A p \in Made(log, H) : b[p] \in 1..Len(t.events) /\ t.events[b[p]].at = log[StepOf(p)].at
<1>1. DOMAIN t.events = 1..Len(t.events) /\ Len(t.events) \in Nat
  BY SeqTo DEF Recording, Sorted
<1>2. ASSUME NEW p \in Made(log, H)
      PROVE  /\ b[p] \in DOMAIN t.events /\ t.events[b[p]].at = log[StepOf(p)].at /\ log[StepOf(p)].at \in Nat
             /\ t.events[b[p]].seq = b[p]
  <2>1. b[p] \in DOMAIN t.events /\ t.events[b[p]] = Stamp(log, p, b[p], Author(log, StepOf(p), own))
    BY DEF Recording
  <2>2. log[StepOf(p)].at \in Nat
    BY MadeIs DEF LogOK
  <2> QED
    BY <2>1, <2>2, StampIs
<1>3. \A n \in DOMAIN t.events : \E p \in Made(log, H) : b[p] = n
  BY DEF Recording
<1> QED
  BY <1>1, <1>2, <1>3

\* The entries of one step.
Entries(r, t, step, at) ==
  /\ r \in Seq(Range(r)) /\ Len(r) = Len(step.call.events) /\ Len(r) \in Nat
  /\ DOMAIN step.call.events = 1..Len(r)
  /\ \A j \in 1..Len(r) : r[j] = Entry(step, at, j, t.seq + j, t.who)

\* Stamped gives the entries of a step, numbered from the next number on.
LEMMA StampedIs ==
  ASSUME NEW t, NEW step, StepOK(step), NEW at
  PROVE  Entries(Stamped(t, step, at), t, step, at)
<1> DEFINE r == Stamped(t, step, at)
           es == step.call.events
           n == Len(es)
<1>1. n \in Nat /\ DOMAIN es = 1..n
  <2>1. es \in Seq(Range(es))
    BY DEF StepOK, CallOK, EventsOK
  <2> HIDE DEF es
  <2> QED
    BY <2>1, SeqTo
<1>2. DOMAIN r = 1..n /\ r = [j \in 1..n |-> r[j]]
  BY DEF Stamped
<1>3. \A j \in 1..n : r[j] = Entry(step, at, j, t.seq + j, t.who)
  BY DEF Stamped, Entry
<1> HIDE DEF n, r
<1>4. r \in Seq(Range(r)) /\ Len(r) = n
  BY <1>1, <1>2, RangeOf, SeqFrom
<1> QED
  BY <1>1, <1>3, <1>4 DEF n, r, Entries

\* What one step appends.
Taken(u, t, step, at) ==
  LET n == Len(t.events)
      m == Len(step.call.events)
  IN  /\ m \in Nat /\ DOMAIN step.call.events = 1..m
      /\ u.events \in Seq(Range(u.events)) /\ Len(u.events) = n + m /\ DOMAIN u.events = 1..(n + m) /\ u.seq = n + m
      /\ \A j \in 1..n : u.events[j] = t.events[j]
      /\ \A j \in 1..m : u.events[n + j] = Entry(step, at, j, n + j, t.who)

\* So Take appends them.
LEMMA TakeAppends ==
  ASSUME NEW t, Shape(t), Sorted(t), NEW step, StepOK(step), NEW at, NEW u, u = Take(t, step, at)
  PROVE  Taken(u, t, step, at)
<1> DEFINE r == Stamped(t, step, at)
           s == t.events
           v == u.events
           m == Len(step.call.events)
<1>1. v = s \o r /\ u.seq = t.seq + m
  BY TakeIs
<1>2. s \in Seq(Range(s)) /\ t.seq = Len(s)
  BY DEF Sorted
<1>3. Entries(r, t, step, at)
  BY StampedIs
<1> HIDE DEF r, v, s, m
<1>4. /\ r \in Seq(Range(r)) /\ Len(r) = m /\ m \in Nat /\ DOMAIN step.call.events = 1..m
      /\ \A j \in 1..m : r[j] = Entry(step, at, j, Len(s) + j, t.who)
  BY <1>2, <1>3 DEF Entries, m
<1>5. Appended(v, s, r)
  BY <1>1, <1>2, <1>4, Appending
<1>6. /\ m \in Nat /\ DOMAIN step.call.events = 1..m
      /\ v \in Seq(Range(v)) /\ Len(v) = Len(s) + m /\ DOMAIN v = 1..(Len(s) + m) /\ u.seq = Len(s) + m
      /\ \A j \in 1..Len(s) : v[j] = s[j]
      /\ \A j \in 1..m : v[Len(s) + j] = Entry(step, at, j, Len(s) + j, t.who)
  BY <1>1, <1>2, <1>4, <1>5 DEF Appended
<1> QED
  BY <1>6 DEF s, v, m, Taken

\* A step later than those already taken.
Before(H, k) == \A h \in H : h < k

\* A tracer that takes the latest step has recorded that step too, last.
LEMMA TakeRecords ==
  ASSUME NEW t, NEW log, LogOK(log), NEW H \in SUBSET DOMAIN log, NEW own, Records(t, log, H, own), Shape(t),
         NEW k \in DOMAIN log, Before(H, k), t.who = Author(log, k, own),
         NEW step, step = log[k].step, NEW at, at = log[k].at, NEW u, u = Take(t, step, at)
  PROVE  Records(u, log, H \cup {k}, own)
<1> DEFINE K == H \cup {k}
           N == Len(t.events)
           es == step.call.events
           M == Len(es)
           v == u.events
<1>1. PICK b : Recording(t, log, H, own, b)
  BY DEF Records
<1>2. /\ DOMAIN t.events = 1..N /\ N \in Nat
      /\ \A n \in DOMAIN t.events : t.events[n].at \in Nat /\ t.events[n].seq = n
      /\ \A p \in Made(log, H) : b[p] \in 1..N /\ t.events[b[p]].at = log[StepOf(p)].at
  BY <1>1, RecordedIs, SMTT(30)
<1>3. Sorted(t) /\ t.seq = N
  BY <1>1 DEF Recording, Sorted
<1>4. StepOK(step) /\ log[k].at \in Nat /\ k \in Nat
  <2>1. DOMAIN log = 1..Len(log)
    BY DEF LogOK
  <2> QED
    BY <2>1 DEF LogOK
<1>5. /\ M \in Nat /\ DOMAIN es = 1..M
      /\ v \in Seq(Range(v)) /\ Len(v) = N + M /\ DOMAIN v = 1..(N + M) /\ u.seq = N + M
      /\ \A n \in 1..N : v[n] = t.events[n]
      /\ \A j \in 1..M : v[N + j] = Entry(step, at, j, N + j, t.who)
  <2>1. Taken(u, t, step, at)
    BY <1>3, <1>4, TakeAppends
  <2> QED
    BY <2>1 DEF Taken
<1>6. u.seq = N + M
  BY <1>5
<1>7. /\ v \in Seq(Range(v)) /\ Len(v) = N + M /\ DOMAIN v = 1..(N + M)
      /\ \A n \in 1..N : v[n] = t.events[n]
      /\ \A j \in 1..M : v[N + j] = Stamp(log, <<k, j>>, N + j, t.who)
  BY <1>5 DEF Stamp
<1> HIDE DEF v, N, M
<1>8. /\ \A n \in 1..N : v[n].at \in Nat /\ v[n].at <= log[k].at
      /\ \A j \in 1..M : v[N + j].at = log[k].at
  <2>1. ASSUME NEW n \in 1..N PROVE v[n].at \in Nat /\ v[n].at <= log[k].at
    <3>1. PICK p \in Made(log, H) : b[p] = n
      BY <1>1, <1>2 DEF Recording
    <3>2. v[n].at = log[StepOf(p)].at /\ v[n].at \in Nat
      BY <1>2, <1>7, <3>1
    <3>3. StepOf(p) \in H
      BY MadeIs
    <3>4. StepOf(p) \in DOMAIN log /\ StepOf(p) <= k
      BY <1>4, <3>3 DEF Before, LogOK
    <3>5. log[StepOf(p)].at <= log[k].at
      BY <3>4 DEF LogOK
    <3> QED
      BY <3>2, <3>5
  <2>2. ASSUME NEW j \in 1..M PROVE v[N + j].at = log[k].at
    <3> DEFINE p == <<k, j>>
    <3>1. v[N + j] = Stamp(log, p, N + j, t.who) /\ StepOf(p) = k
      BY <1>7, SlotIs
    <3> HIDE DEF p
    <3>2. Stamp(log, p, N + j, t.who).at = log[StepOf(p)].at
      BY StampIs
    <3> QED
      BY <3>1, <3>2
  <2> QED
    BY <2>1, <2>2
<1>9. Sorted(u)
  <2>1. ASSUME NEW m \in 1..(N + M), NEW n \in 1..(N + M), m <= n PROVE v[m].at <= v[n].at
    <3>1. CASE n <= N
      <4>1. m \in DOMAIN t.events /\ n \in DOMAIN t.events
        BY <1>2, <1>5, <2>1, <3>1
      <4>2. t.events[m].at <= t.events[n].at
        BY <1>3, <2>1, <4>1 DEF Sorted
      <4> QED
        BY <1>2, <1>7, <4>1, <4>2
    <3>2. CASE n > N
      <4>1. n - N \in 1..M /\ N + (n - N) = n
        BY <1>2, <1>5, <3>2
      <4>2. v[n].at = log[k].at
        BY <1>8, <4>1
      <4>3. CASE m <= N
        <5>1. m \in 1..N
          BY <1>2, <1>5, <4>3
        <5> QED
          BY <1>8, <4>2, <5>1
      <4>4. CASE m > N
        <5>1. m - N \in 1..M /\ N + (m - N) = m
          BY <1>2, <1>5, <4>4
        <5>2. v[m].at = log[k].at
          BY <1>8, <5>1
        <5> QED
          BY <1>4, <4>2, <5>2
      <4> QED
        BY <1>2, <1>5, <4>3, <4>4
    <3> QED
      BY <1>2, <1>5, <3>1, <3>2
  <2> QED
    BY <1>6, <1>7, <2>1 DEF Sorted, v
<1> DEFINE c == [p \in Made(log, K) |-> IF StepOf(p) = k THEN N + PlaceOf(p) ELSE b[p]]
<1>10. K \in SUBSET DOMAIN log /\ k \notin H
  <2>1. k \notin H
    BY <1>4 DEF Before
  <2> QED
    BY <2>1
<1> DEFINE New(p) == StepOf(p) = k /\ PlaceOf(p) \in 1..M
           Old(p) == p \in Made(log, H) /\ StepOf(p) < k /\ StepOf(p) # k
           Pair(p) == p = <<StepOf(p), PlaceOf(p)>> /\ StepOf(p) \in Nat /\ PlaceOf(p) \in Nat
<1>11. /\ \A p \in Made(log, K) : Pair(p) /\ (New(p) \/ Old(p))
       /\ \A j \in 1..M : <<k, j>> \in Made(log, K)
       /\ \A p \in Made(log, H) : p \in Made(log, K) /\ StepOf(p) # k
  <2>1. ASSUME NEW p \in Made(log, K) PROVE Pair(p) /\ (New(p) \/ Old(p))
    <3> HIDE DEF K
    <3>1. /\ p = <<StepOf(p), PlaceOf(p)>> /\ StepOf(p) \in K /\ PlaceOf(p) \in DOMAIN log[StepOf(p)].step.call.events
          /\ StepOf(p) \in Nat /\ PlaceOf(p) \in Nat
      BY <1>10, MadeIs
    <3>2. CASE StepOf(p) = k
      BY <1>5, <3>1, <3>2
    <3>3. CASE StepOf(p) \in H
      <4>1. <<StepOf(p), PlaceOf(p)>> \in Made(log, H)
        BY <3>1, <3>3, MadeIs
      <4>2. StepOf(p) < k
        BY <3>3 DEF Before
      <4> QED
        BY <3>1, <4>1, <4>2
    <3> QED
      BY <3>1, <3>2, <3>3 DEF K
  <2>2. \A j \in 1..M : <<k, j>> \in Made(log, K)
    <3>1. k \in K
      OBVIOUS
    <3> HIDE DEF K
    <3> QED
      BY <1>5, <1>10, <3>1, MadeIs
  <2>3. ASSUME NEW p \in Made(log, H) PROVE p \in Made(log, K) /\ StepOf(p) # k
    <3>1. p = <<StepOf(p), PlaceOf(p)>> /\ StepOf(p) \in H /\ PlaceOf(p) \in DOMAIN log[StepOf(p)].step.call.events
      BY MadeIs
    <3>2. StepOf(p) \in K
      BY <3>1
    <3> HIDE DEF K
    <3>3. <<StepOf(p), PlaceOf(p)>> \in Made(log, K)
      BY <1>10, <3>1, <3>2, MadeIs
    <3> QED
      BY <1>10, <3>1, <3>3
  <2> QED
    BY <2>1, <2>2, <2>3
<1>11a. \A p \in Made(log, K) : StepOf(p) = k => New(p)
  BY <1>11
<1>11b. \A p \in Made(log, K) : StepOf(p) # k => Old(p)
  BY <1>11
<1> HIDE DEF K, es
<1>12. /\ DOMAIN c = Made(log, K)
       /\ \A p \in Made(log, K) : /\ New(p) => c[p] = N + PlaceOf(p)
                                  /\ Old(p) => c[p] = b[p] /\ c[p] \in 1..N
  <2>1. DOMAIN c = Made(log, K) /\ \A p \in Made(log, K) : c[p] = IF StepOf(p) = k THEN N + PlaceOf(p) ELSE b[p]
    OBVIOUS
  <2> HIDE DEF c
  <2>2. ASSUME NEW p \in Made(log, K), New(p) PROVE c[p] = N + PlaceOf(p)
    BY <2>1, <2>2
  <2>3. ASSUME NEW p \in Made(log, K), Old(p) PROVE c[p] = b[p] /\ c[p] \in 1..N
    BY <1>2, <2>1, <2>3
  <2> QED
    BY <2>1, <2>2, <2>3
<1>13. c \in [Made(log, K) -> DOMAIN v]
  <2>1. ASSUME NEW p \in Made(log, K) PROVE c[p] \in 1..(N + M)
    <3> HIDE DEF c
    <3>1. CASE New(p)
      <4>1. c[p] = N + PlaceOf(p) /\ PlaceOf(p) \in 1..M
        BY <1>12, <3>1
      <4> QED
        BY <1>2, <1>5, <4>1
    <3>2. CASE Old(p)
      <4>1. c[p] \in 1..N
        BY <1>12, <3>2
      <4> QED
        BY <1>2, <1>5, <4>1
    <3> QED
      BY <1>11, <3>1, <3>2
  <2> QED
    BY <1>7, <2>1
<1> HIDE DEF c
<1>14. \A p, q \in Made(log, K) : c[p] = c[q] => p = q
  <2> SUFFICES ASSUME NEW p \in Made(log, K), NEW q \in Made(log, K), c[p] = c[q] PROVE p = q
      OBVIOUS
  <2>1. CASE StepOf(p) = k /\ StepOf(q) = k
    <3>1. N + PlaceOf(p) = N + PlaceOf(q)
      BY <1>11a, <1>12, <2>1
    <3>2. Pair(p) /\ Pair(q)
      BY <1>11
    <3>3. PlaceOf(p) = PlaceOf(q)
      BY <1>2, <3>1, <3>2
    <3> QED
      BY <2>1, <3>2, <3>3
  <2>2. CASE StepOf(p) = k /\ StepOf(q) # k
    <3>1. c[p] = N + PlaceOf(p) /\ PlaceOf(p) \in 1..M
      BY <1>11a, <1>12, <2>2
    <3>2. c[q] \in 1..N
      BY <1>11b, <1>12, <2>2
    <3> QED
      BY <1>2, <1>5, <3>1, <3>2
  <2>3. CASE StepOf(p) # k /\ StepOf(q) = k
    <3>1. c[q] = N + PlaceOf(q) /\ PlaceOf(q) \in 1..M
      BY <1>11a, <1>12, <2>3
    <3>2. c[p] \in 1..N
      BY <1>11b, <1>12, <2>3
    <3> QED
      BY <1>2, <1>5, <3>1, <3>2
  <2>4. CASE StepOf(p) # k /\ StepOf(q) # k
    <3>1. p \in Made(log, H) /\ q \in Made(log, H) /\ c[p] = b[p] /\ c[q] = b[q]
      BY <1>11b, <1>12, <2>4
    <3> QED
      BY <1>1, <3>1 DEF Recording
  <2> QED
    BY <2>1, <2>2, <2>3, <2>4
<1>15. ASSUME NEW n \in DOMAIN v PROVE \E p \in Made(log, K) : c[p] = n
  <2>1. n \in 1..(N + M)
    BY <1>7
  <2>2. CASE n <= N
    <3>1. n \in DOMAIN t.events
      BY <1>2, <1>5, <2>1, <2>2
    <3>2. PICK p \in Made(log, H) : b[p] = n
      BY <1>1, <3>1 DEF Recording
    <3>3. p \in Made(log, K) /\ StepOf(p) # k
      BY <1>11
    <3>4. c[p] = n
      BY <1>11b, <1>12, <3>2, <3>3
    <3> QED
      BY <3>3, <3>4
  <2>3. CASE n > N
    <3> DEFINE p == <<k, n - N>>
    <3>1. n - N \in 1..M /\ N + (n - N) = n
      BY <1>2, <1>5, <2>1, <2>3
    <3>2. p \in Made(log, K) /\ StepOf(p) = k /\ PlaceOf(p) = n - N
      BY <1>11, <3>1, SlotIs
    <3> HIDE DEF p
    <3>3. c[p] = N + PlaceOf(p)
      BY <1>11a, <1>12, <3>2
    <3> QED
      BY <3>1, <3>2, <3>3
  <2> QED
    BY <1>2, <1>5, <2>1, <2>2, <2>3
<1>16. ASSUME NEW p \in Made(log, K) PROVE v[c[p]] = Stamp(log, p, c[p], Author(log, StepOf(p), own))
  <2>1. CASE StepOf(p) = k
    <3>1. PlaceOf(p) \in 1..M /\ c[p] = N + PlaceOf(p)
      BY <1>11a, <1>12, <2>1
    <3>2. p = <<k, PlaceOf(p)>>
      BY <1>11, <2>1
    <3> QED
      BY <1>7, <2>1, <3>1, <3>2
  <2>2. CASE StepOf(p) # k
    <3>1. p \in Made(log, H) /\ c[p] = b[p] /\ b[p] \in 1..N
      BY <1>11b, <1>12, <2>2
    <3>2. t.events[b[p]] = Stamp(log, p, b[p], Author(log, StepOf(p), own))
      BY <1>1, <3>1 DEF Recording
    <3> QED
      BY <1>7, <3>1, <3>2
  <2> QED
    BY <2>1, <2>2
<1>17. ASSUME NEW p \in Made(log, K), NEW q \in Made(log, K), Sooner(p, q), Author(log, StepOf(p), own) = Author(log, StepOf(q), own)
       PROVE  c[p] < c[q]
  <2>0. StepOf(p) < StepOf(q) \/ (StepOf(p) = StepOf(q) /\ PlaceOf(p) < PlaceOf(q))
    BY <1>17, SoonerIs
  <2>1. CASE StepOf(p) = k /\ StepOf(q) = k
    <3>1. c[p] = N + PlaceOf(p) /\ c[q] = N + PlaceOf(q) /\ PlaceOf(p) \in 1..M /\ PlaceOf(q) \in 1..M
      BY <1>11a, <1>12, <2>1
    <3>2. PlaceOf(p) < PlaceOf(q)
      BY <1>4, <2>0, <2>1
    <3> QED
      BY <1>2, <1>5, <3>1, <3>2
  <2>2. CASE StepOf(p) = k /\ StepOf(q) # k
    <3>1. StepOf(q) < k
      BY <1>11b, <2>2
    <3>2. StepOf(q) \in Nat
      BY <1>11
    <3> QED
      BY <1>4, <2>0, <2>2, <3>1, <3>2
  <2>3. CASE StepOf(p) # k /\ StepOf(q) = k
    <3>1. c[q] = N + PlaceOf(q) /\ PlaceOf(q) \in 1..M
      BY <1>11a, <1>12, <2>3
    <3>2. c[p] \in 1..N
      BY <1>11b, <1>12, <2>3
    <3> QED
      BY <1>2, <1>5, <3>1, <3>2
  <2>4. CASE StepOf(p) # k /\ StepOf(q) # k
    <3>1. p \in Made(log, H) /\ q \in Made(log, H) /\ c[p] = b[p] /\ c[q] = b[q]
      BY <1>11b, <1>12, <2>4
    <3> QED
      BY <1>1, <1>17, <3>1 DEF Recording
  <2> QED
    BY <2>1, <2>2, <2>3, <2>4
<1>18. Recording(u, log, K, own, c)
  BY <1>9, <1>13, <1>14, <1>15, <1>16, <1>17 DEF Recording, v
<1> QED
  BY <1>18 DEF Records, K

\* A record stays one as the log grows.
LEMMA RecordsOn ==
  ASSUME NEW t, NEW log, NEW H, NEW own, Records(t, log, H, own), NEW m, \A k \in H : m[k] = log[k],
         H \subseteq DOMAIN log, LogOK(log)
  PROVE  Records(t, m, H, own)
<1>1. PICK b : Recording(t, log, H, own, b)
  BY DEF Records
<1>2. Made(m, H) = Made(log, H)
  BY DEF Made
<1>3. \A p \in Made(log, H) : StepOf(p) \in H
  BY MadeIs
<1>4. \A p \in Made(log, H) : /\ Author(m, StepOf(p), own) = Author(log, StepOf(p), own)
                               /\ \A n, who : Stamp(m, p, n, who) = Stamp(log, p, n, who)
  BY <1>3 DEF Author, Stamp, StepOf
<1>5. Recording(t, m, H, own, b)
  BY <1>1, <1>2, <1>4 DEF Recording
<1> QED
  BY <1>5 DEF Records

-----------------------------------------------------------------------------
(* The merged timeline *)

RecordAll(ts, log, Hs) == \A k \in DOMAIN ts : Records(ts[k], log, Hs[k], TRUE)
\* Each step was made by one of the runtimes, and each runtime has its name.
Apart(ts, log, Hs) ==
  /\ \A k \in DOMAIN ts : Hs[k] \in SUBSET DOMAIN log
  /\ \A j, k \in DOMAIN ts : \A m \in Hs[j], n \in Hs[k] : log[m].who = log[n].who <=> j = k

\* Numbering anew changes the number only.
LEMMA Renumber ==
  ASSUME NEW step, NEW at, NEW j, NEW n, NEW m, NEW who
  PROVE  [Entry(step, at, j, n, who) EXCEPT !.seq = m] = Entry(step, at, j, m, who)
<1> DEFINE e == step.call.events[j]
           x == [seq |-> n, at |-> at, by |-> who, src |-> step.scope, muted |-> step.muted,
                 cat |-> e.cat, op |-> e.op, args |-> e.args, note |-> e.note]
<1>1. Entry(step, at, j, n, who) = x
  BY DEF Entry
<1>2. [x EXCEPT !.seq = m] = Entry(step, at, j, m, who)
  BY DEF Entry
<1> QED
  BY <1>1, <1>2

\* Stamped the same, but for the number.
Renumbered(v, events, n) ==
  \A log, p, who, m : \A k \in 1..n : events[k] = Stamp(log, p, m, who) => v[k] = Stamp(log, p, k, who)

\* Numbered gives the numbers 1, 2, ... and keeps the rest.
LEMMA NumberedIs ==
  ASSUME NEW events, NEW n \in Nat, DOMAIN events = 1..n, NEW v, v = Numbered(events)
  PROVE  /\ v \in Seq(Range(v)) /\ Len(v) = n /\ DOMAIN v = 1..n
         /\ Renumbered(v, events, n)
<1>1. DOMAIN v = 1..n /\ v = [k \in 1..n |-> v[k]] /\ \A k \in 1..n : v[k] = [events[k] EXCEPT !.seq = k]
  BY DEF Numbered
<1>2. v \in Seq(Range(v)) /\ Len(v) = n
  BY <1>1, RangeOf, SeqFrom
<1>3. ASSUME NEW log, NEW p, NEW who, NEW m, NEW k \in 1..n, events[k] = Stamp(log, p, m, who)
      PROVE  v[k] = Stamp(log, p, k, who)
  <2> DEFINE step == log[p[1]].step
             at == log[p[1]].at
             j == p[2]
  <2>1. Stamp(log, p, m, who) = Entry(step, at, j, m, who) /\ Stamp(log, p, k, who) = Entry(step, at, j, k, who)
    BY DEF Stamp
  <2>2. [Entry(step, at, j, m, who) EXCEPT !.seq = k] = Entry(step, at, j, k, who)
    BY Renumber
  <2>3. v[k] = [events[k] EXCEPT !.seq = k]
    BY <1>1
  <2> HIDE DEF step, at, j
  <2> QED
    BY <1>3, <2>1, <2>2, <2>3, Zenon
<1>4. Renumbered(v, events, n)
  BY <1>3 DEF Renumbered
<1> QED
  BY <1>1, <1>2, <1>4

\* Where an event that was made is in the tracers.
Situated(ts, log, K, f) ==
  /\ f \in [Made(log, K) -> Slots(ts)]
  /\ \A p, q \in Made(log, K) : f[p] = f[q] => p = q
  /\ \A s \in Slots(ts) : \E p \in Made(log, K) : f[p] = s
  /\ \A p \in Made(log, K) : \E n : At(ts, f[p]) = Stamp(log, p, n, Author(log, StepOf(p), TRUE))
  /\ \A p, q \in Made(log, K) : Sooner(p, q) /\ Author(log, StepOf(p), TRUE) = Author(log, StepOf(q), TRUE)
                                 => Earlier(ts, f[p], f[q])

\* Whose record an event is in.
Homes(ts, log, Hs, K) ==
  /\ K \in SUBSET DOMAIN log
  /\ \A p \in Made(log, K) : \E k \in DOMAIN ts : p \in Made(log, Hs[k])
  /\ \A k \in DOMAIN ts : \A p \in Made(log, Hs[k]) : p \in Made(log, K)
  /\ \A j, k \in DOMAIN ts : \A p \in Made(log, Hs[j]), q \in Made(log, Hs[k]) :
        Author(log, StepOf(p), TRUE) = Author(log, StepOf(q), TRUE) <=> j = k

\* Every event that was made is in the record of one tracer, that of its author.
LEMMA HomeIs ==
  ASSUME NEW ts, NEW log, LogOK(log), NEW Hs, Apart(ts, log, Hs), NEW K, K = All(ts, Hs)
  PROVE  Homes(ts, log, Hs, K)
<1>1. K \in SUBSET DOMAIN log
  BY DEF Apart, All
<1>2. ASSUME NEW p \in Made(log, K) PROVE \E k \in DOMAIN ts : p \in Made(log, Hs[k])
  BY DEF Made, All
<1>3. ASSUME NEW k \in DOMAIN ts, NEW p \in Made(log, Hs[k]) PROVE p \in Made(log, K)
  BY DEF Made, All
<1>4. ASSUME NEW j \in DOMAIN ts, NEW k \in DOMAIN ts, NEW p \in Made(log, Hs[j]), NEW q \in Made(log, Hs[k])
      PROVE  Author(log, StepOf(p), TRUE) = Author(log, StepOf(q), TRUE) <=> j = k
  <2>1. Hs[j] \in SUBSET DOMAIN log /\ Hs[k] \in SUBSET DOMAIN log
    BY DEF Apart
  <2>2. StepOf(p) \in Hs[j] /\ StepOf(q) \in Hs[k]
    BY <2>1, MadeIs
  <2>3. log[StepOf(p)].who = log[StepOf(q)].who <=> j = k
    BY <2>2 DEF Apart
  <2> QED
    BY <2>3 DEF Author
<1> QED
  BY <1>1, <1>2, <1>3, <1>4 DEF Homes

\* The event in a slot.
LEMMA AtIs ==
  ASSUME NEW ts, NEW k, NEW i
  PROVE  At(ts, <<k, i>>) = ts[k].events[i]
BY DEF At

\* Slots are ordered by time, then by tracer and place.
LEMMA EarlierIs ==
  ASSUME NEW ts, NEW p, NEW q
  PROVE  /\ At(ts, p).at < At(ts, q).at => Earlier(ts, p, q)
         /\ At(ts, p).at = At(ts, q).at /\ Sooner(p, q) => Earlier(ts, p, q)
         /\ Earlier(ts, p, q) => At(ts, p).at < At(ts, q).at \/ At(ts, p).at = At(ts, q).at
BY Zenon DEF Earlier

\* Within a tracer, times being in order, slots are ordered by place.
LEMMA SlotAt ==
  ASSUME NEW ts, NEW k \in Nat, NEW i \in Nat, NEW j \in Nat, i < j,
         ts[k].events[i].at < ts[k].events[j].at \/ ts[k].events[i].at = ts[k].events[j].at
  PROVE  Earlier(ts, <<k, i>>, <<k, j>>)
<1> DEFINE p == <<k, i>>
           q == <<k, j>>
<1>1. p[1] = k /\ p[2] = i /\ q[1] = k /\ q[2] = j
  OBVIOUS
<1> HIDE DEF p, q
<1>2. At(ts, p) = ts[k].events[i] /\ At(ts, q) = ts[k].events[j]
  BY <1>1 DEF At
<1>3. Sooner(p, q)
  BY <1>1 DEF Sooner
<1>4. At(ts, p).at < At(ts, q).at \/ At(ts, p).at = At(ts, q).at
  BY <1>2
<1>5. Earlier(ts, p, q)
  BY <1>3, <1>4, EarlierIs, Zenon
<1> QED
  BY <1>5 DEF p, q

\* Every event that was made has a slot of its own, every slot has its event, and
\* of one author the earlier event has the earlier slot.
LEMMA Situating ==
  ASSUME NEW ts, TracersOK(ts), NEW log, LogOK(log), NEW Hs, Apart(ts, log, Hs), RecordAll(ts, log, Hs),
         NEW K, K = All(ts, Hs)
  PROVE  \E f : Situated(ts, log, K, f)
<1> DEFINE P == Made(log, K)
           D == DOMAIN ts
           own(k) == Made(log, Hs[k])
           B == [k \in D |-> CHOOSE b : Recording(ts[k], log, Hs[k], TRUE, b)]
           home == [p \in P |-> CHOOSE k \in D : p \in own(k)]
           f == [p \in P |-> <<home[p], B[home[p]][p]>>]
           who(p) == Author(log, StepOf(p), TRUE)
<1>0. Homes(ts, log, Hs, K)
  BY HomeIs
<1>1. \A k \in D : Recording(ts[k], log, Hs[k], TRUE, B[k])
  BY DEF RecordAll, Records
<1>2. ASSUME NEW p \in P PROVE home[p] \in D /\ p \in own(home[p])
  <2>1. \E k \in D : p \in own(k)
    BY <1>0 DEF Homes
  <2>2. home[p] = CHOOSE k \in D : p \in own(k)
    OBVIOUS
  <2> HIDE DEF home, own, D
  <2> QED
    BY <2>1, <2>2
<1> HIDE DEF home, B
<1>3. \A p \in P : f[p] = <<home[p], B[home[p]][p]>>
  OBVIOUS
<1>3a. DOMAIN f = P /\ f = [p \in P |-> f[p]]
  OBVIOUS
<1>4. \A j, k \in D : \A p \in own(j), q \in own(k) : who(p) = who(q) <=> j = k
  BY <1>0 DEF Homes
<1>5. \A k \in D : k \in Nat /\ Hs[k] \in SUBSET DOMAIN log
  BY SeqTo DEF TracersOK, Apart
<1> HIDE DEF f
<1>6. \A k \in D : \A p \in own(k) : p \in P /\ home[p] = k
  <2> SUFFICES ASSUME NEW k \in D, NEW p \in own(k) PROVE p \in P /\ home[p] = k
      OBVIOUS
  <2>1. p \in P
    BY <1>0 DEF Homes
  <2> QED
    BY <1>2, <1>4, <2>1
<1>7. ASSUME NEW k \in D
      PROVE  /\ DOMAIN ts[k].events = 1..Len(ts[k].events)
             /\ \A p \in own(k) : /\ B[k][p] \in DOMAIN ts[k].events /\ B[k][p] \in Nat
                                  /\ ts[k].events[B[k][p]] = Stamp(log, p, B[k][p], who(p))
             /\ \A p, q \in own(k) : B[k][p] = B[k][q] => p = q
             /\ \A p, q \in own(k) : Sooner(p, q) /\ who(p) = who(q) => B[k][p] < B[k][q]
             /\ \A n \in DOMAIN ts[k].events : \E p \in own(k) : B[k][p] = n
             /\ \A m, n \in DOMAIN ts[k].events : m <= n => ts[k].events[m].at <= ts[k].events[n].at
             /\ \A n \in DOMAIN ts[k].events : ts[k].events[n].at \in Nat
  <2>1. Recording(ts[k], log, Hs[k], TRUE, B[k])
    BY <1>1
  <2>2. /\ DOMAIN ts[k].events = 1..Len(ts[k].events)
        /\ \A n \in DOMAIN ts[k].events : ts[k].events[n].at \in Nat
    BY <1>5, <2>1, RecordedIs
  <2>3. /\ \A p, q \in own(k) : B[k][p] = B[k][q] => p = q
        /\ \A n \in DOMAIN ts[k].events : \E p \in own(k) : B[k][p] = n
        /\ \A m, n \in DOMAIN ts[k].events : m <= n => ts[k].events[m].at <= ts[k].events[n].at
    BY <2>1 DEF Recording, Sorted
  <2>4. ASSUME NEW p \in own(k)
        PROVE  B[k][p] \in DOMAIN ts[k].events /\ ts[k].events[B[k][p]] = Stamp(log, p, B[k][p], who(p))
    BY <2>1 DEF Recording
  <2>5. ASSUME NEW p \in own(k), NEW q \in own(k), Sooner(p, q), who(p) = who(q)
        PROVE  B[k][p] < B[k][q]
    BY <2>1, <2>5 DEF Recording
  <2>6. \A n \in DOMAIN ts[k].events : n \in Nat
    BY <2>2
  <2> QED
    BY <2>2, <2>3, <2>4, <2>5, <2>6
<1>8. \A s \in Slots(ts) : s = <<s[1], s[2]>> /\ s[1] \in D /\ s[2] \in DOMAIN ts[s[1]].events
  BY SlotsFinite
<1>9. \A k \in D : \A j \in DOMAIN ts[k].events : <<k, j>> \in Slots(ts)
  BY SlotsFinite
<1> HIDE DEF P, own, D
<1>10. ASSUME NEW p \in P PROVE f[p] \in Slots(ts)
  <2>1. home[p] \in D /\ p \in own(home[p])
    BY <1>2
  <2>2. B[home[p]][p] \in DOMAIN ts[home[p]].events
    BY <1>7, <2>1
  <2> QED
    BY <1>3, <1>9, <2>1, <2>2
<1>11. ASSUME NEW p \in P, NEW q \in P, f[p] = f[q] PROVE p = q
  <2>1. home[p] = home[q] /\ B[home[p]][p] = B[home[q]][q]
    BY <1>3, <1>11
  <2> QED
    BY <1>2, <1>7, <2>1
<1>12. ASSUME NEW s \in Slots(ts) PROVE \E p \in P : f[p] = s
  <2> DEFINE k == s[1]
             n == s[2]
  <2>0. s = <<k, n>> /\ k \in D /\ n \in DOMAIN ts[k].events
    BY <1>8
  <2> HIDE DEF k, n
  <2>1. PICK p \in own(k) : B[k][p] = n
    BY <1>7, <2>0
  <2>2. p \in P /\ home[p] = k
    BY <1>6, <2>0
  <2>3. f[p] = <<k, n>>
    BY <1>3, <2>1, <2>2
  <2> QED
    BY <2>0, <2>2, <2>3
<1>13. ASSUME NEW p \in P PROVE \E n : At(ts, f[p]) = Stamp(log, p, n, who(p))
  <2>1. home[p] \in D /\ p \in own(home[p])
    BY <1>2
  <2> DEFINE k == home[p]
             n == B[k][p]
  <2>2. n \in Nat /\ ts[k].events[n] = Stamp(log, p, n, who(p)) /\ k \in Nat
    BY <1>5, <1>7, <2>1
  <2>3. f[p] = <<k, n>>
    BY <1>3
  <2> HIDE DEF k, n
  <2>4. At(ts, <<k, n>>) = ts[k].events[n]
    BY AtIs
  <2> QED
    BY <2>2, <2>3, <2>4
<1>14. ASSUME NEW p \in P, NEW q \in P, Sooner(p, q), who(p) = who(q) PROVE Earlier(ts, f[p], f[q])
  <2>1. home[p] \in D /\ p \in own(home[p]) /\ home[q] \in D /\ q \in own(home[q])
    BY <1>2
  <2>2. home[p] = home[q]
    BY <1>4, <1>14, <2>1
  <2> DEFINE k == home[p]
             m == B[k][p]
             n == B[k][q]
  <2>3. k \in D /\ p \in own(k) /\ q \in own(k) /\ k \in Nat
    BY <1>5, <2>1, <2>2
  <2>4. f[p] = <<k, m>> /\ f[q] = <<k, n>>
    BY <1>3, <2>2
  <2> HIDE DEF k, m, n
  <2>5. /\ m \in DOMAIN ts[k].events /\ n \in DOMAIN ts[k].events /\ m \in Nat /\ n \in Nat
        /\ m < n
    BY <1>7, <1>14, <2>3 DEF m, n
  <2>6. ts[k].events[m].at <= ts[k].events[n].at /\ ts[k].events[m].at \in Nat /\ ts[k].events[n].at \in Nat
    <3>1. m <= n
      BY <2>5
    <3> QED
      BY <1>7, <2>3, <2>5, <3>1, Zenon
  <2>7. ts[k].events[m].at < ts[k].events[n].at \/ (ts[k].events[m].at = ts[k].events[n].at /\ m < n)
    BY <2>5, <2>6
  <2> QED
    BY <2>3, <2>4, <2>5, <2>7, SlotAt
<1>15. f \in [P -> Slots(ts)]
  BY <1>3a, <1>10
<1> HIDE DEF who
<1>16. Situated(ts, log, K, f)
  BY <1>11, <1>12, <1>13, <1>14, <1>15 DEF Situated, P, who
<1> QED
  BY <1>16


\* The merged timeline records what all tracers have recorded: no event is lost or
\* doubled, times and numbers are in order, and each author's events keep theirs.
LEMMA MergeRecords ==
  ASSUME NEW ts, TracersOK(ts), NEW log, LogOK(log), NEW Hs, Apart(ts, log, Hs), RecordAll(ts, log, Hs),
         NEW K, K = All(ts, Hs), NEW u, u.events = Numbered(Timeline(ts)), u.seq = Len(u.events)
  PROVE  Records(u, log, K, TRUE)
<1> DEFINE P == Made(log, K)
           S == Slots(ts)
           N == Cardinality(S)
           e == Timeline(ts)
           v == u.events
           who(p) == Author(log, StepOf(p), TRUE)
<1>1. PICK f : Situated(ts, log, K, f)
  BY Situating
<1>2. PICK place : Placing(ts, place)
  BY TimelineIs
<1>3. /\ f \in [P -> S]
      /\ \A p, q \in P : f[p] = f[q] => p = q
      /\ \A s \in S : \E p \in P : f[p] = s
  BY <1>1 DEF Situated
<1>4. \A p \in P : \E n : At(ts, f[p]) = Stamp(log, p, n, who(p))
  BY <1>1 DEF Situated
<1>5. ASSUME NEW p \in P, NEW q \in P, Sooner(p, q), who(p) = who(q) PROVE Earlier(ts, f[p], f[q])
  BY <1>1, <1>5 DEF Situated
<1>6. /\ N \in Nat /\ place \in [S -> 1..N] /\ DOMAIN e = 1..N
      /\ \A p, q \in S : place[p] = place[q] => p = q
      /\ \A n \in 1..N : \E p \in S : place[p] = n
  BY <1>2 DEF Placing
<1>7. \A p \in S : e[place[p]] = At(ts, p)
  BY <1>2 DEF Placing
<1>8. \A p, q \in S : Earlier(ts, p, q) <=> place[p] < place[q]
  BY <1>2 DEF Placing
<1>9. \A p \in S : At(ts, p).at \in Nat
  BY SlotsFinite
<1>10. v = Numbered(e)
  OBVIOUS
<1> HIDE DEF P, S, N, e, v
<1>11. /\ v \in Seq(Range(v)) /\ Len(v) = N /\ DOMAIN v = 1..N /\ Renumbered(v, e, N)
  BY <1>6, <1>10, NumberedIs
<1> DEFINE c == [p \in P |-> place[f[p]]]
<1>12. \A p \in P : c[p] = place[f[p]] /\ f[p] \in S /\ c[p] \in 1..N
  BY <1>3, <1>6
<1>13. c \in [P -> DOMAIN v]
  BY <1>11, <1>12
<1> HIDE DEF c
<1>14. \A p, q \in P : c[p] = c[q] => p = q
  BY <1>3, <1>6, <1>12
<1>15. \A n \in DOMAIN v : \E p \in P : c[p] = n
  BY <1>3, <1>6, <1>11, <1>12
<1>16. ASSUME NEW p \in P
       PROVE  v[c[p]] = Stamp(log, p, c[p], who(p)) /\ v[c[p]].at = At(ts, f[p]).at
  <2>1. PICK n : At(ts, f[p]) = Stamp(log, p, n, who(p))
    BY <1>4
  <2>2. e[c[p]] = Stamp(log, p, n, who(p)) /\ c[p] \in 1..N
    BY <1>7, <1>12, <2>1
  <2> DEFINE w == who(p)
             i == c[p]
  <2>3. e[i] = Stamp(log, p, n, w) /\ i \in 1..N
    BY <2>2
  <2> HIDE DEF w, i
  <2>4. v[i] = Stamp(log, p, i, w)
    BY <1>11, <2>3, Zenon DEF Renumbered
  <2>5. Stamp(log, p, i, w).at = log[StepOf(p)].at /\ Stamp(log, p, n, w).at = log[StepOf(p)].at
    BY StampIs
  <2> QED
    BY <2>1, <2>4, <2>5 DEF w, i
<1>17. ASSUME NEW p \in P, NEW q \in P, Sooner(p, q), who(p) = who(q) PROVE c[p] < c[q]
  BY <1>5, <1>8, <1>12, <1>17
<1>18. ASSUME NEW m \in DOMAIN v, NEW n \in DOMAIN v, m <= n PROVE v[m].at <= v[n].at
  <2>1. PICK p \in P : c[p] = m
    BY <1>15
  <2>2. PICK q \in P : c[q] = n
    BY <1>15
  <2>3. v[m].at = At(ts, f[p]).at /\ v[n].at = At(ts, f[q]).at /\ f[p] \in S /\ f[q] \in S
    BY <1>12, <1>16, <2>1, <2>2
  <2>4. v[m].at \in Nat /\ v[n].at \in Nat
    BY <1>9, <2>3
  <2>5. m \in Nat /\ n \in Nat
    BY <1>11
  <2>6. CASE m = n
    BY <2>4, <2>6
  <2>7. CASE m < n
    <3>1. Earlier(ts, f[p], f[q])
      BY <1>8, <1>12, <2>1, <2>2, <2>7
    <3>2. At(ts, f[p]).at < At(ts, f[q]).at \/ At(ts, f[p]).at = At(ts, f[q]).at
      BY <3>1, EarlierIs
    <3> QED
      BY <2>3, <2>4, <3>2
  <2> QED
    BY <1>18, <2>5, <2>6, <2>7
<1>19. Sorted(u)
  <2>1. u.seq = Len(v)
    BY DEF v
  <2> QED
    BY <1>11, <1>18, <2>1 DEF Sorted, v
<1> HIDE DEF who
<1>20. Recording(u, log, K, TRUE, c)
  BY <1>13, <1>14, <1>15, <1>16, <1>17, <1>19 DEF Recording, P, v, who
<1> QED
  BY <1>20 DEF Records

-----------------------------------------------------------------------------
(* What a view shows of a tracer *)

\* The events of a view, the steps it shows, and that one log carries what it shows of
\* another.
Seen(t, all) == {e \in Range(t.events) : e.src \notin DevScopes /\ (all \/ ~e.muted)}
Shown(log, k, all) == log[k].step.scope \notin DevScopes /\ (all \/ ~log[k].step.muted)
Carried(L, H, M, K, all) ==
  \A p \in Made(L, H) : Shown(L, StepOf(p), all) =>
    /\ p \in Made(M, K) /\ Shown(M, StepOf(p), all)
    /\ L[StepOf(p)].step.call.events[PlaceOf(p)] = M[StepOf(p)].step.call.events[PlaceOf(p)]

\* An event in a view is one that was made by a step the view shows.
SeenBy(t, log, H, b, all) ==
  /\ \A e \in Seen(t, all) : \E p \in Made(log, H) : e = t.events[b[p]] /\ Shown(log, StepOf(p), all)
  /\ \A p \in Made(log, H) : Shown(log, StepOf(p), all) => t.events[b[p]] \in Seen(t, all)

\* An event in a view is one that a step of the view has made, and the other way round.
LEMMA SeenIs ==
  ASSUME NEW t, NEW log, LogOK(log), NEW H \in SUBSET DOMAIN log, NEW own, NEW b, Recording(t, log, H, own, b),
         NEW all \in BOOLEAN
  PROVE  SeenBy(t, log, H, b, all)
<1>1. ASSUME NEW p \in Made(log, H)
      PROVE  /\ b[p] \in DOMAIN t.events /\ t.events[b[p]].src = log[StepOf(p)].step.scope
             /\ t.events[b[p]].muted = log[StepOf(p)].step.muted
  <2>1. b[p] \in DOMAIN t.events /\ t.events[b[p]] = Stamp(log, p, b[p], Author(log, StepOf(p), own))
    BY DEF Recording
  <2> QED
    BY <2>1, StampIs
<1>2. ASSUME NEW e \in Seen(t, all)
      PROVE  \E p \in Made(log, H) : e = t.events[b[p]] /\ Shown(log, StepOf(p), all)
  <2>1. PICK n \in DOMAIN t.events : e = t.events[n]
    BY DEF Seen, Range
  <2>2. PICK p \in Made(log, H) : b[p] = n
    BY DEF Recording
  <2>3. e = t.events[b[p]]
    BY <2>1, <2>2
  <2>4. e.src \notin DevScopes /\ (all \/ ~e.muted)
    BY DEF Seen
  <2>5. Shown(log, StepOf(p), all)
    BY <1>1, <2>3, <2>4 DEF Shown
  <2> QED
    BY <2>3, <2>5
<1>3. ASSUME NEW p \in Made(log, H), Shown(log, StepOf(p), all) PROVE t.events[b[p]] \in Seen(t, all)
  BY <1>1, <1>3 DEF Seen, Shown, Range
<1> QED
  BY <1>2, <1>3 DEF SeenBy

\* When a log carries what the view shows of another, its tracer mirrors the events,
\* however often each occurs and in whatever order.
LEMMA MirrorsIf ==
  ASSUME NEW t, NEW L, LogOK(L), NEW H \in SUBSET DOMAIN L, NEW own1, Records(t, L, H, own1),
         NEW u, NEW M, LogOK(M), NEW K \in SUBSET DOMAIN M, NEW own2, Records(u, M, K, own2),
         NEW all \in BOOLEAN, Carried(L, H, M, K, all)
  PROVE  Mirrors(Seen(t, all), Seen(u, all))
<1>1. PICK b : Recording(t, L, H, own1, b)
  BY DEF Records
<1>2. PICK c : Recording(u, M, K, own2, c)
  BY DEF Records
<1> DEFINE P == {p \in Made(L, H) : Shown(L, StepOf(p), all)}
           E == Seen(t, all)
           F == Seen(u, all)
           r == [e \in E |-> CHOOSE p \in P : e = t.events[b[p]]]
           m == [e \in E |-> u.events[c[r[e]]]]
<1>a. SeenBy(t, L, H, b, all) /\ SeenBy(u, M, K, c, all)
  BY <1>1, <1>2, SeenIs
<1>3. \A e \in E : \E p \in P : e = t.events[b[p]]
  BY <1>a DEF SeenBy
<1>4. \A e \in E : r[e] \in P /\ e = t.events[b[r[e]]]
  BY <1>3
<1>5. \A e \in E : m[e] = u.events[c[r[e]]]
  OBVIOUS
<1>6. \A p \in P : p \in Made(M, K) /\ u.events[c[p]] \in F
  <2>1. \A p \in P : p \in Made(M, K) /\ Shown(M, StepOf(p), all)
    BY DEF Carried
  <2>2. \A p \in Made(M, K) : Shown(M, StepOf(p), all) => u.events[c[p]] \in F
    BY <1>a DEF SeenBy
  <2> QED
    BY <2>1, <2>2
<1>7. ASSUME NEW p \in P PROVE Like(t.events[b[p]], u.events[c[p]])
  <2>1. t.events[b[p]] = Stamp(L, p, b[p], Author(L, StepOf(p), own1))
    BY <1>1 DEF Recording
  <2>2. u.events[c[p]] = Stamp(M, p, c[p], Author(M, StepOf(p), own2))
    BY <1>2, <1>6 DEF Recording
  <2>3. L[StepOf(p)].step.call.events[PlaceOf(p)] = M[StepOf(p)].step.call.events[PlaceOf(p)]
    BY DEF Carried
  <2> DEFINE x == t.events[b[p]]
             y == u.events[c[p]]
             e == L[StepOf(p)].step.call.events[PlaceOf(p)]
  <2>4. x.cat = e.cat /\ x.op = e.op /\ x.args = e.args /\ x.note = e.note
    BY <2>1, StampIs
  <2>5. y.cat = e.cat /\ y.op = e.op /\ y.args = e.args /\ y.note = e.note
    BY <2>2, <2>3, StampIs
  <2> HIDE DEF x, y, e
  <2>6. Like(x, y)
    BY <2>4, <2>5 DEF Like
  <2> QED
    BY <2>6 DEF x, y
<1>8. ASSUME NEW p \in P, NEW q \in P, u.events[c[p]] = u.events[c[q]] PROVE p = q
  <2>1. p \in Made(M, K) /\ q \in Made(M, K)
    BY <1>6
  <2>2. \A n \in DOMAIN u.events : u.events[n].seq = n
    BY <1>2, RecordedIs
  <2>3. c[p] \in DOMAIN u.events /\ c[q] \in DOMAIN u.events
    BY <1>2, <2>1 DEF Recording
  <2>4. c[p] = c[q]
    BY <1>8, <2>2, <2>3
  <2> QED
    BY <1>2, <2>1, <2>4 DEF Recording
<1> HIDE DEF P, E, F, r
<1>9. DOMAIN m = E /\ m = [e \in E |-> m[e]]
  OBVIOUS
<1> HIDE DEF m
<1>10. \A e \in E : m[e] \in F /\ Like(e, m[e])
  BY <1>4, <1>5, <1>6, <1>7
<1>11. \A d, e \in E : m[d] = m[e] => d = e
  BY <1>4, <1>5, <1>8
<1>12. m \in [E -> F] /\ IsInjective(m)
  BY <1>9, <1>10, <1>11 DEF IsInjective
<1>13. Mirror(E, F, m)
  BY <1>10, <1>12 DEF Mirror, Injection
<1> QED
  BY <1>13 DEF Mirrors, E, F

\* A view is finite, and so are the arguments of its events.
LEMMA SeenFinite ==
  ASSUME NEW t, NEW log, LogOK(log), NEW H \in SUBSET DOMAIN log, NEW own, Records(t, log, H, own), NEW all \in BOOLEAN
  PROVE  IsFiniteSet(Seen(t, all)) /\ \A cat : IsFiniteSet(Arguments(Seen(t, all), cat))
<1>1. PICK b : Recording(t, log, H, own, b)
  BY DEF Records
<1> DEFINE E == Seen(t, all)
<1>2. IsFiniteSet(E)
  <2>1. t.events \in Seq(Range(t.events))
    BY <1>1 DEF Recording, Sorted
  <2>2. IsFiniteSet(Range(t.events))
    BY <2>1, RangeFinite
  <2>3. E \in SUBSET Range(t.events)
    BY DEF Seen
  <2> HIDE DEF E
  <2> QED
    BY <2>2, <2>3, FS_Subset
<1>3. \A e \in E : e.args \in Seq(Items)
  <2> SUFFICES ASSUME NEW e \in E PROVE e.args \in Seq(Items)
      OBVIOUS
  <2>1. PICK p \in Made(log, H) : e = t.events[b[p]]
    <3>1. SeenBy(t, log, H, b, all)
      BY <1>1, SeenIs
    <3> QED
      BY <3>1 DEF SeenBy
  <2>2. e = Stamp(log, p, b[p], Author(log, StepOf(p), own))
    BY <1>1, <2>1 DEF Recording
  <2>3. e.args = log[StepOf(p)].step.call.events[PlaceOf(p)].args
    BY <2>2, StampIs
  <2>4. StepOf(p) \in DOMAIN log /\ PlaceOf(p) \in DOMAIN log[StepOf(p)].step.call.events
    BY MadeIs
  <2> DEFINE es == log[StepOf(p)].step.call.events
             j == PlaceOf(p)
  <2>5. EventsOK(es)
    BY <2>4 DEF LogOK, StepOK, CallOK
  <2> HIDE DEF es, j
  <2>6. EventOK(es[j])
    BY <2>4, <2>5 DEF EventsOK, Range, es, j
  <2> QED
    BY <2>3, <2>6 DEF EventOK, es, j
<1>4. ASSUME NEW cat PROVE IsFiniteSet(Arguments(E, cat))
  <2> DEFINE S == {e \in E : e.cat = cat}
             f == [e \in S |-> Range(e.args)]
             R == {f[e] : e \in DOMAIN f}
  <2>1. Arguments(E, cat) = UNION R /\ DOMAIN f = S /\ S \in SUBSET E
    BY DEF Arguments
  <2>2. \A e \in S : IsFiniteSet(f[e])
    BY <1>3, RangeFinite
  <2> HIDE DEF f, S
  <2>3. IsFiniteSet(S)
    BY <1>2, <2>1, FS_Subset
  <2>4. IsFiniteSet(R)
    BY <2>1, <2>3, ImageFinite
  <2>5. \A T \in R : IsFiniteSet(T)
    BY <2>1, <2>2
  <2> HIDE DEF R
  <2>6. IsFiniteSet(UNION R)
    BY <2>4, <2>5, FS_UNION
  <2> QED
    BY <2>1, <2>6
<1> QED
  BY <1>2, <1>4

-----------------------------------------------------------------------------
(* Two tracers and what they were told *)

\* A tracer in order.
Well(t, log, H, own, n) == LogOK(log) /\ H \in SUBSET DOMAIN log /\ Holds(t, log, H, n) /\ Records(t, log, H, own)

\* What the signatures read of a tracer.
LEMMA ContextIs ==
  ASSUME NEW t
  PROVE  /\ Context(t).intrinsic = Seen(t, TRUE) /\ Context(t).events = Seen(t, FALSE)
         /\ Context(t).ic = t.iocs /\ Context(t).mic = Mic(t)
         /\ Context(t).watched = t.watched /\ Context(t).tainted = t.tainted
BY DEF Context, Seen

\* The sets of a tracer.
LEMMA SetsAre == "iocs" \in Sets /\ "devIOCs" \in Sets /\ "mutedIOCs" \in Sets
BY DEF Sets

\* A tracer in order has finitely many indicators and events.
LEMMA WellIs ==
  ASSUME NEW t, NEW log, NEW H, NEW own, NEW n, Well(t, log, H, own, n)
  PROVE  /\ IsFiniteSet(t.iocs) /\ IsFiniteSet(Mic(t))
         /\ IsFiniteSet(Seen(t, TRUE)) /\ IsFiniteSet(Seen(t, FALSE))
         /\ \A cat : IsFiniteSet(Arguments(Seen(t, TRUE), cat))
<1>1. IsFiniteSet(t["iocs"]) /\ IsFiniteSet(t["mutedIOCs"])
  BY SetsAre DEF Well, Holds
<1>2. IsFiniteSet(t.iocs \cup t.mutedIOCs)
  BY <1>1, FS_Union
<1>3. /\ IsFiniteSet(Seen(t, TRUE)) /\ IsFiniteSet(Seen(t, FALSE))
      /\ \A cat : IsFiniteSet(Arguments(Seen(t, TRUE), cat))
  BY SeenFinite DEF Well
<1> QED
  BY <1>1, <1>2, <1>3 DEF Mic

\* A tracer told at least as much shows at least as much in the scored view,
LEMMA MoreScoredIf ==
  ASSUME NEW t, NEW L, NEW H, NEW own1, NEW n1, Well(t, L, H, own1, n1),
         NEW u, NEW M, NEW K, NEW own2, NEW n2, Well(u, M, K, own2, n2),
         Carried(L, H, M, K, FALSE), t.iocs \subseteq u.iocs
  PROVE  MoreScored(Context(t), Context(u))
<1>1. Mirrors(Seen(t, FALSE), Seen(u, FALSE))
  BY MirrorsIf DEF Well
<1>2. IsFiniteSet(u.iocs) /\ IsFiniteSet(Seen(u, FALSE))
  BY WellIs
<1> QED
  BY <1>1, <1>2, ContextIs DEF MoreScored

\* and in the intrinsic one.
LEMMA MoreIntrinsicIf ==
  ASSUME NEW t, NEW L, NEW H, NEW own1, NEW n1, Well(t, L, H, own1, n1),
         NEW u, NEW M, NEW K, NEW own2, NEW n2, Well(u, M, K, own2, n2),
         Carried(L, H, M, K, TRUE), Mic(t) \subseteq Mic(u), t.watched \subseteq u.watched, t.tainted \subseteq u.tainted
  PROVE  MoreIntrinsic(Context(t), Context(u))
<1>1. Mirrors(Seen(t, TRUE), Seen(u, TRUE))
  BY MirrorsIf DEF Well
<1>2. IsFiniteSet(Mic(u)) /\ IsFiniteSet(Seen(u, TRUE)) /\ \A cat : IsFiniteSet(Arguments(Seen(u, TRUE), cat))
  BY WellIs
<1> QED
  BY <1>1, <1>2, ContextIs DEF MoreIntrinsic

\* The reasons of a view follow the view.
LEMMA ScoredFollow ==
  ASSUME NEW t, NEW u, MoreScored(Context(t), Context(u))
  PROVE  Viewed(t, "scored") \subseteq Viewed(u, "scored")
<1> SUFFICES ASSUME NEW r \in Reasons(t), r.view = "scored" PROVE r \in Reasons(u)
    BY DEF Viewed
<1>1. More(r.view, Context(t), Context(u))
  BY DEF More
<1> QED
  BY <1>1, ReasonsGrow

\* The same of the intrinsic reasons,
LEMMA IntrinsicFollow ==
  ASSUME NEW t, NEW u, MoreIntrinsic(Context(t), Context(u))
  PROVE  Viewed(t, "intrinsic") \subseteq Viewed(u, "intrinsic")
<1> SUFFICES ASSUME NEW r \in Reasons(t), r.view = "intrinsic" PROVE r \in Reasons(u)
    BY DEF Viewed
<1>1. More(r.view, Context(t), Context(u))
  BY DEF More
<1> QED
  BY <1>1, ReasonsGrow

\* and of all of them.
LEMMA AllFollow ==
  ASSUME NEW t, IsFiniteSet(t.iocs), NEW u, MoreScored(Context(t), Context(u)), MoreIntrinsic(Context(t), Context(u))
  PROVE  Reasons(t) \subseteq Reasons(u)
<1> SUFFICES ASSUME NEW r \in Reasons(t) PROVE r \in Reasons(u)
    OBVIOUS
<1>1. r.view \in Views
  BY SoundReasons DEF Sound
<1>2. More(r.view, Context(t), Context(u))
  BY <1>1 DEF Views, More
<1> QED
  BY <1>2, ReasonsGrow

-----------------------------------------------------------------------------
(* One tracer that is told everything *)

\* The function inside Replay.
Again(log, g, k) == IF k = 0 THEN Fresh("main", Seeds) ELSE Take(g[k - 1], log[k].step, log[k].at)
IsReplay(log, g) == g = [k \in 0..Len(log) |-> IF k = 0 THEN Fresh("main", Seeds) ELSE Take(g[k - 1], log[k].step, log[k].at)]

\* Replay is the function its definition names.
LEMMA ReplayIs ==
  ASSUME NEW log
  PROVE  Replay(log) = (CHOOSE g : IsReplay(log, g))[Len(log)]
BY DEF Replay, IsReplay

\* The replay of a finite log is a function.
LEMMA ReplayExists ==
  ASSUME NEW log, Len(log) \in Nat
  PROVE  \E g : IsReplay(log, g)
<1> DEFINE n == Len(log)
           upto(g, m) == \A k \in 0..m : g[k] = Again(log, g, k)
           Q == {m \in 0..n : \E g : upto(g, m)}
<1>0. n \in Nat
  OBVIOUS
<1> HIDE DEF n
<1>1. 0 \in Q
  <2> DEFINE g == [k \in 0..0 |-> Fresh("main", Seeds)]
  <2>1. \A k \in 0..0 : k = 0 /\ g[k] = Fresh("main", Seeds)
    OBVIOUS
  <2>2. upto(g, 0)
    BY <2>1 DEF Again
  <2> QED
    BY <1>0, <2>2
<1>2. ASSUME NEW i \in 0..(n - 1), i \in Q PROVE i + 1 \in Q
  <2>1. PICK g : upto(g, i)
    BY <1>2
  <2> DEFINE h == [k \in 0..(i + 1) |-> IF k = i + 1 THEN Take(g[i], log[i + 1].step, log[i + 1].at) ELSE g[k]]
  <2>2. \A k \in 0..i : h[k] = g[k]
    BY <1>0
  <2>3. h[i + 1] = Take(g[i], log[i + 1].step, log[i + 1].at)
    BY <1>0
  <2> HIDE DEF h
  <2>4. ASSUME NEW k \in 0..(i + 1) PROVE h[k] = Again(log, h, k)
    <3>1. CASE k = 0
      BY <1>0, <2>1, <2>2, <3>1 DEF Again
    <3>2. CASE k \in 1..i
      <4>1. k - 1 \in 0..i /\ k \in 0..i /\ k # 0
        BY <1>0, <3>2
      <4>2. g[k] = Take(g[k - 1], log[k].step, log[k].at)
        BY <2>1, <4>1 DEF Again
      <4> QED
        BY <2>2, <4>1, <4>2 DEF Again
    <3>3. CASE k = i + 1
      <4>1. k - 1 = i /\ i \in 0..i /\ k # 0
        BY <1>0, <3>3
      <4> QED
        BY <2>2, <2>3, <3>3, <4>1 DEF Again
    <3> QED
      BY <1>0, <3>1, <3>2, <3>3
  <2>5. upto(h, i + 1) /\ i + 1 \in 0..n
    BY <1>0, <2>4
  <2> QED
    BY <2>5
<1>3. 0..n \subseteq Q
  <2> HIDE DEF Q
  <2> QED
    BY <1>0, <1>1, <1>2, UpTo
<1>4. PICK g : upto(g, n)
  BY <1>0, <1>3
<1> DEFINE h == [k \in 0..n |-> g[k]]
<1>5. ASSUME NEW k \in 0..n PROVE h[k] = Again(log, h, k)
  <2>1. k # 0 => k - 1 \in 0..n
    BY <1>0
  <2>2. h[k] = g[k] /\ (k # 0 => h[k - 1] = g[k - 1])
    BY <2>1
  <2> HIDE DEF h
  <2> QED
    BY <1>4, <2>2 DEF Again
<1>6. h = [k \in 0..n |-> h[k]]
  OBVIOUS
<1> HIDE DEF h
<1>7. h = [k \in 0..n |-> Again(log, h, k)]
  BY <1>5, <1>6
<1>8. IsReplay(log, h)
  BY <1>7 DEF IsReplay, Again, n
<1> QED
  BY <1>8

\* What the one tracer holds in the end.
LEMMA ReplayWell ==
  ASSUME NEW log, LogOK(log)
  PROVE  Well(Replay(log), log, DOMAIN log, FALSE, MaxIOC)
<1> DEFINE n == Len(log)
           g == CHOOSE h : IsReplay(log, h)
           inOrder(k) == Holds(g[k], log, 1..k, MaxIOC) /\ Records(g[k], log, 1..k, FALSE) /\ g[k].who = "main"
           Q == {k \in 0..n : inOrder(k)}
<1>1. n \in Nat /\ DOMAIN log = 1..n
  BY SeqTo DEF LogOK
<1>2. IsReplay(log, g)
  BY <1>1, ReplayExists
<1>3. Replay(log) = g[n]
  BY ReplayIs
<1> HIDE DEF n, g
<1>4. \A k \in 0..n : g[k] = Again(log, g, k)
  BY <1>2 DEF IsReplay, Again, n
<1>5. 0 \in Q
  <2>1. g[0] = Fresh("main", Seeds)
    BY <1>1, <1>4 DEF Again
  <2>2. 1..0 = {}
    OBVIOUS
  <2>3. Holds(g[0], log, 1..0, MaxIOC)
    BY <2>1, <2>2, FreshHolds, CapAssumption
  <2>4. Records(g[0], log, 1..0, FALSE)
    BY <2>1, <2>2, FreshRecords
  <2>5. g[0].who = "main"
    BY <2>1 DEF Fresh
  <2>6. inOrder(0)
    BY <2>3, <2>4, <2>5
  <2> HIDE DEF inOrder
  <2> QED
    BY <1>1, <2>6
<1>6. ASSUME NEW i \in 0..(n - 1), i \in Q PROVE i + 1 \in Q
  <2> DEFINE k == i + 1
             t == g[i]
             u == g[k]
             H == 1..i
             step == log[k].step
             at == log[k].at
  <2>1. k \in 0..n /\ k # 0 /\ k - 1 = i /\ k \in DOMAIN log
    BY <1>1
  <2>2. u = Take(t, step, at)
    BY <1>4, <2>1 DEF Again
  <2>3. Holds(t, log, H, MaxIOC) /\ Records(t, log, H, FALSE) /\ t.who = "main"
    BY <1>6
  <2>4. H \in SUBSET DOMAIN log /\ Before(H, k) /\ H \cup {k} = 1..k
    BY <1>1, <2>1 DEF Before
  <2>5. StepOK(step)
    BY <2>1 DEF LogOK
  <2>6. Shape(t)
    BY <2>3 DEF Holds
  <2>7. step = log[k].step /\ at = log[k].at
    OBVIOUS
  <2>8. t.who = Author(log, k, FALSE)
    BY <2>3 DEF Author
  <2> HIDE DEF k, t, u, H, step, at
  <2>9. Holds(u, log, H \cup {k}, MaxIOC)
    BY <2>2, <2>3, <2>5, <2>7, TakeHolds, CapAssumption
  <2>10. Records(u, log, H \cup {k}, FALSE)
    BY <2>1, <2>2, <2>3, <2>4, <2>6, <2>7, <2>8, TakeRecords
  <2>11. u.who = "main"
    BY <2>2, <2>3, <2>6, TakeIs
  <2>12. k \in 0..n /\ inOrder(k)
    BY <2>1, <2>4, <2>9, <2>10, <2>11 DEF u
  <2> QED
    BY <2>12 DEF k
<1>7. 0..n \subseteq Q
  <2> HIDE DEF Q
  <2> QED
    BY <1>1, <1>5, <1>6, UpTo
<1>8. inOrder(n)
  <2>1. n \in Q
    <3> HIDE DEF Q
    <3> QED
      BY <1>1, <1>7
  <2> HIDE DEF inOrder
  <2> QED
    BY <2>1
<1> QED
  BY <1>1, <1>3, <1>8 DEF Well

-----------------------------------------------------------------------------
(* The inductive invariant *)

\* Who makes a step, the log so far, and the parts of the invariant: the main tracer is
\* in order with respect to its own steps and, once the workers are merged, to all; each
\* worker with respect to its own.
Whos == {"main"} \cup W
Entered(x) == /\ x = [step |-> x.step, at |-> x.at, who |-> x.who]
              /\ x.at \in Nat /\ x.who \in Whos
              /\ \E s \in PlanStep : x.step = Step(s)
LogUpTo(log, t) ==
  /\ log \in Seq(Range(log))
  /\ \A k \in DOMAIN log : Entered(log[k]) /\ log[k].at <= t
  /\ \A j, k \in DOMAIN log : j <= k => log[j].at <= log[k].at
LogInv == LogUpTo(told, now)
PlanInv == plan \in [before : Seq(PlanStep), shard : [W -> Seq(PlanStep)], after : Seq(PlanStep)]
PhaseInv == phase \in {"load", "explore", "exit", "scored"} /\ now \in 0..MaxNow
Own(log, who) == {k \in DOMAIN log : log[k].who = who}
MainCap == IF phase \in {"load", "explore"} THEN MaxIOC ELSE MaxIOC * (1 + Len(Workers))
MainTold == IF phase \in {"load", "explore"} THEN Own(told, "main") ELSE DOMAIN told
MainInv == Well(main, told, MainTold, TRUE, MainCap) /\ main.who = "main"
ForkInv == IF phase = "explore"
           THEN /\ forked = [w \in W |-> forked[w]]
                /\ \A w \in W : Well(forked[w], told, Own(told, w), TRUE, MaxIOC) /\ forked[w].who = w
           ELSE DOMAIN forked = {}
LoadInv == phase = "load" => \A k \in DOMAIN told : told[k].who = "main"
IInv == PhaseInv /\ PlanInv /\ LogInv /\ MainInv /\ ForkInv /\ LoadInv

\* A step of a plan makes a well-formed call.
LEMMA StepIsOK ==
  ASSUME NEW s \in PlanStep
  PROVE  /\ StepOK(Step(s))
         /\ Step(s) = [call |-> Perform(s.do, s.quiet), scope |-> s.scope, muted |-> s.muted, do |-> s.do]
         /\ s.do \in DoType /\ s.quiet \in BOOLEAN
<1>1. s.do \in DoType /\ s.quiet \in BOOLEAN /\ s.muted \in BOOLEAN
  BY DEF PlanStep, DoType
<1>2. CallOK(Perform(s.do, s.quiet))
  BY <1>1, PerformIsOK
<1>3. Step(s) = [call |-> Perform(s.do, s.quiet), scope |-> s.scope, muted |-> s.muted, do |-> s.do]
  BY DEF Step
<1>4. Step(s).call = Perform(s.do, s.quiet) /\ Step(s).muted = s.muted
  BY <1>3
<1> QED
  BY <1>1, <1>2, <1>3, <1>4 DEF StepOK

\* A log of such steps is well-formed.
LEMMA IsLog ==
  ASSUME NEW log, NEW t, LogUpTo(log, t)
  PROVE  LogOK(log) /\ DOMAIN log = 1..Len(log) /\ Len(log) \in Nat
<1>1. \A k \in DOMAIN log : StepOK(log[k].step) /\ log[k].at \in Nat
  BY StepIsOK DEF LogUpTo, Entered
<1>2. DOMAIN log = 1..Len(log) /\ Len(log) \in Nat
  BY SeqTo DEF LogUpTo
<1> QED
  BY <1>1, <1>2 DEF LogUpTo, LogOK

\* One more entry.
Longer(log, m, x, n) ==
  /\ n = Len(log) + 1 /\ n \in Nat /\ n \notin DOMAIN log
  /\ m \in Seq(Range(m)) /\ Len(m) = n /\ DOMAIN m = DOMAIN log \cup {n} /\ DOMAIN m = 1..n
  /\ m[n] = x /\ \A k \in DOMAIN log : m[k] = log[k] /\ k < n

\* Appending makes it longer.
LEMMA AppendIs ==
  ASSUME NEW log, log \in Seq(Range(log)), NEW x, NEW m, m = Append(log, x)
  PROVE  Longer(log, m, x, Len(log) + 1)
<1> DEFINE S == Range(log) \cup {x}
           n == Len(log) + 1
<1>1. DOMAIN log = 1..Len(log) /\ Len(log) \in Nat /\ log \in [1..Len(log) -> Range(log)]
  BY SeqTo
<1>2. log \in Seq(S)
  <2> DEFINE l == Len(log)
             R == Range(log)
  <2>1. log \in [1..l -> R] /\ l \in Nat
    BY <1>1
  <2> HIDE DEF l, R
  <2>2. log \in [1..l -> R \cup {x}]
    BY <2>1
  <2>3. log \in Seq(R \cup {x})
    BY <2>1, <2>2, SeqFrom
  <2> QED
    BY <2>3 DEF R
<1> HIDE DEF S
<1>3. x \in S
  BY DEF S
<1>4. /\ m \in Seq(S) /\ Len(m) = Len(log) + 1 /\ m[Len(log) + 1] = x
      /\ \A k \in 1..Len(log) : m[k] = log[k]
  BY <1>2, <1>3, AppendProperties
<1>5. m \in [1..Len(m) -> S] /\ Len(m) \in Nat
  BY <1>4, SeqTo
<1>6. m \in Seq(Range(m))
  <2> DEFINE l == Len(m)
  <2>1. l \in Nat /\ DOMAIN m = 1..l /\ m = [k \in 1..l |-> m[k]]
    BY <1>5
  <2> HIDE DEF l
  <2>2. m \in [1..l -> Range(m)]
    BY <2>1, RangeOf
  <2> QED
    BY <2>1, <2>2, SeqFrom
<1> QED
  BY <1>1, <1>4, <1>5, <1>6 DEF Longer

\* The initial states.
LEMMA InitIInv == ASSUME Init PROVE IInv
<1>1. told = <<>> /\ now = 0 /\ phase = "load" /\ forked = <<>> /\ main = Fresh("main", Seeds)
  BY DEF Init
<1>2. PlanInv
  BY PlanAssumption DEF Init, PlanInv
<1>3. PhaseInv
  BY <1>1, ClockAssumption DEF PhaseInv
<1>4. DOMAIN told = {} /\ DOMAIN forked = {} /\ told \in Seq(Range(told))
  BY <1>1 DEF Range
<1>5. LogInv
  BY <1>4 DEF LogInv, LogUpTo
<1>6. MainInv
  <2>1. MainTold = {} /\ MainCap = MaxIOC
    BY <1>1, <1>4 DEF MainTold, MainCap, Own
  <2>2. Well(main, told, {}, TRUE, MaxIOC)
    BY <1>1, <1>5, FreshHolds, FreshRecords, IsLog, CapAssumption DEF Well, LogInv
  <2>3. main.who = "main"
    BY <1>1 DEF Fresh
  <2> QED
    BY <2>1, <2>2, <2>3 DEF MainInv
<1>7. ForkInv /\ LoadInv
  BY <1>1, <1>4 DEF ForkInv, LoadInv
<1> QED
  BY <1>2, <1>3, <1>5, <1>6, <1>7 DEF IInv

\* Entering a step keeps the log in order.
Extended(log, m, t, n, s, who) ==
  /\ LogUpTo(m, t) /\ n \in Nat /\ n \notin DOMAIN log /\ DOMAIN m = DOMAIN log \cup {n}
  /\ m[n].step = Step(s) /\ m[n].at = t /\ m[n].who = who
  /\ \A k \in DOMAIN log : m[k] = log[k] /\ k < n

\* So it does when the plan hands over a step.
LEMMA Enters ==
  ASSUME NEW log, NEW t \in Nat, LogUpTo(log, t), NEW s \in PlanStep, NEW who \in Whos,
         NEW m, m = Append(log, [step |-> Step(s), at |-> t, who |-> who]), NEW n, n = Len(log) + 1
  PROVE  Extended(log, m, t, n, s, who)
<1> DEFINE x == [step |-> Step(s), at |-> t, who |-> who]
<1>1. /\ x = [step |-> x.step, at |-> x.at, who |-> x.who] /\ x.step = Step(s) /\ x.at = t /\ x.who = who
  OBVIOUS
<1>2. m = Append(log, x)
  OBVIOUS
<1> HIDE DEF x
<1>3. log \in Seq(Range(log)) /\ (\A k \in DOMAIN log : Entered(log[k]) /\ log[k].at <= t)
      /\ \A j, k \in DOMAIN log : j <= k => log[j].at <= log[k].at
  BY DEF LogUpTo
<1>4. Longer(log, m, x, n)
  BY <1>2, <1>3, AppendIs
<1>5. Entered(x)
  BY <1>1 DEF Entered
<1>6. /\ n \in Nat /\ n \notin DOMAIN log /\ m \in Seq(Range(m)) /\ DOMAIN m = DOMAIN log \cup {n} /\ m[n] = x
      /\ DOMAIN m = 1..n /\ \A k \in DOMAIN log : m[k] = log[k] /\ k < n
  BY <1>4 DEF Longer
<1>7. \A k \in DOMAIN m : Entered(m[k]) /\ m[k].at <= t
  BY <1>1, <1>3, <1>5, <1>6
<1>8. ASSUME NEW j \in DOMAIN m, NEW k \in DOMAIN m, j <= k PROVE m[j].at <= m[k].at
  <2>1. CASE k = n
    BY <1>1, <1>6, <1>7, <2>1
  <2>2. CASE k # n
    <3>1. k \in DOMAIN log /\ k < n
      BY <1>6, <2>2
    <3>2. j \in DOMAIN log
      BY <1>6, <1>8, <3>1
    <3> QED
      BY <1>3, <1>6, <1>8, <3>1, <3>2
  <2> QED
    BY <2>1, <2>2
<1>9. LogUpTo(m, t)
  BY <1>6, <1>7, <1>8 DEF LogUpTo
<1> QED
  BY <1>1, <1>6, <1>9 DEF Extended

\* A tracer told one more step, and one told none.
Grown(log, m, n) == LogOK(m) /\ n \in DOMAIN m /\ \A k \in DOMAIN log : m[k] = log[k] /\ k < n /\ k \in DOMAIN m

\* A tracer stays in order as the log grows,
LEMMA WellOn ==
  ASSUME NEW t, NEW log, NEW H, NEW own, NEW c, Well(t, log, H, own, c), NEW m, NEW n, Grown(log, m, n)
  PROVE  Well(t, m, H, own, c)
<1>1. LogOK(log) /\ H \in SUBSET DOMAIN log /\ Holds(t, log, H, c) /\ Records(t, log, H, own)
  BY DEF Well
<1>2. \A k \in H : m[k] = log[k]
  BY <1>1 DEF Grown
<1>3. H \in SUBSET DOMAIN m /\ LogOK(m)
  BY <1>1 DEF Grown
<1>4. Holds(t, m, H, c)
  BY <1>1, <1>2, HoldsOn
<1>5. Records(t, m, H, own)
  BY <1>1, <1>2, RecordsOn
<1> QED
  BY <1>3, <1>4, <1>5 DEF Well
Advanced(t, u, m, H, n, c) ==
  Well(u, m, H \cup {n}, TRUE, c) /\ u.who = t.who /\ \A s \in Sets : t[s] \subseteq u[s]

\* and when it takes the latest step.
LEMMA WellTaken ==
  ASSUME NEW t, NEW log, NEW H, NEW c \in Nat, Well(t, log, H, TRUE, c), MaxIOC <= c, NEW m, NEW n, Grown(log, m, n),
         t.who = m[n].who, NEW u, u = Take(t, m[n].step, m[n].at)
  PROVE  Advanced(t, u, m, H, n, c)
<1>1. Well(t, m, H, TRUE, c)
  BY WellOn
<1>2. LogOK(m) /\ H \in SUBSET DOMAIN m /\ Holds(t, m, H, c) /\ Records(t, m, H, TRUE) /\ Shape(t)
  BY <1>1 DEF Well, Holds
<1>3. n \in DOMAIN m /\ Before(H, n)
  BY DEF Grown, Before, Well
<1>4. StepOK(m[n].step)
  BY <1>2, <1>3 DEF LogOK
<1>5. t.who = Author(m, n, TRUE)
  BY DEF Author
<1> DEFINE step == m[n].step
           at == m[n].at
<1>6. step = m[n].step /\ at = m[n].at /\ u = Take(t, step, at) /\ StepOK(step)
  BY <1>4
<1>7. Holds(u, m, H \cup {n}, c) /\ \A s \in Sets : t[s] \subseteq u[s]
  <2>1. Holds(t, m, H, c) /\ StepOK(m[n].step) /\ u = Take(t, m[n].step, m[n].at) /\ c \in Nat /\ MaxIOC <= c
    BY <1>2, <1>4
  <2> HIDE DEF step, at
  <2>2. Holds(u, m, H \cup {n}, c)
    BY <2>1, TakeHolds
  <2>3. \A s \in Sets : t[s] \subseteq u[s]
    BY <2>1, TakeHolds
  <2> QED
    BY <2>2, <2>3
<1> HIDE DEF step, at
<1>8. Records(u, m, H \cup {n}, TRUE)
  BY <1>2, <1>3, <1>5, <1>6, TakeRecords
<1>9. u.who = t.who
  BY <1>2, <1>6, TakeIs
<1> QED
  BY <1>2, <1>3, <1>7, <1>8, <1>9 DEF Well, Advanced

-----------------------------------------------------------------------------
(* The steps *)

\* The caps before and after the merge.
LEMMA Caps == MaxIOC \in Nat /\ MaxIOC * (1 + Len(Workers)) \in Nat /\ MaxIOC <= MaxIOC * (1 + Len(Workers)) /\ Len(Workers) \in Nat
<1>1. Len(Workers) \in Nat
  BY WorkerAssumption, SeqTo
<1> QED
  BY <1>1, CapIsBelow, CapAssumption

\* The new step is its author's and nobody else's.
LEMMA OwnGrows ==
  ASSUME NEW log, NEW m, NEW n, n \notin DOMAIN log, DOMAIN m = DOMAIN log \cup {n}, \A k \in DOMAIN log : m[k] = log[k]
  PROVE  \A who : Own(m, who) = IF m[n].who = who THEN Own(log, who) \cup {n} ELSE Own(log, who)
BY DEF Own

\* More has been told: the tracer t of the steps H, and the tracer u of the steps K of a longer log.
Rises(t, u) == Kept(Reasons(t), Reasons(u)) /\ Score(Reasons(t)) <= Score(Reasons(u))
ToldMore(t, log, H, u, m, K) ==
  /\ H \subseteq K /\ (\A k \in H : m[k] = log[k]) /\ \A s \in Sets : t[s] \subseteq u[s]

\* A longer log carries all that a shorter one shows.
LEMMA CarriedOn ==
  ASSUME NEW L, LogOK(L), NEW H \in SUBSET DOMAIN L, NEW M, LogOK(M), NEW K \in SUBSET DOMAIN M,
         H \subseteq K, \A k \in H : M[k] = L[k], NEW all \in BOOLEAN
  PROVE  Carried(L, H, M, K, all)
<1> SUFFICES ASSUME NEW p \in Made(L, H), Shown(L, StepOf(p), all)
             PROVE  /\ p \in Made(M, K) /\ Shown(M, StepOf(p), all)
                    /\ L[StepOf(p)].step.call.events[PlaceOf(p)] = M[StepOf(p)].step.call.events[PlaceOf(p)]
    BY DEF Carried
<1>1. p = <<StepOf(p), PlaceOf(p)>> /\ StepOf(p) \in H /\ PlaceOf(p) \in DOMAIN L[StepOf(p)].step.call.events
  BY MadeIs
<1>2. M[StepOf(p)] = L[StepOf(p)] /\ StepOf(p) \in K
  BY <1>1
<1>3. <<StepOf(p), PlaceOf(p)>> \in Made(M, K)
  BY <1>1, <1>2, MadeIs
<1> QED
  BY <1>1, <1>2, <1>3 DEF Shown

\* So reasons and score do not fall.
LEMMA Rising ==
  ASSUME NEW t, NEW log, NEW H, NEW own1, NEW c, Well(t, log, H, own1, c),
         NEW u, NEW m, NEW K, NEW own2, NEW d, Well(u, m, K, own2, d), ToldMore(t, log, H, u, m, K)
  PROVE  Rises(t, u)
<1>1. /\ LogOK(log) /\ LogOK(m) /\ H \in SUBSET DOMAIN log /\ K \in SUBSET DOMAIN m
      /\ Holds(t, log, H, c) /\ Holds(u, m, K, d)
  BY DEF Well
<1>2. H \subseteq K /\ \A k \in H : m[k] = log[k]
  BY DEF ToldMore
<1>3. Carried(log, H, m, K, TRUE) /\ Carried(log, H, m, K, FALSE)
  BY <1>1, <1>2, CarriedOn
<1>4. t["iocs"] \subseteq u["iocs"] /\ t["mutedIOCs"] \subseteq u["mutedIOCs"]
  BY SetsAre DEF ToldMore
<1>5. t.iocs \subseteq u.iocs /\ Mic(t) \subseteq Mic(u)
  BY <1>4 DEF Mic
<1>6. t.watched \subseteq u.watched /\ t.tainted \subseteq u.tainted
  BY <1>1, <1>2 DEF Holds
<1>7. MoreScored(Context(t), Context(u))
  BY <1>3, <1>5, MoreScoredIf
<1>8. MoreIntrinsic(Context(t), Context(u))
  BY <1>3, <1>5, <1>6, MoreIntrinsicIf
<1>9. IsFiniteSet(t.iocs) /\ IsFiniteSet(u.iocs)
  BY WellIs
<1>10. Reasons(t) \subseteq Reasons(u)
  BY <1>7, <1>8, <1>9, AllFollow
<1>11. Weighed(Reasons(u))
  BY <1>9, SoundReasons
<1>12. Score(Reasons(t)) <= Score(Reasons(u))
  BY <1>10, <1>11, ScoreGrows
<1> QED
  BY <1>10, <1>12 DEF Rises, Kept

\* A step of the main runtime keeps every part but the plan.
LEMMA RunInv ==
  ASSUME IInv, NEW s \in PlanStep, Run(s), phase \in {"load", "exit"}
  PROVE  PhaseInv' /\ LogInv' /\ MainInv' /\ ForkInv' /\ LoadInv' /\ Rises(main, main')
<1> DEFINE n == Len(told) + 1
           m == told'
<1>1. /\ main' = Take(main, Step(s), now) /\ m = Append(told, [step |-> Step(s), at |-> now, who |-> "main"])
      /\ forked' = forked /\ phase' = phase /\ now' = now
  BY DEF Run, Log
<1>2. LogUpTo(told, now) /\ now \in Nat /\ "main" \in Whos
  BY DEF IInv, LogInv, PhaseInv, Whos
<1>3. /\ LogUpTo(m, now) /\ n \in Nat /\ n \notin DOMAIN told /\ DOMAIN m = DOMAIN told \cup {n}
      /\ m[n].step = Step(s) /\ m[n].at = now /\ m[n].who = "main"
      /\ \A k \in DOMAIN told : m[k] = told[k] /\ k < n
  <2>1. n = Len(told) + 1
    OBVIOUS
  <2>2. m = Append(told, [step |-> Step(s), at |-> now, who |-> "main"])
    BY <1>1
  <2> HIDE DEF n, m
  <2>3. Extended(told, m, now, n, s, "main")
    BY <1>2, <2>1, <2>2, Enters
  <2> QED
    BY <2>3 DEF Extended
<1> HIDE DEF n, m
<1>4. LogOK(m)
  BY <1>3, IsLog
<1>5. Grown(told, m, n)
  BY <1>3, <1>4 DEF Grown
<1>6. Well(main, told, MainTold, TRUE, MainCap) /\ main.who = "main" /\ MainCap \in Nat /\ MaxIOC <= MainCap
  <2>1. Well(main, told, MainTold, TRUE, MainCap) /\ main.who = "main"
    BY DEF IInv, MainInv
  <2>2. MainCap \in Nat /\ MaxIOC <= MainCap
    BY Caps DEF MainCap
  <2> QED
    BY <2>1, <2>2
<1>7. main' = Take(main, m[n].step, m[n].at) /\ main.who = m[n].who
  BY <1>1, <1>3, <1>6
<1>8. Well(main', m, MainTold \cup {n}, TRUE, MainCap) /\ main'.who = main.who /\ \A s2 \in Sets : main[s2] \subseteq main'[s2]
  <2> DEFINE H == MainTold
             c == MainCap
             u == main'
  <2>1. /\ Well(main, told, H, TRUE, c) /\ c \in Nat /\ MaxIOC <= c /\ Grown(told, m, n) /\ main.who = m[n].who
        /\ u = Take(main, m[n].step, m[n].at)
    BY <1>5, <1>6, <1>7
  <2> HIDE DEF H, c, u
  <2>2. Advanced(main, u, m, H, n, c)
    BY <2>1, WellTaken
  <2> QED
    BY <2>2 DEF Advanced, H, c, u
<1>9. MainTold' = MainTold \cup {n} /\ MainCap' = MainCap
  <2>1. Own(m, "main") = Own(told, "main") \cup {n}
    BY <1>3, OwnGrows
  <2> QED
    BY <1>1, <1>3, <2>1 DEF MainTold, MainCap, m
<1>10. MainInv'
  BY <1>6, <1>8, <1>9 DEF MainInv, m
<1>11. LogInv' /\ PhaseInv'
  BY <1>1, <1>3 DEF LogInv, PhaseInv, IInv, m
<1>12. ForkInv'
  BY <1>1 DEF ForkInv, IInv
<1>13. LoadInv'
  BY <1>1, <1>3 DEF LoadInv, IInv, m
<1>14. Rises(main, main')
  <2> DEFINE H == MainTold
             u == main'
             K == H \cup {n}
             c == MainCap
  <2>1. Well(main, told, H, TRUE, c) /\ Well(u, m, K, TRUE, c)
    BY <1>6, <1>8
  <2>2. H \subseteq DOMAIN told
    BY <1>6 DEF Well
  <2>3. \A k \in DOMAIN told : m[k] = told[k]
    BY <1>3
  <2>4. \A s2 \in Sets : main[s2] \subseteq u[s2]
    BY <1>8
  <2>5. H \subseteq K
    OBVIOUS
  <2> HIDE DEF H, u, K, c
  <2>6. ToldMore(main, told, H, u, m, K)
    BY <2>2, <2>3, <2>4, <2>5 DEF ToldMore
  <2>7. Rises(main, u)
    BY <2>1, <2>6, Rising
  <2> QED
    BY <2>7 DEF u
<1> QED
  BY <1>10, <1>11, <1>12, <1>13, <1>14

\* The head and the tail of a part of a plan.
LEMMA PartsOfPlan ==
  ASSUME NEW q \in Seq(PlanStep), q # <<>>
  PROVE  Head(q) \in PlanStep /\ Tail(q) \in Seq(PlanStep)
OBVIOUS

\* The main runtime.
LEMMA MainStep ==
  ASSUME IInv, Main
  PROVE  IInv' /\ Rises(main, main')
<1>1. plan \in [before : Seq(PlanStep), shard : [W -> Seq(PlanStep)], after : Seq(PlanStep)]
  BY DEF IInv, PlanInv
<1>2. CASE /\ phase = "load" /\ plan.before # <<>> /\ Run(Head(plan.before))
           /\ plan' = [plan EXCEPT !.before = Tail(@)]
  <2>1. Head(plan.before) \in PlanStep /\ Tail(plan.before) \in Seq(PlanStep)
    BY <1>1, <1>2, PartsOfPlan
  <2>2. PlanInv'
    BY <1>1, <1>2, <2>1 DEF PlanInv
  <2> QED
    BY <1>2, <2>1, <2>2, RunInv DEF IInv
<1>3. CASE /\ phase = "exit" /\ plan.after # <<>> /\ Run(Head(plan.after))
           /\ plan' = [plan EXCEPT !.after = Tail(@)]
  <2>1. Head(plan.after) \in PlanStep /\ Tail(plan.after) \in Seq(PlanStep)
    BY <1>1, <1>3, PartsOfPlan
  <2>2. PlanInv'
    BY <1>1, <1>3, <2>1 DEF PlanInv
  <2> QED
    BY <1>3, <2>1, <2>2, RunInv DEF IInv
<1> QED
  BY <1>2, <1>3 DEF Main

\* The fork: fresh workers that were told nothing.
LEMMA ForkStep ==
  ASSUME IInv, Fork
  PROVE  IInv'
<1>1. /\ phase = "load" /\ phase' = "explore" /\ plan' = plan /\ main' = main /\ now' = now /\ told' = told
      /\ forked' = [w \in W |-> Fresh(w, Seeds)]
  BY DEF Fork
<1>2. PhaseInv' /\ PlanInv' /\ LogInv' /\ LoadInv'
  BY <1>1 DEF IInv, PhaseInv, PlanInv, LogInv, LoadInv
<1>3. MainInv'
  <2>1. MainTold' = MainTold /\ MainCap' = MainCap
    BY <1>1 DEF MainTold, MainCap
  <2> QED
    BY <1>1, <2>1 DEF IInv, MainInv
<1>4. ASSUME NEW w \in W PROVE Well(forked'[w], told, Own(told, w), TRUE, MaxIOC) /\ forked'[w].who = w
  <2>1. forked'[w] = Fresh(w, Seeds)
    BY <1>1
  <2>2. Own(told, w) = {}
    BY <1>1, WorkerAssumption DEF IInv, LoadInv, Own
  <2>3. LogOK(told)
    BY IsLog DEF IInv, LogInv
  <2>4. Holds(Fresh(w, Seeds), told, {}, MaxIOC) /\ Records(Fresh(w, Seeds), told, {}, TRUE)
    BY FreshHolds, FreshRecords, CapAssumption
  <2>5. Well(Fresh(w, Seeds), told, {}, TRUE, MaxIOC)
    BY <2>3, <2>4 DEF Well
  <2>6. Fresh(w, Seeds).who = w
    BY DEF Fresh
  <2> QED
    BY <2>1, <2>2, <2>5, <2>6
<1>5. ForkInv'
  <2>1. forked' = [w \in W |-> forked'[w]]
    BY <1>1
  <2> QED
    BY <1>1, <1>4, <2>1 DEF ForkInv
<1> QED
  BY <1>2, <1>3, <1>5 DEF IInv

\* A worker takes a step of its shard; the others are untouched.
LEMMA WorkStep ==
  ASSUME IInv, NEW w \in W, Work(w)
  PROVE  IInv'
<1> DEFINE s == Head(plan.shard[w])
           n == Len(told) + 1
           m == told'
           f == forked'
<1>1. /\ phase = "explore" /\ phase' = phase /\ main' = main /\ now' = now /\ plan.shard[w] # <<>>
      /\ f = [forked EXCEPT ![w] = Take(@, Step(s), now)]
      /\ m = Append(told, [step |-> Step(s), at |-> now, who |-> w])
      /\ plan' = [plan EXCEPT !.shard[w] = Tail(@)]
  BY DEF Work, Log
<1>2. plan \in [before : Seq(PlanStep), shard : [W -> Seq(PlanStep)], after : Seq(PlanStep)]
  BY DEF IInv, PlanInv
<1>3. s \in PlanStep /\ Tail(plan.shard[w]) \in Seq(PlanStep)
  BY <1>1, <1>2, PartsOfPlan
<1>4. PlanInv'
  BY <1>1, <1>2, <1>3 DEF PlanInv
<1> HIDE DEF s
<1>5. LogUpTo(told, now) /\ now \in Nat /\ w \in Whos /\ n = Len(told) + 1 /\ w # "main"
  BY WorkerAssumption DEF IInv, LogInv, PhaseInv, Whos
<1>6. m = Append(told, [step |-> Step(s), at |-> now, who |-> w])
  BY <1>1
<1> HIDE DEF n, m, f
<1>7. Extended(told, m, now, n, s, w)
  BY <1>3, <1>5, <1>6, Enters
<1>8. /\ LogUpTo(m, now) /\ n \in Nat /\ n \notin DOMAIN told /\ DOMAIN m = DOMAIN told \cup {n}
      /\ m[n].step = Step(s) /\ m[n].at = now /\ m[n].who = w
      /\ \A k \in DOMAIN told : m[k] = told[k] /\ k < n
  BY <1>7 DEF Extended
<1>9. LogOK(m)
  BY <1>8, IsLog
<1>10. Grown(told, m, n)
  BY <1>8, <1>9 DEF Grown
<1>11. \A v : Own(m, v) = IF w = v THEN Own(told, v) \cup {n} ELSE Own(told, v)
  BY <1>8, OwnGrows
<1>12. /\ forked = [v \in W |-> forked[v]]
       /\ \A v \in W : Well(forked[v], told, Own(told, v), TRUE, MaxIOC) /\ forked[v].who = v
  BY <1>1 DEF IInv, ForkInv
<1>13. f = [v \in W |-> f[v]] /\ f[w] = Take(forked[w], m[n].step, m[n].at) /\ \A v \in W : v # w => f[v] = forked[v]
  BY <1>1, <1>8, <1>12
<1>14. Well(f[w], m, Own(m, w), TRUE, MaxIOC) /\ f[w].who = w
  <2> DEFINE t == forked[w]
             H == Own(told, w)
             u == f[w]
  <2>1. Well(t, told, H, TRUE, MaxIOC) /\ t.who = w /\ u = Take(t, m[n].step, m[n].at)
    BY <1>12, <1>13
  <2>4. t.who = m[n].who /\ MaxIOC \in Nat /\ MaxIOC <= MaxIOC
    BY <1>8, <2>1, CapAssumption
  <2> HIDE DEF t, H, u
  <2>2. Advanced(t, u, m, H, n, MaxIOC)
    BY <1>10, <2>1, <2>4, WellTaken
  <2>3. Own(m, w) = H \cup {n}
    BY <1>11 DEF H
  <2> QED
    BY <2>1, <2>2, <2>3 DEF Advanced, u
<1>15. ASSUME NEW v \in W, v # w PROVE Well(f[v], m, Own(m, v), TRUE, MaxIOC) /\ f[v].who = v
  <2>1. Well(forked[v], told, Own(told, v), TRUE, MaxIOC)
    BY <1>12
  <2>2. Well(forked[v], m, Own(told, v), TRUE, MaxIOC)
    BY <1>10, <2>1, WellOn
  <2> QED
    BY <1>11, <1>12, <1>13, <1>15, <2>2
<1>16. ForkInv'
  BY <1>1, <1>13, <1>14, <1>15 DEF ForkInv, f, m
<1>17. MainInv'
  <2>1. Well(main, told, MainTold, TRUE, MainCap) /\ main.who = "main"
    BY DEF IInv, MainInv
  <2>2. Well(main, m, MainTold, TRUE, MainCap)
    BY <1>10, <2>1, WellOn
  <2>3. Own(m, "main") = Own(told, "main")
    BY <1>5, <1>11
  <2>4. MainTold' = MainTold /\ MainCap' = MainCap
    BY <1>1, <2>3 DEF MainTold, MainCap, m
  <2> QED
    BY <1>1, <2>1, <2>2, <2>4 DEF MainInv, m
<1>18. PhaseInv' /\ LogInv' /\ LoadInv'
  BY <1>1, <1>8 DEF IInv, PhaseInv, LogInv, LoadInv, m
<1> QED
  BY <1>4, <1>16, <1>17, <1>18 DEF IInv

\* Time passes.
LEMMA TickStep ==
  ASSUME IInv, Tick
  PROVE  IInv'
<1>1. /\ phase = "explore" /\ phase' = phase /\ now < MaxNow /\ now' = now + 1
      /\ plan' = plan /\ main' = main /\ forked' = forked /\ told' = told
  BY DEF Tick
<1>2. PhaseInv' /\ PlanInv' /\ LoadInv'
  BY <1>1, ClockAssumption DEF IInv, PhaseInv, PlanInv, LoadInv
<1>3. LogInv'
  <2>1. LogUpTo(told, now) /\ now \in Nat
    BY DEF IInv, LogInv, PhaseInv
  <2>2. \A k \in DOMAIN told : Entered(told[k]) /\ told[k].at \in Nat /\ told[k].at <= now
    BY <2>1 DEF LogUpTo, Entered
  <2>3. LogUpTo(told, now + 1)
    BY <2>1, <2>2 DEF LogUpTo
  <2> QED
    BY <1>1, <2>3 DEF LogInv
<1>4. MainInv'
  BY <1>1 DEF IInv, MainInv, MainTold, MainCap
<1>5. ForkInv'
  BY <1>1 DEF IInv, ForkInv
<1> QED
  BY <1>2, <1>3, <1>4, <1>5 DEF IInv

\* The verdict is drawn.
LEMMA Score1Step ==
  ASSUME IInv, Score1
  PROVE  IInv'
<1>1. /\ phase = "exit" /\ phase' = "scored"
      /\ plan' = plan /\ main' = main /\ forked' = forked /\ told' = told /\ now' = now
  BY DEF Score1
<1>2. PhaseInv' /\ PlanInv' /\ LoadInv' /\ LogInv'
  BY <1>1 DEF IInv, PhaseInv, PlanInv, LoadInv, LogInv
<1>3. MainInv'
  BY <1>1 DEF IInv, MainInv, MainTold, MainCap
<1>4. ForkInv'
  BY <1>1 DEF IInv, ForkInv
<1> QED
  BY <1>2, <1>3, <1>4 DEF IInv

\* A step that changes nothing.
LEMMA Stutter ==
  ASSUME IInv, UNCHANGED vars
  PROVE  IInv'
<1>1. phase' = phase /\ plan' = plan /\ main' = main /\ forked' = forked /\ told' = told /\ now' = now
  BY DEF vars
<1>2. PhaseInv' /\ PlanInv' /\ LoadInv' /\ LogInv'
  BY <1>1 DEF IInv, PhaseInv, PlanInv, LoadInv, LogInv
<1>3. MainInv'
  BY <1>1 DEF IInv, MainInv, MainTold, MainCap
<1>4. ForkInv'
  BY <1>1 DEF IInv, ForkInv
<1> QED
  BY <1>2, <1>3, <1>4 DEF IInv

-----------------------------------------------------------------------------
(* The merge *)

\* The tracers that Join merges, and the steps each was told.
Gathered(ws, ts, Hs, Ws) ==
  /\ ws \in Seq(Range(ws)) /\ Len(ws) = Len(Workers) /\ DOMAIN ws = 1..Len(Workers) /\ HoldAll(ws, told, Ws)
  /\ ts = <<main>> \o ws /\ TracersOK(ts) /\ Apart(ts, told, Hs) /\ RecordAll(ts, told, Hs)
  /\ DOMAIN told = All(ts, Hs) /\ DOMAIN told = Own(told, "main") \cup All(ws, Ws)

\* The workers, each with a place of its own in the merge.
LEMMA WorkersAre ==
  /\ Workers \in [1..Len(Workers) -> W] /\ DOMAIN Workers = 1..Len(Workers) /\ Len(Workers) \in Nat
  /\ \A j, k \in DOMAIN Workers : Workers[j] = Workers[k] => j = k
  /\ \A w \in W : \E k \in DOMAIN Workers : Workers[k] = w
  /\ "main" \notin W
<1>1. Workers \in [1..Len(Workers) -> W] /\ Len(Workers) \in Nat
  BY WorkerAssumption, SeqTo
<1>2. \A j, k \in DOMAIN Workers : Workers[j] = Workers[k] => j = k
  BY WorkerAssumption DEF IsInjective
<1> QED
  BY <1>1, <1>2, WorkerAssumption DEF W, Range

\* The name of the tracer in a place of the merge.
NameOf(k) == IF k = 1 THEN "main" ELSE Workers[k - 1]

\* The tracers of the merge have different names, and every runtime is among them.
LEMMA NamesDiffer ==
  /\ \A j, k \in 1..(1 + Len(Workers)) : NameOf(j) = NameOf(k) => j = k
  /\ \A k \in 1..(1 + Len(Workers)) : NameOf(k) \in Whos
  /\ \A x \in Whos : \E k \in 1..(1 + Len(Workers)) : NameOf(k) = x
  /\ NameOf(1) = "main" /\ \A k \in 1..Len(Workers) : NameOf(k + 1) = Workers[k]
<1>1. \A k \in 1..(1 + Len(Workers)) : k # 1 => k - 1 \in DOMAIN Workers /\ Workers[k - 1] \in W
  BY WorkersAre
<1>2. \A j, k \in 1..(1 + Len(Workers)) : NameOf(j) = NameOf(k) => j = k
  <2> SUFFICES ASSUME NEW j \in 1..(1 + Len(Workers)), NEW k \in 1..(1 + Len(Workers)), NameOf(j) = NameOf(k) PROVE j = k
      OBVIOUS
  <2>1. CASE j = 1 \/ k = 1
    BY <1>1, <2>1, WorkersAre DEF NameOf
  <2>2. CASE j # 1 /\ k # 1
    <3>1. j - 1 = k - 1
      BY <1>1, <2>2, WorkersAre DEF NameOf
    <3> QED
      BY <3>1, WorkersAre
  <2> QED
    BY <2>1, <2>2
<1>3. \A k \in 1..(1 + Len(Workers)) : NameOf(k) \in Whos
  BY <1>1 DEF NameOf, Whos
<1>4. NameOf(1) = "main" /\ \A k \in 1..Len(Workers) : NameOf(k + 1) = Workers[k]
  BY WorkersAre DEF NameOf
<1>5. ASSUME NEW x \in Whos PROVE \E k \in 1..(1 + Len(Workers)) : NameOf(k) = x
  <2>1. CASE x = "main"
    BY <1>4, <2>1, WorkersAre
  <2>2. CASE x \in W
    <3>1. PICK k \in DOMAIN Workers : Workers[k] = x
      BY <2>2, WorkersAre
    <3>2. k \in 1..Len(Workers) /\ k + 1 \in 1..(1 + Len(Workers)) /\ NameOf(k + 1) = x
      BY <1>4, <3>1, WorkersAre
    <3> QED
      BY <3>2
  <2> QED
    BY <2>1, <2>2 DEF Whos
<1> QED
  BY <1>2, <1>3, <1>4, <1>5

\* When Join merges, each tracer holds and records its own steps, and together they
\* are all that were told.
LEMMA Joining ==
  ASSUME IInv, phase = "explore", NEW ws, ws = [k \in DOMAIN Workers |-> forked[Workers[k]]], NEW ts, ts = <<main>> \o ws
  PROVE  \E Hs, Ws : Gathered(ws, ts, Hs, Ws)
<1> DEFINE n == Len(Workers)
           Ws == [k \in 1..n |-> Own(told, Workers[k])]
           Hs == [k \in 1..(1 + n) |-> Own(told, NameOf(k))]
<1>1. n \in Nat /\ DOMAIN Workers = 1..n /\ \A k \in 1..n : Workers[k] \in W
  BY WorkersAre
<1>2. DOMAIN ws = 1..n /\ ws = [k \in 1..n |-> ws[k]] /\ \A k \in 1..n : ws[k] = forked[Workers[k]]
  BY <1>1
<1>3. LogOK(told)
  BY IsLog DEF IInv, LogInv
<1>4. \A w \in W : Well(forked[w], told, Own(told, w), TRUE, MaxIOC)
  BY DEF IInv, ForkInv
<1>5. Well(main, told, Own(told, "main"), TRUE, MaxIOC)
  <2>1. MainTold = Own(told, "main") /\ MainCap = MaxIOC
    BY DEF MainTold, MainCap
  <2> QED
    BY <2>1 DEF IInv, MainInv
<1>6. \A k \in 1..n : Ws[k] = Own(told, Workers[k])
  OBVIOUS
<1>7. \A k \in 1..(1 + n) : Hs[k] = Own(told, NameOf(k))
  OBVIOUS
<1> HIDE DEF n, Ws, Hs
<1>8. ws \in Seq(Range(ws)) /\ Len(ws) = n
  <2>1. ws \in [1..n -> Range(ws)]
    BY <1>2, RangeOf
  <2> QED
    BY <1>1, <2>1, SeqFrom
<1>9. HoldAll(ws, told, Ws)
  <2> SUFFICES ASSUME NEW k \in 1..n PROVE Holds(ws[k], told, Ws[k], MaxIOC)
      BY <1>2 DEF HoldAll
  <2>1. Well(forked[Workers[k]], told, Own(told, Workers[k]), TRUE, MaxIOC)
    BY <1>1, <1>4
  <2>2. ws[k] = forked[Workers[k]] /\ Ws[k] = Own(told, Workers[k])
    BY <1>2, <1>6
  <2> QED
    BY <2>1, <2>2 DEF Well
<1>10. ts \in Seq(Range(ts)) /\ Len(ts) = 1 + n /\ DOMAIN ts = 1..(1 + n) /\ ts[1] = main /\ \A k \in 1..n : ts[k + 1] = ws[k]
  <2> DEFINE one == <<main>>
  <2>1. one \in Seq(Range(one)) /\ Len(one) = 1 /\ one[1] = main
    BY DEF Range
  <2>2. ts = one \o ws
    OBVIOUS
  <2> HIDE DEF one
  <2>3. Appended(ts, one, ws)
    BY <1>8, <2>1, <2>2, Appending
  <2>4. /\ ts \in Seq(Range(ts)) /\ Len(ts) = 1 + n /\ DOMAIN ts = 1..(1 + n)
        /\ (\A j \in 1..1 : ts[j] = one[j]) /\ \A j \in 1..n : ts[1 + j] = ws[j]
    BY <1>8, <2>1, <2>3 DEF Appended
  <2>5. \A j \in 1..n : ts[j + 1] = ws[j]
    BY <1>1, <2>4
  <2>6. 1 \in 1..1
    OBVIOUS
  <2> QED
    BY <2>1, <2>4, <2>5, <2>6
<1>11. ASSUME NEW k \in 1..(1 + n) PROVE Well(ts[k], told, Hs[k], TRUE, MaxIOC)
  <2>1. CASE k = 1
    <3>1. Hs[k] = Own(told, "main") /\ ts[k] = main
      BY <1>7, <1>10, <2>1, NamesDiffer
    <3> QED
      BY <1>5, <3>1
  <2>2. CASE k # 1
    <3>1. k - 1 \in 1..n /\ (k - 1) + 1 = k
      BY <1>1, <2>2
    <3>2. ts[k] = ws[k - 1] /\ Hs[k] = Own(told, NameOf(k)) /\ NameOf((k - 1) + 1) = Workers[k - 1]
      BY <1>7, <1>10, <3>1, NamesDiffer DEF n
    <3>3. ts[k] = forked[Workers[k - 1]] /\ Hs[k] = Own(told, Workers[k - 1]) /\ Workers[k - 1] \in W
      BY <1>1, <1>2, <3>1, <3>2
    <3> QED
      BY <1>4, <3>3
  <2> QED
    BY <2>1, <2>2
<1>12. RecordAll(ts, told, Hs)
  BY <1>10, <1>11 DEF RecordAll, Well
<1>13. TracersOK(ts)
  <2>1. ASSUME NEW k \in 1..(1 + n)
        PROVE  /\ ts[k].events \in Seq(Range(ts[k].events))
               /\ \A j \in DOMAIN ts[k].events : ts[k].events[j].at \in Nat
    <3>1. Records(ts[k], told, Hs[k], TRUE) /\ Hs[k] \in SUBSET DOMAIN told
      BY <1>11 DEF Well
    <3>2. PICK b : Recording(ts[k], told, Hs[k], TRUE, b)
      BY <3>1 DEF Records
    <3>3. \A j \in DOMAIN ts[k].events : ts[k].events[j].at \in Nat
      BY <1>3, <3>1, <3>2, RecordedIs
    <3>4. Sorted(ts[k])
      BY <3>2 DEF Recording
    <3> QED
      BY <3>3, <3>4 DEF Sorted
  <2> QED
    BY <1>10, <2>1 DEF TracersOK
<1>14. Apart(ts, told, Hs)
  <2>1. \A k \in DOMAIN ts : Hs[k] \in SUBSET DOMAIN told
    BY <1>10, <1>11 DEF Well
  <2>2. ASSUME NEW j \in DOMAIN ts, NEW k \in DOMAIN ts, NEW a \in Hs[j], NEW c \in Hs[k]
        PROVE  told[a].who = told[c].who <=> j = k
    <3>1. told[a].who = NameOf(j) /\ told[c].who = NameOf(k)
      BY <1>7, <1>10 DEF Own
    <3> QED
      BY <1>10, <3>1, NamesDiffer DEF n
  <2> QED
    BY <2>1, <2>2 DEF Apart
<1>15. \A m \in DOMAIN told : told[m].who \in Whos
  BY DEF IInv, LogInv, LogUpTo, Entered
<1>16. DOMAIN told = All(ts, Hs)
  <2>1. ASSUME NEW m \in DOMAIN told PROVE m \in All(ts, Hs)
    <3>1. PICK k \in 1..(1 + n) : NameOf(k) = told[m].who
      BY <1>15, NamesDiffer DEF n
    <3>2. m \in Hs[k] /\ k \in DOMAIN ts
      BY <1>7, <1>10, <3>1 DEF Own
    <3> QED
      BY <3>2 DEF All
  <2>2. All(ts, Hs) \subseteq DOMAIN told
    BY <1>14 DEF All, Apart
  <2> QED
    BY <2>1, <2>2
<1>17. DOMAIN told = Own(told, "main") \cup All(ws, Ws)
  <2>1. ASSUME NEW m \in DOMAIN told PROVE m \in Own(told, "main") \cup All(ws, Ws)
    <3>1. CASE told[m].who = "main"
      BY <3>1 DEF Own
    <3>2. CASE told[m].who \in W
      <4>1. PICK k \in DOMAIN Workers : Workers[k] = told[m].who
        BY <3>2, WorkersAre
      <4>2. k \in DOMAIN ws /\ m \in Ws[k]
        BY <1>1, <1>2, <1>6, <4>1 DEF Own
      <4> QED
        BY <4>2 DEF All
    <3> QED
      BY <1>15, <3>1, <3>2 DEF Whos
  <2>2. \A k \in DOMAIN ws : Ws[k] \subseteq DOMAIN told
    BY <1>2, <1>6 DEF Own
  <2>3. Own(told, "main") \cup All(ws, Ws) \subseteq DOMAIN told
    BY <2>2 DEF Own, All
  <2> QED
    BY <2>1, <2>3
<1>18. Gathered(ws, ts, Hs, Ws)
  BY <1>2, <1>8, <1>9, <1>10, <1>12, <1>13, <1>14, <1>16, <1>17 DEF Gathered, n
<1> QED
  BY <1>18

\* The merge: the main tracer now holds and records all that was told.
LEMMA JoinStep ==
  ASSUME IInv, Join
  PROVE  IInv' /\ Rises(main, main')
<1> DEFINE ws == [k \in DOMAIN Workers |-> forked[Workers[k]]]
           ts == <<main>> \o ws
           u == main'
           n == Len(Workers)
           H == Own(told, "main")
<1>1. /\ phase = "explore" /\ phase' = "exit" /\ u = Absorb(main, ws) /\ DOMAIN forked' = {}
      /\ plan' = plan /\ told' = told /\ now' = now
  BY DEF Join
<1>2. PICK Hs, Ws : Gathered(ws, ts, Hs, Ws)
  <2>1. ws = [k \in DOMAIN Workers |-> forked[Workers[k]]] /\ ts = <<main>> \o ws
    OBVIOUS
  <2> HIDE DEF ws, ts
  <2> QED
    BY <1>1, <2>1, Joining
<1>3. LogOK(told)
  BY IsLog DEF IInv, LogInv
<1>4. Well(main, told, H, TRUE, MaxIOC) /\ main.who = "main"
  <2>1. MainTold = Own(told, "main") /\ MainCap = MaxIOC
    BY <1>1 DEF MainTold, MainCap
  <2> QED
    BY <2>1 DEF IInv, MainInv
<1> HIDE DEF ws, ts, u, n, H
<1>5. /\ ws \in Seq(Range(ws)) /\ Len(ws) = n /\ HoldAll(ws, told, Ws)
      /\ ts = <<main>> \o ws /\ TracersOK(ts) /\ Apart(ts, told, Hs) /\ RecordAll(ts, told, Hs)
      /\ DOMAIN told = All(ts, Hs) /\ DOMAIN told = H \cup All(ws, Ws)
  BY <1>2 DEF Gathered, n, H
<1>6. Holds(main, told, H, MaxIOC) /\ Shape(main) /\ H \subseteq DOMAIN told
  BY <1>4 DEF Well, Holds
<1>7. Holds(u, told, H \cup All(ws, Ws), MaxIOC * (1 + Len(ws)))
  BY <1>1, <1>5, <1>6, AbsorbHolds
<1>8. \A s \in Sets : main[s] \subseteq u[s]
  BY <1>1, <1>5, <1>6, AbsorbHolds
<1>9. u.who = main.who /\ u.events = Numbered(Timeline(ts)) /\ u.seq = Len(u.events)
  BY <1>1, <1>5, <1>6, AbsorbIs
<1>10. Records(u, told, DOMAIN told, TRUE)
  BY <1>3, <1>5, <1>9, MergeRecords
<1>11. Well(u, told, DOMAIN told, TRUE, MaxIOC * (1 + n))
  <2>1. Holds(u, told, DOMAIN told, MaxIOC * (1 + n))
    BY <1>5, <1>7
  <2> QED
    BY <1>3, <1>10, <2>1 DEF Well
<1>12. MainInv'
  <2>1. MainTold' = DOMAIN told /\ MainCap' = MaxIOC * (1 + n)
    BY <1>1 DEF MainTold, MainCap, n
  <2>2. u.who = "main"
    BY <1>4, <1>9
  <2> QED
    BY <1>1, <1>11, <2>1, <2>2 DEF MainInv, u
<1>13. ForkInv'
  BY <1>1 DEF ForkInv
<1>14. PhaseInv' /\ PlanInv' /\ LogInv' /\ LoadInv'
  BY <1>1 DEF IInv, PhaseInv, PlanInv, LogInv, LoadInv
<1>15. Rises(main, main')
  <2>1. ToldMore(main, told, H, u, told, DOMAIN told)
    BY <1>6, <1>8 DEF ToldMore
  <2>2. Rises(main, u)
    BY <1>4, <1>11, <2>1, Rising
  <2> QED
    BY <2>2 DEF u
<1> QED
  BY <1>12, <1>13, <1>14, <1>15 DEF IInv

\* The invariant is inductive, and no step lowers the verdict.
LEMMA NextIInv ==
  ASSUME IInv, [Next]_vars
  PROVE  IInv' /\ (main' # main => Rises(main, main'))
<1>1. CASE Main
  BY <1>1, MainStep
<1>2. CASE Fork
  BY <1>2, ForkStep DEF Fork
<1>3. ASSUME NEW w \in W, Work(w) PROVE IInv' /\ main' = main
  BY <1>3, WorkStep DEF Work
<1>4. CASE Tick
  BY <1>4, TickStep DEF Tick
<1>5. CASE Join
  BY <1>5, JoinStep
<1>6. CASE Score1
  BY <1>6, Score1Step DEF Score1
<1>7. CASE UNCHANGED vars
  BY <1>7, Stutter DEF vars
<1> QED
  BY <1>1, <1>2, <1>3, <1>4, <1>5, <1>6, <1>7 DEF Next

\* So it holds in every state.
LEMMA InductiveInvariant == Spec => []IInv
<1>1. Init => IInv
  BY InitIInv
<1>2. IInv /\ [Next]_vars => IInv'
  BY NextIInv
<1> QED
  BY <1>1, <1>2, PTL DEF Spec

\* Evidence never exonerates: whatever the stubs are told, in whatever order and by
\* however many workers, no step, fork or merge takes a reason or a point of the
\* score away (signatures.go, Tracer.Absorb).
THEOREM EvidenceNeverExonerates == Spec => ScoreOnlyRises
<1>1. IInv /\ [Next]_vars => [main' # main => Kept(Reasons(main), Reasons(main')) /\ Score(Reasons(main)) <= Score(Reasons(main'))]_vars
  BY NextIInv DEF Rises
<1> QED
  BY <1>1, InductiveInvariant, PTL DEF Spec, ScoreOnlyRises

-----------------------------------------------------------------------------
(* The verdict of the parallel run, and what it is compared with *)

\* A tracer that holds all it was told.
Full(t, log, H) ==
  /\ t.iocs = Part(log, H, "iocs") /\ t.mutedIOCs = Part(log, H, "mutedIOCs")
  /\ t.watched = Seeds.watched \cup UNION {log[k].step.call.watched : k \in H}
  /\ t.tainted = Seeds.tainted \cup UNION {log[k].step.call.tainted : k \in H}

\* With room for all of it, a tracer holds exactly what it was told.
LEMMA Filled ==
  ASSUME NEW t, NEW log, NEW H, NEW own, NEW n, Well(t, log, H, own, n), NEW A, Roomy(A), Covers(A, log, H)
  PROVE  Full(t, log, H)
<1>1. Holds(t, log, H, n)
  BY DEF Well
<1>2. \A s \in Sets : t[s] = Part(log, H, s)
  BY <1>1 DEF Holds
<1>3. t["iocs"] = Part(log, H, "iocs") /\ t["mutedIOCs"] = Part(log, H, "mutedIOCs")
  BY <1>2, SetsAre
<1> QED
  BY <1>1, <1>3 DEF Holds, Full

\* Added covers what the steps add.
LEMMA AddedIs ==
  ASSUME LogOK(told)
  PROVE  /\ IsFiniteSet(Added) /\ Added \subseteq Pairs
         /\ \A k \in DOMAIN told : Heard(told[k].step) \cup Bared(told[k].step) \subseteq Added
<1> DEFINE f == [k \in DOMAIN told |-> Heard(told[k].step) \cup Bared(told[k].step)]
           K == {f[k] : k \in DOMAIN f}
<1>1. \A k \in DOMAIN told : IsFiniteSet(f[k]) /\ f[k] \subseteq Pairs
  <2> SUFFICES ASSUME NEW k \in DOMAIN told PROVE IsFiniteSet(f[k]) /\ f[k] \subseteq Pairs
      OBVIOUS
  <2>1. StepOK(told[k].step)
    BY DEF LogOK
  <2>2. /\ Heard(told[k].step) \subseteq Pairs /\ IsFiniteSet(Heard(told[k].step))
        /\ Bared(told[k].step) \subseteq Pairs /\ IsFiniteSet(Bared(told[k].step))
    BY <2>1, HeardIs
  <2>3. IsFiniteSet(Heard(told[k].step) \cup Bared(told[k].step))
    BY <2>2, FS_Union
  <2> QED
    BY <2>2, <2>3
<1>2. Added = UNION K
  BY DEF Added, Range
<1>3. IsFiniteSet(DOMAIN told) /\ DOMAIN f = DOMAIN told
  <2>1. DOMAIN told = 1..Len(told) /\ Len(told) \in Nat
    BY SeqTo DEF LogOK
  <2>2. IsFiniteSet(1..Len(told))
    BY <2>1, FS_Interval
  <2> QED
    BY <2>1, <2>2
<1>4. \A k \in DOMAIN told : f[k] = Heard(told[k].step) \cup Bared(told[k].step)
  OBVIOUS
<1> HIDE DEF f
<1>5. IsFiniteSet(K)
  BY <1>3, ImageFinite
<1>6. \A T \in K : IsFiniteSet(T) /\ T \subseteq Pairs
  BY <1>1, <1>3
<1>7. \A k \in DOMAIN told : f[k] \in K
  BY <1>3
<1> HIDE DEF K
<1>8. IsFiniteSet(UNION K)
  BY <1>5, <1>6, FS_UNION
<1>9. \A k \in DOMAIN told : f[k] \subseteq Added
  BY <1>2, <1>7
<1> QED
  BY <1>2, <1>4, <1>6, <1>8, <1>9

\* When nothing was dropped there was room for it.
LEMMA AddedIsRoomy ==
  ASSUME LogOK(told), NothingDropped
  PROVE  Roomy(Added) /\ Covers(Added, told, DOMAIN told)
BY AddedIs DEF NothingDropped, Roomy, Covers

\* The scored main tracer was told everything.
LEMMA ScoredWell ==
  ASSUME IInv, Scored
  PROVE  Well(main, told, DOMAIN told, TRUE, MainCap) /\ LogOK(told)
<1>1. MainTold = DOMAIN told
  BY DEF MainTold, Scored
<1> QED
  BY <1>1, IsLog DEF IInv, MainInv, LogInv

\* A log carries itself.
LEMMA CarriedSame ==
  ASSUME NEW log, NEW H, NEW all
  PROVE  Carried(log, H, log, H, all)
BY DEF Carried

\* The tracer of a parallel run and the one tracer that was told everything show the same.
LEMMA SerialVerdict == ASSUME IInv PROVE ParallelIsSerial
<1> SUFFICES ASSUME Scored, NothingDropped PROVE Reasons(main) = Reasons(Replay(told))
    BY DEF ParallelIsSerial
<1> DEFINE D == DOMAIN told
           t == main
           u == Replay(told)
           c == MainCap
<1>1. Well(t, told, D, TRUE, c) /\ LogOK(told)
  BY ScoredWell
<1>2. Well(u, told, D, FALSE, MaxIOC)
  BY <1>1, ReplayWell
<1>3. Roomy(Added) /\ Covers(Added, told, D)
  BY <1>1, AddedIsRoomy
<1>4. Carried(told, D, told, D, TRUE) /\ Carried(told, D, told, D, FALSE)
  BY CarriedSame
<1> HIDE DEF D, t, u, c
<1>5. t.iocs = u.iocs /\ t.mutedIOCs = u.mutedIOCs /\ t.watched = u.watched /\ t.tainted = u.tainted
  <2>1. Full(t, told, D) /\ Full(u, told, D)
    BY <1>1, <1>2, <1>3, Filled
  <2> QED
    BY <2>1 DEF Full
<1>6. Mic(t) = Mic(u)
  BY <1>5 DEF Mic
<1>7. IsFiniteSet(t.iocs) /\ IsFiniteSet(u.iocs)
  BY <1>1, <1>2, WellIs
<1>8. Reasons(t) \subseteq Reasons(u)
  <2>1. MoreScored(Context(t), Context(u))
    BY <1>1, <1>2, <1>4, <1>5, MoreScoredIf
  <2>2. MoreIntrinsic(Context(t), Context(u))
    BY <1>1, <1>2, <1>4, <1>5, <1>6, MoreIntrinsicIf
  <2> QED
    BY <1>7, <2>1, <2>2, AllFollow
<1>9. Reasons(u) \subseteq Reasons(t)
  <2>1. MoreScored(Context(u), Context(t))
    BY <1>1, <1>2, <1>4, <1>5, MoreScoredIf
  <2>2. MoreIntrinsic(Context(u), Context(t))
    BY <1>1, <1>2, <1>4, <1>5, <1>6, MoreIntrinsicIf
  <2> QED
    BY <1>7, <2>1, <2>2, AllFollow
<1> QED
  BY <1>8, <1>9 DEF t, u

-----------------------------------------------------------------------------
(* What might have been told instead *)

\* The same log with other steps: well-formed, with no more indicators and the same values watched.
Twin(M) ==
  /\ LogOK(M) /\ DOMAIN M = DOMAIN told
  /\ \A k \in DOMAIN told :
        /\ M[k].step.call.watched = told[k].step.call.watched /\ M[k].step.call.tainted = told[k].step.call.tainted
        /\ Heard(M[k].step) \cup Bared(M[k].step) \subseteq Heard(told[k].step) \cup Bared(told[k].step)
\* A view shows the same of both.
SameShown(M, all) ==
  \A k \in DOMAIN told : /\ Shown(told, k, all) <=> Shown(M, k, all)
                         /\ Shown(told, k, all) => M[k].step.call.events = told[k].step.call.events

\* What a twin shows, the log shows.
LEMMA TwinCarried ==
  ASSUME LogOK(told), NEW M, Twin(M), NEW all, SameShown(M, all)
  PROVE  Carried(told, DOMAIN told, M, DOMAIN told, all) /\ Carried(M, DOMAIN told, told, DOMAIN told, all)
<1> DEFINE D == DOMAIN told
<1>0. LogOK(M) /\ D \in SUBSET DOMAIN told /\ D \in SUBSET DOMAIN M
  BY DEF Twin
<1>1. ASSUME NEW p \in Made(told, D), Shown(told, StepOf(p), all)
      PROVE  /\ p \in Made(M, D) /\ Shown(M, StepOf(p), all)
             /\ told[StepOf(p)].step.call.events[PlaceOf(p)] = M[StepOf(p)].step.call.events[PlaceOf(p)]
  <2>1. p = <<StepOf(p), PlaceOf(p)>> /\ StepOf(p) \in D /\ PlaceOf(p) \in DOMAIN told[StepOf(p)].step.call.events
    BY <1>0, MadeIs
  <2>2. Shown(M, StepOf(p), all) /\ M[StepOf(p)].step.call.events = told[StepOf(p)].step.call.events
    BY <1>1, <2>1 DEF SameShown
  <2>3. <<StepOf(p), PlaceOf(p)>> \in Made(M, D)
    BY <1>0, <2>1, <2>2, MadeIs
  <2> QED
    BY <2>1, <2>2, <2>3
<1>2. ASSUME NEW p \in Made(M, D), Shown(M, StepOf(p), all)
      PROVE  /\ p \in Made(told, D) /\ Shown(told, StepOf(p), all)
             /\ M[StepOf(p)].step.call.events[PlaceOf(p)] = told[StepOf(p)].step.call.events[PlaceOf(p)]
  <2>1. p = <<StepOf(p), PlaceOf(p)>> /\ StepOf(p) \in D /\ PlaceOf(p) \in DOMAIN M[StepOf(p)].step.call.events
    BY <1>0, MadeIs
  <2>2. Shown(told, StepOf(p), all) /\ M[StepOf(p)].step.call.events = told[StepOf(p)].step.call.events
    BY <1>2, <2>1 DEF SameShown
  <2>3. <<StepOf(p), PlaceOf(p)>> \in Made(told, D)
    BY <1>0, <2>1, <2>2, MadeIs
  <2> QED
    BY <2>1, <2>2, <2>3
<1> QED
  BY <1>1, <1>2, Zenon DEF Carried

\* The tracer of the twin was told the same but for what the change took away.
LEMMA TwinIs ==
  ASSUME IInv, Scored, NothingDropped, NEW M, Twin(M), NEW u, u = Replay(M)
  PROVE  /\ Well(u, M, DOMAIN told, FALSE, MaxIOC)
         /\ main.iocs = Part(told, DOMAIN told, "iocs") /\ main.mutedIOCs = Part(told, DOMAIN told, "mutedIOCs")
         /\ u.iocs = Part(M, DOMAIN told, "iocs") /\ u.mutedIOCs = Part(M, DOMAIN told, "mutedIOCs")
         /\ main.watched = u.watched /\ main.tainted = u.tainted
<1> DEFINE D == DOMAIN told
<1>1. Well(main, told, D, TRUE, MainCap) /\ LogOK(told)
  BY ScoredWell
<1>2. Well(u, M, D, FALSE, MaxIOC)
  BY ReplayWell DEF Twin
<1>3. Roomy(Added) /\ Covers(Added, told, D)
  BY <1>1, AddedIsRoomy
<1>4. Covers(Added, M, D)
  BY <1>3 DEF Covers, Twin
<1>5. /\ main.iocs = Part(told, D, "iocs") /\ main.mutedIOCs = Part(told, D, "mutedIOCs")
      /\ main.watched = Seeds.watched \cup UNION {told[k].step.call.watched : k \in D}
      /\ main.tainted = Seeds.tainted \cup UNION {told[k].step.call.tainted : k \in D}
  <2>1. Full(main, told, D)
    BY <1>1, <1>3, Filled
  <2> QED
    BY <2>1 DEF Full
<1>6. /\ u.iocs = Part(M, D, "iocs") /\ u.mutedIOCs = Part(M, D, "mutedIOCs")
      /\ u.watched = Seeds.watched \cup UNION {M[k].step.call.watched : k \in D}
      /\ u.tainted = Seeds.tainted \cup UNION {M[k].step.call.tainted : k \in D}
  <2>1. Full(u, M, D)
    <3> HIDE DEF D
    <3> QED
      BY <1>2, <1>3, <1>4, Filled
  <2> QED
    BY <2>1 DEF Full
<1>7. UNION {told[k].step.call.watched : k \in D} = UNION {M[k].step.call.watched : k \in D}
  BY DEF Twin
<1>8. UNION {told[k].step.call.tainted : k \in D} = UNION {M[k].step.call.tainted : k \in D}
  BY DEF Twin
<1> QED
  BY <1>2, <1>5, <1>6, <1>7, <1>8

\* When the indicators agree too, the scored view agrees,
LEMMA TwinScored ==
  ASSUME IInv, Scored, NothingDropped, NEW M, Twin(M), SameShown(M, FALSE), NEW u, u = Replay(M), main.iocs = u.iocs
  PROVE  MoreScored(Context(main), Context(u)) /\ MoreScored(Context(u), Context(main))
<1> DEFINE D == DOMAIN told
<1>1. Well(main, told, D, TRUE, MainCap) /\ LogOK(told)
  BY ScoredWell
<1>2. Well(u, M, D, FALSE, MaxIOC)
  BY TwinIs
<1>3. Carried(told, D, M, D, FALSE) /\ Carried(M, D, told, D, FALSE)
  BY <1>1, TwinCarried
<1> HIDE DEF D
<1> QED
  BY <1>1, <1>2, <1>3, MoreScoredIf

\* and the intrinsic one.
LEMMA TwinIntrinsic ==
  ASSUME IInv, Scored, NothingDropped, NEW M, Twin(M), SameShown(M, TRUE), NEW u, u = Replay(M), Mic(main) = Mic(u)
  PROVE  MoreIntrinsic(Context(main), Context(u)) /\ MoreIntrinsic(Context(u), Context(main))
<1> DEFINE D == DOMAIN told
<1>1. Well(main, told, D, TRUE, MainCap) /\ LogOK(told)
  BY ScoredWell
<1>2. Well(u, M, D, FALSE, MaxIOC) /\ main.watched = u.watched /\ main.tainted = u.tainted
  BY TwinIs
<1>3. Carried(told, D, M, D, TRUE) /\ Carried(M, D, told, D, TRUE)
  BY <1>1, TwinCarried
<1> HIDE DEF D
<1> QED
  BY <1>1, <1>2, <1>3, MoreIntrinsicIf

-----------------------------------------------------------------------------
(* Muted, loud, and without the devDependencies *)

\* A step of a log, and one that a mute or a scope turns it into.
StepShape(x) == x = [call |-> x.call, scope |-> x.scope, muted |-> x.muted, do |-> x.do] /\ StepOK(x)
CallShape(c) == c = [events |-> c.events, adds |-> c.adds, decoded |-> c.decoded, watched |-> c.watched, tainted |-> c.tainted]

\* A step of the log.
LEMMA ToldSteps ==
  ASSUME IInv, NEW k \in DOMAIN told
  PROVE  /\ StepShape(told[k].step) /\ told[k].at \in Nat
         /\ told[k] = [step |-> told[k].step, at |-> told[k].at, who |-> told[k].who]
<1>1. Entered(told[k])
  BY DEF IInv, LogInv, LogUpTo
<1>2. PICK s \in PlanStep : told[k].step = Step(s)
  BY <1>1 DEF Entered
<1>3. /\ StepOK(Step(s)) /\ Step(s) = [call |-> Perform(s.do, s.quiet), scope |-> s.scope, muted |-> s.muted, do |-> s.do]
  BY StepIsOK
<1>4. StepShape(Step(s))
  BY <1>3 DEF StepShape
<1> QED
  BY <1>1, <1>2, <1>4 DEF Entered

\* What a step becomes: it keeps its scope, what it has watched, and it is told no more than it was.
Milder(x, y) ==
  /\ StepOK(y) /\ y.scope = x.scope /\ y.call.watched = x.call.watched /\ y.call.tainted = x.call.tainted
  /\ Heard(y) \cup Bared(y) \subseteq Heard(x) \cup Bared(x)

\* A step that tells nothing adds nothing,
LEMMA Silent ==
  ASSUME NEW y, y.call.events = <<>>, y.call.adds = {}
  PROVE  Heard(y) = {}
<1>1. Range(y.call.events) = {}
  BY DEF Range
<1> QED
  BY <1>1 DEF Heard, Scan

\* and one that decodes nothing bares nothing.
LEMMA Undecoded ==
  ASSUME NEW y, y.call.decoded = {}
  PROVE  Bared(y) = {}
BY DEF Bared, Scan

\* What is bared depends on what is decoded,
LEMMA SameBared ==
  ASSUME NEW x, NEW y, y.call.decoded = x.call.decoded
  PROVE  Bared(y) = Bared(x)
BY DEF Bared

\* and what is heard on what is told.
LEMMA SameHeard ==
  ASSUME NEW x, NEW y, y.call.events = x.call.events, y.call.adds = x.call.adds
  PROVE  Heard(y) = Heard(x)
BY DEF Heard

\* A call from which events, indicators or decoded items are taken stays well-formed.
LEMMA CallsOK ==
  ASSUME NEW x, StepShape(x)
  PROVE  /\ CallShape(x.call) /\ CallOK(x.call) /\ x.muted \in BOOLEAN
         /\ \A c : CallShape(c) /\ c.events = <<>> /\ c.adds = {} /\ (c.decoded = x.call.decoded \/ c.decoded = {}) => CallOK(c)
<1>1. CallOK(x.call) /\ x.muted \in BOOLEAN
  BY DEF StepShape, StepOK
<1>2. CallShape(x.call)
  BY <1>1 DEF CallOK, CallShape
<1>3. EventsOK(<<>>) /\ IsFiniteSet({})
  BY FewEvents, FS_EmptySet
<1>4. ASSUME NEW c, CallShape(c), c.events = <<>>, c.adds = {}, c.decoded = x.call.decoded \/ c.decoded = {} PROVE CallOK(c)
  BY <1>1, <1>3, <1>4 DEF CallOK, CallShape
<1> QED
  BY <1>1, <1>2, <1>4

\* Muting a muted step leaves the scored set as it was: it went elsewhere anyway.
LEMMA MuteIs ==
  ASSUME NEW x, StepShape(x), NEW y, y = Mute(x)
  PROVE  /\ Milder(x, y) /\ y.muted = x.muted /\ (~x.muted => y = x)
         /\ Share(y, "iocs") = Share(x, "iocs")
<1>1. CASE ~x.muted
  <2>1. y = x
    BY <1>1 DEF Mute
  <2> QED
    BY <1>1, <2>1 DEF Milder, StepShape
<1>2. CASE x.muted
  <2> DEFINE c == x.call
             d == [events |-> <<>>, adds |-> {}, decoded |-> c.decoded, watched |-> c.watched, tainted |-> c.tainted]
  <2>1. CallShape(c) /\ x = [call |-> c, scope |-> x.scope, muted |-> x.muted, do |-> x.do]
    BY CallsOK DEF StepShape
  <2>2. y = [call |-> d, scope |-> x.scope, muted |-> x.muted, do |-> x.do]
    BY <1>2, <2>1 DEF Mute, CallShape
  <2>3. y.call = d /\ y.scope = x.scope /\ y.muted = x.muted
    BY <2>2
  <2>4. CallShape(d) /\ d.events = <<>> /\ d.adds = {} /\ d.decoded = x.call.decoded
    BY DEF CallShape
  <2>5. CallOK(d) /\ x.muted \in BOOLEAN
    <3> HIDE DEF d
    <3> QED
      BY <2>4, CallsOK
  <2>6. Heard(y) = {} /\ Bared(y) = Bared(x)
    BY <2>3, Silent, SameBared
  <2>7. StepOK(y)
    BY <2>3, <2>5 DEF StepOK
  <2>8. Milder(x, y)
    BY <2>3, <2>6, <2>7 DEF Milder
  <2>9. ScoredSink(y) = ScoredSink(x) /\ Sink(y) # "iocs" /\ Sink(x) # "iocs"
    BY <1>2, <2>3 DEF ScoredSink, Sink
  <2>10. Share(y, "iocs") = Share(x, "iocs")
    BY <2>6, <2>9 DEF Share
  <2> QED
    BY <1>2, <2>3, <2>8, <2>10
<1> QED
  BY <1>1, <1>2

\* Unmuting moves indicators between the two sets that the intrinsic view unites.
LEMMA UnmuteIs ==
  ASSUME NEW x, StepShape(x), NEW y, y = Unmute(x)
  PROVE  /\ Milder(x, y) /\ y.call.events = x.call.events /\ ~y.muted
         /\ (x.muted => x.scope \notin DevScopes)
            => Share(y, "iocs") \cup Share(y, "mutedIOCs") = Share(x, "iocs") \cup Share(x, "mutedIOCs")
<1>1. y = [call |-> x.call, scope |-> x.scope, muted |-> FALSE, do |-> x.do]
  BY DEF Unmute, StepShape
<1>2. y.call = x.call /\ y.scope = x.scope /\ y.muted = FALSE
  BY <1>1
<1>3. Heard(y) = Heard(x) /\ Bared(y) = Bared(x)
  BY <1>2, SameHeard, SameBared
<1>4. StepOK(y)
  BY <1>2 DEF StepOK, StepShape
<1>5. Milder(x, y)
  BY <1>2, <1>3, <1>4 DEF Milder
<1>6. ASSUME x.muted => x.scope \notin DevScopes
      PROVE  Share(y, "iocs") \cup Share(y, "mutedIOCs") = Share(x, "iocs") \cup Share(x, "mutedIOCs")
  <2>1. ScoredSink(y) = ScoredSink(x) /\ Sink(y) = ScoredSink(x)
    BY <1>2 DEF ScoredSink, Sink
  <2>2. CASE x.scope \in DevScopes
    <3>1. ~x.muted
      BY <1>6, <2>2
    <3>2. Sink(x) = ScoredSink(x)
      BY <3>1 DEF Sink, ScoredSink
    <3> QED
      BY <1>3, <2>1, <3>2 DEF Share
  <2>3. CASE x.scope \notin DevScopes
    <3>1. ScoredSink(x) = "iocs" /\ Sink(x) \in {"iocs", "mutedIOCs"}
      BY <2>3 DEF Sink, ScoredSink
    <3>2. Share(y, "iocs") = Heard(x) \cup Bared(x) /\ Share(y, "mutedIOCs") = {}
      BY <1>3, <2>1, <3>1 DEF Share
    <3>3. Share(x, "iocs") \cup Share(x, "mutedIOCs") = Heard(x) \cup Bared(x)
      BY <3>1 DEF Share
    <3> QED
      BY <3>2, <3>3
  <2> QED
    BY <2>2, <2>3
<1> QED
  BY <1>2, <1>5, <1>6

\* What an unmuted dev step tells goes to neither of the two sets.
LEMMA UndevIs ==
  ASSUME NEW x, StepShape(x), NEW y, y = Undev(x), x.scope \in DevScopes => ~x.muted
  PROVE  /\ Milder(x, y) /\ y.muted = x.muted /\ (x.scope \notin DevScopes => y = x)
         /\ Share(y, "iocs") = Share(x, "iocs") /\ Share(y, "mutedIOCs") = Share(x, "mutedIOCs")
<1>1. CASE x.scope \notin DevScopes
  <2>1. y = x
    BY <1>1 DEF Undev
  <2> QED
    BY <1>1, <2>1 DEF Milder, StepShape
<1>2. CASE x.scope \in DevScopes
  <2> DEFINE c == x.call
             d == [events |-> <<>>, adds |-> {}, decoded |-> {}, watched |-> c.watched, tainted |-> c.tainted]
  <2>1. CallShape(c) /\ x = [call |-> c, scope |-> x.scope, muted |-> x.muted, do |-> x.do]
    BY CallsOK DEF StepShape
  <2>2. y = [call |-> d, scope |-> x.scope, muted |-> x.muted, do |-> x.do]
    BY <1>2, <2>1 DEF Undev, CallShape
  <2>3. y.call = d /\ y.scope = x.scope /\ y.muted = x.muted
    BY <2>2
  <2>4. CallShape(d) /\ d.events = <<>> /\ d.adds = {} /\ d.decoded = {}
    BY DEF CallShape
  <2>5. CallOK(d) /\ x.muted \in BOOLEAN
    <3> HIDE DEF d
    <3> QED
      BY <2>4, CallsOK
  <2>6. Heard(y) = {} /\ Bared(y) = {}
    BY <2>3, Silent, Undecoded
  <2>7. StepOK(y)
    BY <2>3, <2>5 DEF StepOK
  <2>8. Milder(x, y)
    BY <2>3, <2>6, <2>7 DEF Milder
  <2>9. Sink(x) = "devIOCs" /\ ScoredSink(x) = "devIOCs"
    BY <1>2 DEF ScoredSink, Sink
  <2>10. Share(x, "iocs") = {} /\ Share(x, "mutedIOCs") = {}
    BY <2>9 DEF Share
  <2>11. Share(y, "iocs") = {} /\ Share(y, "mutedIOCs") = {}
    BY <2>6 DEF Share
  <2> QED
    BY <1>2, <2>3, <2>8, <2>10, <2>11
<1> QED
  BY <1>1, <1>2

\* A log with other steps in the same places.
Changed(M, f) ==
  /\ M = [k \in DOMAIN told |-> [told[k] EXCEPT !.step = f[k]]]
  /\ f = [k \in DOMAIN told |-> f[k]]

\* So each change makes a twin.
LEMMA ChangedIs ==
  ASSUME IInv, NEW M, NEW f, Changed(M, f), \A k \in DOMAIN told : Milder(told[k].step, f[k])
  PROVE  Twin(M) /\ \A k \in DOMAIN told : M[k].step = f[k]
<1> DEFINE n == Len(told)
<1>1. DOMAIN told = 1..n /\ n \in Nat /\ LogOK(told)
  BY IsLog DEF IInv, LogInv
<1>2. ASSUME NEW k \in DOMAIN told PROVE M[k].step = f[k] /\ M[k].at = told[k].at
  <2>1. told[k] = [step |-> told[k].step, at |-> told[k].at, who |-> told[k].who]
    BY ToldSteps
  <2>2. M[k] = [told[k] EXCEPT !.step = f[k]]
    BY DEF Changed
  <2>3. M[k] = [step |-> f[k], at |-> told[k].at, who |-> told[k].who]
    BY <2>1, <2>2
  <2> QED
    BY <2>3
<1>3. DOMAIN M = DOMAIN told
  BY DEF Changed
<1> HIDE DEF n
<1>4. M \in Seq(Range(M))
  <2>1. M = [k \in 1..n |-> M[k]] /\ DOMAIN M = 1..n
    BY <1>1, <1>3 DEF Changed
  <2>2. M \in [1..n -> Range(M)]
    BY <2>1, RangeOf
  <2> QED
    BY <1>1, <2>2, SeqFrom
<1>5. LogOK(M)
  <2>1. \A k \in DOMAIN M : StepOK(M[k].step) /\ M[k].at \in Nat
    BY <1>1, <1>2, <1>3 DEF LogOK, Milder
  <2>2. \A j, k \in DOMAIN M : j <= k => M[j].at <= M[k].at
    BY <1>1, <1>2, <1>3 DEF LogOK
  <2> QED
    BY <1>4, <2>1, <2>2 DEF LogOK
<1>6. Twin(M)
  BY <1>2, <1>3, <1>5 DEF Twin, Milder
<1> QED
  BY <1>2, <1>6

\* A change that leaves the share of each step leaves the part.
LEMMA SameParts ==
  ASSUME NEW M, NEW s, \A k \in DOMAIN told : Share(M[k].step, s) = Share(told[k].step, s)
  PROVE  Part(M, DOMAIN told, s) = Part(told, DOMAIN told, s)
BY DEF Part

\* What the fuzz sweep provokes does not count.
LEMMA QuietVerdict == ASSUME IInv PROVE MutedDoesNotInflate
<1> DEFINE M == Instead(Mute)
           u == Replay(M)
           f == [k \in DOMAIN told |-> Mute(told[k].step)]
<1> SUFFICES ASSUME Scored, NothingDropped PROVE Viewed(main, "scored") = Viewed(u, "scored")
    BY DEF MutedDoesNotInflate
<1>1. Changed(M, f)
  BY DEF Changed, Instead
<1>2. \A k \in DOMAIN told : f[k] = Mute(told[k].step)
  OBVIOUS
<1>3. u = Replay(M)
  OBVIOUS
<1> HIDE DEF M, u, f
<1>4. ASSUME NEW k \in DOMAIN told
      PROVE  /\ Milder(told[k].step, f[k]) /\ f[k].muted = told[k].step.muted
             /\ (~told[k].step.muted => f[k] = told[k].step)
             /\ Share(f[k], "iocs") = Share(told[k].step, "iocs")
  BY <1>2, ToldSteps, MuteIs
<1>5. Twin(M)
  BY <1>1, <1>4, ChangedIs
<1>6. \A k \in DOMAIN told : M[k].step = f[k]
  BY <1>1, <1>4, ChangedIs
<1>7. SameShown(M, FALSE)
  BY <1>4, <1>6 DEF SameShown, Shown, Milder
<1>8. main.iocs = u.iocs
  <2>1. Part(M, DOMAIN told, "iocs") = Part(told, DOMAIN told, "iocs")
    BY <1>4, <1>6, SameParts
  <2> QED
    BY <1>3, <1>5, <2>1, TwinIs
<1>9. MoreScored(Context(main), Context(u)) /\ MoreScored(Context(u), Context(main))
  BY <1>3, <1>5, <1>7, <1>8, TwinScored
<1>10. Viewed(main, "scored") \subseteq Viewed(u, "scored")
  BY <1>9, ScoredFollow, Zenon
<1>11. Viewed(u, "scored") \subseteq Viewed(main, "scored")
  BY <1>9, ScoredFollow, Zenon
<1> QED
  BY <1>10, <1>11

\* Muting hides no malice.
LEMMA LoudVerdict == ASSUME IInv PROVE MutingHidesNothing
<1> DEFINE M == Instead(Unmute)
           u == Replay(M)
           f == [k \in DOMAIN told |-> Unmute(told[k].step)]
<1> SUFFICES ASSUME Scored, NothingDropped, \A x \in Range(told) : x.step.muted => x.step.scope \notin DevScopes
             PROVE  Viewed(main, "intrinsic") = Viewed(u, "intrinsic")
    BY DEF MutingHidesNothing
<1>1. Changed(M, f)
  BY DEF Changed, Instead
<1>2. \A k \in DOMAIN told : f[k] = Unmute(told[k].step)
  OBVIOUS
<1>3. u = Replay(M)
  OBVIOUS
<1>0. \A k \in DOMAIN told : told[k].step.muted => told[k].step.scope \notin DevScopes
  BY DEF Range
<1> HIDE DEF M, u, f
<1>4. ASSUME NEW k \in DOMAIN told
      PROVE  /\ Milder(told[k].step, f[k]) /\ f[k].call.events = told[k].step.call.events
             /\ Share(f[k], "iocs") \cup Share(f[k], "mutedIOCs") = Share(told[k].step, "iocs") \cup Share(told[k].step, "mutedIOCs")
  BY <1>0, <1>2, ToldSteps, UnmuteIs
<1>5. Twin(M)
  BY <1>1, <1>4, ChangedIs
<1>6. \A k \in DOMAIN told : M[k].step = f[k]
  BY <1>1, <1>4, ChangedIs
<1>7. SameShown(M, TRUE)
  BY <1>4, <1>6 DEF SameShown, Shown, Milder
<1>8. Mic(main) = Mic(u)
  <2>1. \A k \in DOMAIN told : Share(M[k].step, "iocs") \cup Share(M[k].step, "mutedIOCs")
                               = Share(told[k].step, "iocs") \cup Share(told[k].step, "mutedIOCs")
    BY <1>4, <1>6
  <2>2. Part(M, DOMAIN told, "iocs") \cup Part(M, DOMAIN told, "mutedIOCs")
        = Part(told, DOMAIN told, "iocs") \cup Part(told, DOMAIN told, "mutedIOCs")
    <3> DEFINE p(k) == Share(M[k].step, "iocs") 
               q(k) == Share(M[k].step, "mutedIOCs")
               r(k) == Share(told[k].step, "iocs")
               s(k) == Share(told[k].step, "mutedIOCs")
    <3>1. /\ Part(M, DOMAIN told, "iocs") = UNION {p(k) : k \in DOMAIN told}
          /\ Part(M, DOMAIN told, "mutedIOCs") = UNION {q(k) : k \in DOMAIN told}
          /\ Part(told, DOMAIN told, "iocs") = UNION {r(k) : k \in DOMAIN told}
          /\ Part(told, DOMAIN told, "mutedIOCs") = UNION {s(k) : k \in DOMAIN told}
      BY DEF Part
    <3>2. \A k \in DOMAIN told : p(k) \cup q(k) = r(k) \cup s(k)
      BY <2>1
    <3> HIDE DEF p, q, r, s
    <3> QED
      BY <3>1, <3>2
  <2>3. /\ main.iocs = Part(told, DOMAIN told, "iocs") /\ main.mutedIOCs = Part(told, DOMAIN told, "mutedIOCs")
        /\ u.iocs = Part(M, DOMAIN told, "iocs") /\ u.mutedIOCs = Part(M, DOMAIN told, "mutedIOCs")
    BY <1>3, <1>5, TwinIs
  <2> QED
    BY <2>2, <2>3 DEF Mic
<1>9. MoreIntrinsic(Context(main), Context(u)) /\ MoreIntrinsic(Context(u), Context(main))
  BY <1>3, <1>5, <1>7, <1>8, TwinIntrinsic
<1>10. Viewed(main, "intrinsic") \subseteq Viewed(u, "intrinsic")
  BY <1>9, IntrinsicFollow, Zenon
<1>11. Viewed(u, "intrinsic") \subseteq Viewed(main, "intrinsic")
  BY <1>9, IntrinsicFollow, Zenon
<1> QED
  BY <1>10, <1>11

\* A devDependency has no part in the verdict.
LEMMA DevVerdict == ASSUME IInv PROVE DevDoesNotScore
<1> DEFINE M == Instead(Undev)
           u == Replay(M)
           f == [k \in DOMAIN told |-> Undev(told[k].step)]
<1> SUFFICES ASSUME Scored, NothingDropped, \A x \in Range(told) : x.step.scope \in DevScopes => ~x.step.muted
             PROVE  Reasons(main) = Reasons(u)
    BY DEF DevDoesNotScore, Undeveloped
<1>1. Changed(M, f)
  BY DEF Changed, Instead
<1>2. \A k \in DOMAIN told : f[k] = Undev(told[k].step)
  OBVIOUS
<1>3. u = Replay(M)
  OBVIOUS
<1>0. \A k \in DOMAIN told : told[k].step.scope \in DevScopes => ~told[k].step.muted
  BY DEF Range
<1> HIDE DEF M, u, f
<1>4. ASSUME NEW k \in DOMAIN told
      PROVE  /\ Milder(told[k].step, f[k]) /\ f[k].muted = told[k].step.muted
             /\ (told[k].step.scope \notin DevScopes => f[k] = told[k].step)
             /\ Share(f[k], "iocs") = Share(told[k].step, "iocs") /\ Share(f[k], "mutedIOCs") = Share(told[k].step, "mutedIOCs")
  BY <1>0, <1>2, ToldSteps, UndevIs
<1>5. Twin(M)
  BY <1>1, <1>4, ChangedIs
<1>6. \A k \in DOMAIN told : M[k].step = f[k]
  BY <1>1, <1>4, ChangedIs
<1>7. SameShown(M, FALSE) /\ SameShown(M, TRUE)
  BY <1>4, <1>6 DEF SameShown, Shown, Milder
<1>8. main.iocs = u.iocs /\ main.mutedIOCs = u.mutedIOCs
  <2>1. Part(M, DOMAIN told, "iocs") = Part(told, DOMAIN told, "iocs")
    BY <1>4, <1>6, SameParts
  <2>2. Part(M, DOMAIN told, "mutedIOCs") = Part(told, DOMAIN told, "mutedIOCs")
    BY <1>4, <1>6, SameParts
  <2> QED
    BY <1>3, <1>5, <2>1, <2>2, TwinIs
<1>9. MoreScored(Context(main), Context(u)) /\ MoreScored(Context(u), Context(main))
  BY <1>3, <1>5, <1>7, <1>8, TwinScored
<1>10. MoreIntrinsic(Context(main), Context(u)) /\ MoreIntrinsic(Context(u), Context(main))
  <2>1. Mic(main) = Mic(u)
    BY <1>8 DEF Mic
  <2> QED
    BY <1>3, <1>5, <1>7, <2>1, TwinIntrinsic
<1>11. IsFiniteSet(main.iocs) /\ IsFiniteSet(u.iocs)
  BY <1>8, ScoredWell, WellIs
<1>12. Reasons(main) \subseteq Reasons(u)
  BY <1>9, <1>10, <1>11, AllFollow, Zenon
<1>13. Reasons(u) \subseteq Reasons(main)
  BY <1>9, <1>10, <1>11, AllFollow, Zenon
<1> QED
  BY <1>12, <1>13

-----------------------------------------------------------------------------
(* Forking and merging keep tracers well-formed *)

\* A set that is counted by another has as many elements.
LEMMA OneToOne ==
  ASSUME NEW P, NEW Q, IsFiniteSet(Q), NEW b \in [P -> Q], \A p, q \in P : b[p] = b[q] => p = q, \A k \in Q : \E p \in P : b[p] = k
  PROVE  IsFiniteSet(P) /\ Cardinality(P) = Cardinality(Q)
<1>1. b \in Injection(P, Q)
  BY DEF Injection, IsInjective
<1>2. b \in Surjection(P, Q)
  BY DEF Surjection
<1> QED
  BY <1>1, <1>2, FS_Injection

\* A bijection that keeps the order of a total order keeps the ranks.
Ordered(P, K, b) ==
  /\ b \in [P -> K] /\ (\A p, q \in P : b[p] = b[q] => p = q) /\ \A k \in K : \E p \in P : b[p] = k
  /\ \A p, q \in P : Sooner(p, q) => b[p] < b[q]
  /\ \A p, q \in P : p # q => Sooner(p, q) \/ Sooner(q, p)

\* An order-preserving bijection onto numbers is known by its ranks.
LEMMA SameRank ==
  ASSUME NEW P, NEW K \in SUBSET Nat, IsFiniteSet(K), NEW b, Ordered(P, K, b)
  PROVE  /\ Cardinality(K) = Cardinality(P)
         /\ \A k \in K, p \in P : Cardinality({j \in K : j < k}) = Cardinality({q \in P : Sooner(q, p)}) => b[p] = k
<1>1. /\ b \in [P -> K] /\ (\A p, q \in P : b[p] = b[q] => p = q) /\ \A k \in K : \E p \in P : b[p] = k
      /\ \A p, q \in P : Sooner(p, q) => b[p] < b[q]
      /\ \A p, q \in P : p # q => Sooner(p, q) \/ Sooner(q, p)
  BY DEF Ordered
<1>2. Cardinality(K) = Cardinality(P)
  BY <1>1, OneToOne
<1>3. ASSUME NEW k \in K, NEW p \in P, Cardinality({j \in K : j < k}) = Cardinality({q \in P : Sooner(q, p)})
      PROVE  b[p] = k
  <2> DEFINE L(n) == {j \in K : j < n}
             S == {q \in P : Sooner(q, p)}
             m == b[p]
             c == [q \in S |-> b[q]]
  <2>1. m \in K /\ m \in Nat /\ k \in Nat
    BY <1>1
  <2>2. \A n \in K : IsFiniteSet(L(n))
    BY FS_Subset
  <2>3. Cardinality(S) = Cardinality(L(m))
    <3>1. c \in [S -> L(m)] /\ \A q, r \in S : c[q] = c[r] => q = r
      BY <1>1
    <3>2. ASSUME NEW j \in L(m) PROVE \E q \in S : c[q] = j
      <4>1. PICK q \in P : b[q] = j
        BY <1>1
      <4>2. j < m /\ j \in Nat
        OBVIOUS
      <4>3. q # p
        BY <2>1, <4>1, <4>2
      <4>4. ~Sooner(p, q)
        BY <1>1, <2>1, <4>1, <4>2
      <4>5. Sooner(q, p)
        BY <1>1, <4>3, <4>4
      <4> QED
        BY <4>1, <4>5
    <3>3. IsFiniteSet(L(m))
      BY <2>1, <2>2
    <3> HIDE DEF S, L, c, m
    <3> QED
      BY <3>1, <3>2, <3>3, OneToOne
  <2>4. Cardinality(L(k)) = Cardinality(L(m))
    BY <1>3, <2>3
  <2>5. ~(k < m)
    <3> SUFFICES ASSUME k < m PROVE FALSE
        OBVIOUS
    <3>0. \A j \in K : j < k => j < m
      BY <2>1
    <3>1. L(k) \in SUBSET L(m) /\ k \in L(m) /\ k \notin L(k)
      <4>1. k \in L(m)
        BY <2>1
      <4>2. k \notin L(k)
        BY <2>1
      <4>3. L(k) \subseteq L(m)
        BY <3>0
      <4> HIDE DEF L, m
      <4> QED
        BY <4>1, <4>2, <4>3
    <3>2. IsFiniteSet(L(m))
      BY <2>1, <2>2
    <3> HIDE DEF L
    <3> QED
      BY <2>4, <3>1, <3>2, FS_Subset
  <2>6. ~(m < k)
    <3> SUFFICES ASSUME m < k PROVE FALSE
        OBVIOUS
    <3>0. \A j \in K : j < m => j < k
      BY <2>1
    <3>1. L(m) \in SUBSET L(k) /\ m \in L(k) /\ m \notin L(m)
      <4>1. m \in L(k)
        BY <2>1
      <4>2. m \notin L(m)
        BY <2>1
      <4>3. L(m) \subseteq L(k)
        BY <3>0
      <4> HIDE DEF L, m
      <4> QED
        BY <4>1, <4>2, <4>3
    <3>2. IsFiniteSet(L(k))
      BY <2>2
    <3> HIDE DEF L
    <3> QED
      BY <2>4, <3>1, <3>2, FS_Subset
  <2> QED
    BY <2>1, <2>5, <2>6
<1> QED
  BY <1>2, <1>3

\* What goes into a set are pairs.
LEMMA PartIsPairs ==
  ASSUME NEW log, LogOK(log), NEW H \in SUBSET DOMAIN log, NEW s
  PROVE  Part(log, H, s) \subseteq Pairs
<1>1. ASSUME NEW k \in H PROVE Share(log[k].step, s) \subseteq Pairs
  BY HeardIs DEF LogOK, Share
<1> QED
  BY <1>1 DEF Part

\* A tracer in order is within its caps.
LEMMA WellWithin ==
  ASSUME NEW t, NEW log, NEW H, NEW n, Well(t, log, H, TRUE, n)
  PROVE  Within(t, n) /\ t.seq = Len(t.events)
<1>1. LogOK(log) /\ H \in SUBSET DOMAIN log /\ Holds(t, log, H, n) /\ Records(t, log, H, TRUE)
  BY DEF Well
<1>2. ASSUME NEW s \in Sets PROVE t[s] \subseteq Pairs /\ Below(t[s], n)
  BY <1>1, PartIsPairs DEF Holds
<1>3. ASSUME NEW s \in Sets, NEW p \in t[s] PROVE p[1] \in Fields
  BY <1>2, <1>3 DEF Pairs
<1>4. Within(t, n)
  BY <1>2, <1>3 DEF Within, Below
<1>5. t.seq = Len(t.events)
  BY <1>1 DEF Records, Recording, Sorted
<1> QED
  BY <1>4, <1>5

\* The type invariant.
LEMMA WellFormed == ASSUME IInv PROVE TypeOK
<1>1. phase \in {"load", "explore", "exit", "scored"} /\ now \in 0..MaxNow
  BY DEF IInv, PhaseInv
<1>2. Within(main, MainCap) /\ main.seq = Len(main.events)
  BY WellWithin DEF IInv, MainInv
<1>3. ASSUME NEW w \in DOMAIN forked PROVE Within(forked[w], MaxIOC) /\ forked[w].seq = Len(forked[w].events)
  <2>1. phase = "explore" /\ DOMAIN forked = W
    BY DEF IInv, ForkInv
  <2>2. Well(forked[w], told, Own(told, w), TRUE, MaxIOC)
    BY <2>1 DEF IInv, ForkInv
  <2> QED
    BY <2>2, WellWithin
<1> QED
  BY <1>1, <1>2, <1>3 DEF TypeOK, MainCap

\* What one runtime made, and where the merge has put it.
LEMMA Runtime ==
  ASSUME LogOK(told), NEW b, Recording(main, told, DOMAIN told, TRUE, b), NEW who
  PROVE  /\ Cardinality(RecordedBy(who)) = Cardinality(MadeBy(who))
         /\ \A k \in RecordedBy(who), p \in MadeBy(who) :
               Cardinality({j \in RecordedBy(who) : j < k}) = Cardinality({q \in MadeBy(who) : Sooner(q, p)}) => b[p] = k
         /\ MadeBy(who) \subseteq Made(told, DOMAIN told)
<1> DEFINE D == DOMAIN told
           P == MadeBy(who)
           K == RecordedBy(who)
           c == [p \in P |-> b[p]]
           N == Len(main.events)
<1>1. D \in SUBSET DOMAIN told
  OBVIOUS
<1>2. /\ b \in [Made(told, D) -> DOMAIN main.events]
      /\ \A p, q \in Made(told, D) : b[p] = b[q] => p = q
      /\ \A n \in DOMAIN main.events : \E p \in Made(told, D) : b[p] = n
      /\ \A p \in Made(told, D) : main.events[b[p]] = Stamp(told, p, b[p], Author(told, StepOf(p), TRUE))
      /\ \A p, q \in Made(told, D) : Sooner(p, q) /\ Author(told, StepOf(p), TRUE) = Author(told, StepOf(q), TRUE) => b[p] < b[q]
  BY DEF Recording
<1>3. DOMAIN main.events = 1..N /\ N \in Nat
  BY RecordedIs
<1>4. P = {p \in Made(told, D) : told[StepOf(p)].who = who}
  <2>1. ASSUME NEW p \in P PROVE p \in Made(told, D) /\ told[StepOf(p)].who = who
    <3>1. PICK k \in D : told[k].who = who /\ p \in {k} \X DOMAIN told[k].step.call.events
      BY DEF MadeBy
    <3> QED
      BY <3>1 DEF Made, StepOf
  <2>2. ASSUME NEW p \in Made(told, D), told[StepOf(p)].who = who PROVE p \in P
    <3>1. PICK k \in D : p \in {k} \X DOMAIN told[k].step.call.events
      BY DEF Made
    <3>2. told[k].who = who
      BY <2>2, <3>1 DEF StepOf
    <3> QED
      BY <3>1, <3>2 DEF MadeBy
  <2> QED
    BY <2>1, <2>2
<1>5. K = {k \in DOMAIN main.events : main.events[k].by = who}
  BY DEF RecordedBy
<1>6. \A p \in Made(told, D) : main.events[b[p]].by = told[StepOf(p)].who
  <2> SUFFICES ASSUME NEW p \in Made(told, D) PROVE main.events[b[p]].by = told[StepOf(p)].who
      OBVIOUS
  <2>1. main.events[b[p]] = Stamp(told, p, b[p], Author(told, StepOf(p), TRUE))
    BY <1>2
  <2>2. Stamp(told, p, b[p], Author(told, StepOf(p), TRUE)).by = Author(told, StepOf(p), TRUE)
    BY DEF Stamp, Entry
  <2> QED
    BY <2>1, <2>2 DEF Author
<1>7. \A p, q \in Made(told, D) : p # q => Sooner(p, q) \/ Sooner(q, p)
  <2> SUFFICES ASSUME NEW p \in Made(told, D), NEW q \in Made(told, D), p # q PROVE Sooner(p, q) \/ Sooner(q, p)
      OBVIOUS
  <2>1. /\ p = <<StepOf(p), PlaceOf(p)>> /\ StepOf(p) \in Nat /\ PlaceOf(p) \in Nat
        /\ q = <<StepOf(q), PlaceOf(q)>> /\ StepOf(q) \in Nat /\ PlaceOf(q) \in Nat
    BY <1>1, MadeIs
  <2>2. StepOf(p) # StepOf(q) \/ PlaceOf(p) # PlaceOf(q)
    BY <2>1
  <2> QED
    BY <2>1, <2>2, SoonerIs
<1> HIDE DEF D, P, K, N
<1>8. Ordered(P, K, c)
  <2>1. c \in [P -> K] /\ \A p, q \in P : c[p] = c[q] => p = q
    BY <1>2, <1>4, <1>5, <1>6
  <2>2. \A k \in K : \E p \in P : c[p] = k
    BY <1>2, <1>4, <1>5, <1>6
  <2>3. \A p, q \in P : Sooner(p, q) => c[p] < c[q]
    BY <1>2, <1>4 DEF Author
  <2>4. \A p, q \in P : p # q => Sooner(p, q) \/ Sooner(q, p)
    BY <1>4, <1>7
  <2> QED
    BY <2>1, <2>2, <2>3, <2>4 DEF Ordered
<1>9. K \in SUBSET Nat /\ IsFiniteSet(K)
  <2>1. IsFiniteSet(1..N) /\ K \in SUBSET (1..N)
    BY <1>3, <1>5, FS_Interval
  <2>2. IsFiniteSet(K)
    BY <2>1, FS_Subset
  <2>3. K \in SUBSET Nat
    BY <1>3, <2>1
  <2> QED
    BY <2>2, <2>3
<1>10. Cardinality(K) = Cardinality(P)
  BY <1>8, <1>9, SameRank
<1>11. \A k \in K, p \in P : Cardinality({j \in K : j < k}) = Cardinality({q \in P : Sooner(q, p)}) => c[p] = k
  <2> HIDE DEF c
  <2> QED
    BY <1>8, <1>9, SameRank
<1>12. \A p \in P : c[p] = b[p]
  OBVIOUS
<1>13. P \subseteq Made(told, D)
  BY <1>4
<1> HIDE DEF c
<1> QED
  BY <1>10, <1>11, <1>12, <1>13 DEF P, K, D

\* The timeline is complete.
LEMMA CompleteTimeline == ASSUME IInv PROVE TimelineIsComplete
<1> SUFFICES ASSUME phase \in {"exit", "scored"}
             PROVE  /\ \A k \in DOMAIN main.events : main.events[k].seq = k
                    /\ \A k \in 2..Len(main.events) : main.events[k - 1].at <= main.events[k].at
                    /\ \A who \in {"main"} \cup W :
                          /\ Cardinality(RecordedBy(who)) = Cardinality(MadeBy(who))
                          /\ \A k \in RecordedBy(who), p \in MadeBy(who) :
                                Cardinality({j \in RecordedBy(who) : j < k}) = Cardinality({q \in MadeBy(who) : Sooner(q, p)})
                                => /\ main.events[k].op = told[p[1]].step.call.events[p[2]].op
                                   /\ main.events[k].args = told[p[1]].step.call.events[p[2]].args
    BY Zenon DEF TimelineIsComplete
<1> DEFINE D == DOMAIN told
<1>1. Well(main, told, D, TRUE, MainCap)
  BY DEF IInv, MainInv, MainTold
<1>2. LogOK(told) /\ Records(main, told, D, TRUE) /\ D \in SUBSET DOMAIN told
  BY <1>1 DEF Well
<1>3. PICK b : Recording(main, told, D, TRUE, b)
  BY <1>2 DEF Records
<1>4. /\ DOMAIN main.events = 1..Len(main.events) /\ Len(main.events) \in Nat
      /\ \A n \in DOMAIN main.events : main.events[n].at \in Nat /\ main.events[n].seq = n
  BY <1>2, <1>3, RecordedIs
<1>5. ASSUME NEW k \in 2..Len(main.events) PROVE main.events[k - 1].at <= main.events[k].at
  <2>1. k \in DOMAIN main.events /\ k - 1 \in DOMAIN main.events /\ k - 1 <= k
    BY <1>4
  <2> QED
    BY <1>3, <2>1 DEF Recording, Sorted
<1>6. ASSUME NEW who
      PROVE  /\ Cardinality(RecordedBy(who)) = Cardinality(MadeBy(who))
             /\ \A k \in RecordedBy(who), p \in MadeBy(who) :
                   Cardinality({j \in RecordedBy(who) : j < k}) = Cardinality({q \in MadeBy(who) : Sooner(q, p)}) => b[p] = k
             /\ MadeBy(who) \subseteq Made(told, D)
  BY <1>2, <1>3, Runtime
<1>7. ASSUME NEW who, NEW k \in RecordedBy(who), NEW p \in MadeBy(who),
             Cardinality({j \in RecordedBy(who) : j < k}) = Cardinality({q \in MadeBy(who) : Sooner(q, p)})
      PROVE  /\ main.events[k].op = told[p[1]].step.call.events[p[2]].op
             /\ main.events[k].args = told[p[1]].step.call.events[p[2]].args
  <2>1. b[p] = k /\ p \in Made(told, D)
    BY <1>6, <1>7
  <2>2. main.events[k] = Stamp(told, p, k, Author(told, StepOf(p), TRUE))
    BY <1>3, <2>1 DEF Recording
  <2> DEFINE x == told[p[1]]
             e == x.step.call.events[p[2]]
             author == Author(told, StepOf(p), TRUE)
             s == Stamp(told, p, k, author)
  <2>3. s.op = e.op /\ s.args = e.args
    <3>1. s = [seq |-> k, at |-> x.at, by |-> author, src |-> x.step.scope, muted |-> x.step.muted,
               cat |-> e.cat, op |-> e.op, args |-> e.args, note |-> e.note]
      BY Zenon DEF Stamp, Entry
    <3> HIDE DEF x, e, author, s
    <3> QED
      BY <3>1
  <2> QED
    BY <2>2, <2>3
<1> QED
  BY <1>4, <1>5, <1>6, <1>7, Zenon

\* Both together.
LEMMA SoundMerge == ASSUME IInv PROVE MergeIsSound
BY WellFormed, CompleteTimeline DEF MergeIsSound

-----------------------------------------------------------------------------
(* A lone capability *)

\* The stubs that decode.
Decoders == {"eval", "bufferFrom", "atob", "fromCharCode"}
\* What a stub that is a lone capability can tell.
Tells(stub, c) ==
  /\ \A e \in Range(c.events) : e.cat # "net"
  /\ \A p \in c.adds : /\ p[1] \in {"EnvAccessed", "Paths", "FilesWritten", "FilesDeleted", "CryptoOps", "Commands"}
                       /\ p[1] = "FilesDeleted" => stub = "delete"
                       /\ p[1] = "CryptoOps" => stub = "cipher"
                       /\ p[1] = "FilesWritten" => stub = "write"
  /\ c.decoded # {} => stub \in Decoders

\* A stub that tells one event and one indicator,
LEMMA TellsOne ==
  ASSUME NEW stub, NEW e, e.cat # "net", NEW f, NEW i, f \in {"EnvAccessed", "Paths", "Commands"}
                                  \/ (f = "FilesDeleted" /\ stub = "delete") \/ (f = "CryptoOps" /\ stub = "cipher")
                                  \/ (f = "FilesWritten" /\ stub = "write")
  PROVE  Tells(stub, Told(<<e>>, {<<f, i>>})) /\ Tells(stub, Told(<<e>>, {})) /\ Tells(stub, Told(<<>>, {}))
<1>1. Range(<<e>>) = {e} /\ Range(<<>>) = {}
  BY DEF Range
<1> QED
  BY <1>1 DEF Tells, Told

\* one event only,
LEMMA TellsSome ==
  ASSUME NEW stub, NEW e, e.cat # "net"
  PROVE  Tells(stub, Told(<<e>>, {})) /\ Tells(stub, Told(<<>>, {}))
BY TellsOne

\* or decodes something.
LEMMA TellsDecoded ==
  ASSUME NEW stub \in Decoders, NEW c, Tells(stub, c), CallOK(c), NEW i
  PROVE  Tells(stub, Decoded(c, i))
<1>1. Decoded(c, i) = [events |-> c.events, adds |-> c.adds, decoded |-> {i}, watched |-> c.watched, tainted |-> c.tainted]
  BY DEF CallOK, Decoded
<1> QED
  BY <1>1 DEF Tells

\* The stubs that do not decode,
LEMMA PlainTells ==
  ASSUME NEW i, NEW j, NEW quiet
  PROVE  /\ Tells("env", EnvRead(i)) /\ Tells("delete", Delete(i, quiet)) /\ Tells("cipher", Cipher(i))
         /\ Tells("hostInfo", HostInfo) /\ Tells("spawn", Spawn("spawn", i))
<1>1. \A cat, op, args : Event(cat, op, args).cat = cat
  BY DEF Event
<1>2. Tells("env", EnvRead(i))
  <2> DEFINE e == Event("env", "process.env", <<i>>)
  <2>1. e.cat = "env"
    BY <1>1
  <2> HIDE DEF e
  <2>2. Tells("env", Told(<<e>>, {<<"EnvAccessed", i>>}))
    BY <2>1, TellsOne
  <2> QED
    BY <2>2 DEF EnvRead, e
<1>3. Tells("delete", Delete(i, quiet))
  <2>1. Tells("delete", Told(<<Event("fs", "unlinkSync", <<i>>)>>, {<<"FilesDeleted", i>>}))
    BY <1>1, TellsOne
  <2>2. Tells("delete", Silence)
    BY <1>1, TellsSome DEF Silence
  <2> QED
    BY <2>1, <2>2 DEF Delete, Unless
<1>4. Tells("cipher", Cipher(i))
  BY <1>1, TellsOne DEF Cipher
<1>5. Tells("hostInfo", HostInfo)
  BY <1>1, TellsSome DEF HostInfo
<1>6. Tells("spawn", Spawn("spawn", i))
  BY <1>1, TellsOne DEF Spawn
<1> QED
  BY <1>2, <1>3, <1>4, <1>5, <1>6

\* those of files,
LEMMA FileTells ==
  ASSUME NEW i \in Items, NEW j \in Items
  PROVE  Tells("read", Read(i, j)) /\ Tells("write", Write(i, j))
<1>1. \A cat, op, args : Event(cat, op, args).cat = cat
  BY DEF Event
<1>2. Tells("read", Read(i, j))
  <2> DEFINE t == Told(<<Event("fs", "readFileSync", <<i>>)>>, {<<"Paths", i>>})
             from == ReadSources(i, j)
  <2>1. Tells("read", t)
    BY <1>1, TellsOne
  <2>2. CallOK(t)
    BY EventIsOK, FieldsAre, ToldOne
  <2>3. Read(i, j) = [t EXCEPT !.watched = from.watched, !.tainted = from.tainted]
    BY DEF Read
  <2> HIDE DEF t, from
  <2>4. Read(i, j) = [events |-> t.events, adds |-> t.adds, decoded |-> t.decoded, watched |-> from.watched, tainted |-> from.tainted]
    BY <2>2, <2>3 DEF CallOK
  <2> QED
    BY <2>1, <2>4 DEF Tells
<1>3. Tells("write", Write(i, j))
  <2> DEFINE e == Event("fs", "writeFileSync", <<i, j>>)
             adds == {<<"FilesWritten", i>>} \cup IF Executable(i, j) THEN {<<"Commands", j>>} ELSE {}
  <2>1. Write(i, j) = Told(<<e>>, adds)
    BY DEF Write
  <2>2. e.cat = "fs"
    BY <1>1
  <2>3. \A p \in adds : p[1] \in {"FilesWritten", "Commands"}
    OBVIOUS
  <2> HIDE DEF e, adds
  <2>4. Range(<<e>>) = {e}
    BY DEF Range
  <2>5. Told(<<e>>, adds).events = <<e>> /\ Told(<<e>>, adds).adds = adds /\ Told(<<e>>, adds).decoded = {}
    BY DEF Told
  <2> QED
    BY <2>1, <2>2, <2>3, <2>4, <2>5 DEF Tells
<1> QED
  BY <1>2, <1>3

\* and those of code.
LEMMA CodeTells ==
  ASSUME NEW i \in Items, NEW quiet \in BOOLEAN
  PROVE  /\ Tells("eval", Eval(i, quiet)) /\ Tells("bufferFrom", BufferFrom(i)) /\ Tells("atob", Atob(i, quiet))
         /\ Tells("fromCharCode", FromCharCode(i, quiet))
<1>0. "eval" \in Decoders /\ "bufferFrom" \in Decoders /\ "atob" \in Decoders /\ "fromCharCode" \in Decoders
  BY DEF Decoders
<1>1. \A cat, op, args : Event(cat, op, args).cat = cat
  BY DEF Event
<1>2. Tells("bufferFrom", BufferFrom(i))
  <2>1. CallOK(Told(<<Event("eval", "Buffer.from(base64)", <<i>>)>>, {}))
    BY EventIsOK, ToldOne
  <2>2. Tells("bufferFrom", Told(<<Event("eval", "Buffer.from(base64)", <<i>>)>>, {}))
    BY <1>1, TellsSome
  <2> QED
    BY <1>0, <2>1, <2>2, TellsDecoded DEF BufferFrom
<1>3. Tells("atob", Atob(i, quiet))
  <2> DEFINE event == Unless(quiet, Told(<<Event("eval", "atob", <<i>>)>>, {}))
  <2>1. CallOK(event)
    BY EventIsOK, ToldOne, UnlessIsOK
  <2>2. Tells("atob", event)
    BY <1>1, TellsSome DEF Unless, Silence
  <2>3. Atob(i, quiet) = event \/ Atob(i, quiet) = Decoded(event, i)
    BY DEF Atob
  <2> HIDE DEF event
  <2> QED
    BY <1>0, <2>1, <2>2, <2>3, TellsDecoded
<1>4. Tells("fromCharCode", FromCharCode(i, quiet))
  <2> DEFINE t == Told(<<Event("eval", "deobfuscate", <<i>>)>>, {})
  <2>1. CallOK(t)
    BY EventIsOK, ToldOne
  <2>2. Tells("fromCharCode", t)
    BY <1>1, TellsSome
  <2>3. Tells("fromCharCode", Silence)
    BY <1>1, TellsSome DEF Silence
  <2>4. FromCharCode(i, quiet) = Silence \/ FromCharCode(i, quiet) = Decoded(t, i)
    BY DEF FromCharCode, Unless
  <2> HIDE DEF t
  <2> QED
    BY <1>0, <2>1, <2>2, <2>3, <2>4, TellsDecoded
<1>5. Tells("eval", Eval(i, quiet))
  <2> DEFINE d == Event("eval", "decrypt-then-eval", <<i>>)
             e == Event("eval", "dynamic-code", <<i>>)
             deciphered == IF Has(i, "deciphered") THEN <<d>> ELSE <<>>
             code == Told(deciphered \o <<e>>, {})
  <2>1. EventOK(d) /\ EventOK(e) /\ d.cat = "eval" /\ e.cat = "eval"
    BY <1>1, EventIsOK
  <2>2. deciphered = <<>> \/ deciphered = <<d>>
    OBVIOUS
  <2>3. Eval(i, quiet) \in {Told(deciphered, {}), Decoded(code, i), code}
    BY DEF Eval
  <2> HIDE DEF d, e, deciphered
  <2>4. deciphered \o <<e>> = <<e>> \/ deciphered \o <<e>> = <<d, e>>
    <3>1. CASE deciphered = <<>>
      BY <3>1
    <3>2. CASE deciphered = <<d>>
      BY <3>2, Joined
    <3> QED
      BY <2>2, <3>1, <3>2
  <2>5. EventsOK(deciphered \o <<e>>)
    BY <2>1, <2>4, FewEvents
  <2>6. CallOK(code)
    BY <2>5, OnePair, ToldIsOK
  <2>7. Tells("eval", Told(deciphered, {}))
    BY <2>1, <2>2, TellsSome
  <2>8. Range(<<e>>) = {e} /\ Range(<<d, e>>) = {d, e}
    BY DEF Range
  <2>9. Tells("eval", code)
    BY <2>1, <2>4, <2>8 DEF Tells, Told
  <2> HIDE DEF code
  <2> QED
    BY <1>0, <2>3, <2>6, <2>7, <2>9, TellsDecoded
<1> QED
  BY <1>2, <1>3, <1>4, <1>5

\* Together: what a lone capability tells.
LEMMA LoneTells ==
  ASSUME NEW do \in DoType, do.stub \in Capabilities, NEW quiet \in BOOLEAN
  PROVE  Tells(do.stub, Perform(do, quiet))
<1>1. do.on \in Items /\ do.with \in Items
  BY DEF DoType
<1>2. CASE do.stub = "env"
  <2>1. Perform(do, quiet) = EnvRead(do.on)
    BY <1>2 DEF Perform
  <2> QED
    BY <1>2, <2>1, PlainTells
<1>3. CASE do.stub = "read"
  <2>1. Perform(do, quiet) = Read(do.on, do.with)
    BY <1>3 DEF Perform
  <2> QED
    BY <1>1, <1>3, <2>1, FileTells
<1>4. CASE do.stub = "write"
  <2>1. Perform(do, quiet) = Write(do.on, do.with)
    BY <1>4 DEF Perform
  <2> QED
    BY <1>1, <1>4, <2>1, FileTells
<1>5. CASE do.stub = "delete"
  <2>1. Perform(do, quiet) = Delete(do.on, quiet)
    BY <1>5 DEF Perform
  <2> QED
    BY <1>5, <2>1, PlainTells
<1>6. CASE do.stub = "eval"
  <2>1. Perform(do, quiet) = Eval(do.on, quiet)
    BY <1>6 DEF Perform
  <2> QED
    BY <1>1, <1>6, <2>1, CodeTells
<1>7. CASE do.stub = "bufferFrom"
  <2>1. Perform(do, quiet) = BufferFrom(do.on)
    BY <1>7 DEF Perform
  <2> QED
    BY <1>1, <1>7, <2>1, CodeTells
<1>8. CASE do.stub = "atob"
  <2>1. Perform(do, quiet) = Atob(do.on, quiet)
    BY <1>8 DEF Perform
  <2> QED
    BY <1>1, <1>8, <2>1, CodeTells
<1>9. CASE do.stub = "fromCharCode"
  <2>1. Perform(do, quiet) = FromCharCode(do.on, quiet)
    BY <1>9 DEF Perform
  <2> QED
    BY <1>1, <1>9, <2>1, CodeTells
<1>10. CASE do.stub = "cipher"
  <2>1. Perform(do, quiet) = Cipher(do.on)
    BY <1>10 DEF Perform
  <2> QED
    BY <1>10, <2>1, PlainTells
<1>11. CASE do.stub = "hostInfo"
  <2>1. Perform(do, quiet) = HostInfo
    BY <1>11 DEF Perform
  <2> QED
    BY <1>11, <2>1, PlainTells
<1>12. CASE do.stub = "spawn"
  <2>1. Perform(do, quiet) = Spawn("spawn", do.on)
    BY <1>12 DEF Perform
  <2> QED
    BY <1>12, <2>1, PlainTells
<1> QED
  BY <1>2, <1>3, <1>4, <1>5, <1>6, <1>7, <1>8, <1>9, <1>10, <1>11, <1>12 DEF Capabilities

\* What the scored view holds of such a run.
Lone(c) ==
  /\ \A e \in c.events : e.cat # "net"
  /\ In(c.ic, {"Payloads"}) = {} /\ In(c.ic, {"Secrets"}) = {} /\ In(c.ic, {"Onion"}) = {}
  /\ In(c.ic, {"CryptoOps"}) = {} \/ In(c.ic, {"FilesWritten"}) = {}
  /\ In(c.ic, {"FilesDeleted"}) = {} \/ In(c.ic, {"Decoded"}) = {}
  /\ Matching(c.ic, {"FilesWritten"}, "sensitive") = {}

\* A scan finds only what it looks for.
LEMMA ScanFinds ==
  ASSUME NEW items \in SUBSET Items
  PROVE  \A p \in Scan(items) : p[1] \in Found
<1> SUFFICES ASSUME NEW p \in Scan(items) PROVE p[1] \in Found
    OBVIOUS
<1>1. PICK i \in items : p \in Text[i].finds
  BY DEF Scan
<1>2. p \in Found \X Items
  BY <1>1, TextAssumption
<1> QED
  BY <1>2

\* Where an indicator of a step comes from.
LEMMA HeardFrom ==
  ASSUME NEW x, StepOK(x), NEW p, p \in Heard(x) \cup Bared(x)
  PROVE  p[1] \in Found \/ p \in x.call.adds \/ (p[1] = "Decoded" /\ x.call.decoded # {})
<1>1. EventsOK(x.call.events) /\ x.call.decoded \subseteq Items
  BY DEF StepOK, CallOK
<1>2. UNION {Said(e) : e \in Range(x.call.events)} \subseteq Items
  BY <1>1, SaidIs DEF EventsOK
<1>3. \A q \in Scan(UNION {Said(e) : e \in Range(x.call.events)}) : q[1] \in Found
  BY <1>2, ScanFinds
<1>4. \A q \in Scan(x.call.decoded) : q[1] \in Found
  BY <1>1, ScanFinds
<1>5. CASE p \in Heard(x)
  BY <1>3, <1>5 DEF Heard
<1>6. CASE p \in Bared(x)
  <2>1. CASE p \in Scan(x.call.decoded)
    BY <1>4, <2>1
  <2>2. CASE p \in {<<"Decoded", i>> : i \in x.call.decoded}
    BY <2>2
  <2> QED
    BY <1>6, <2>1, <2>2 DEF Bared
<1> QED
  BY <1>5, <1>6

\* A sample that asks one stub only shows a lone capability.
LEMMA OneStubOnly ==
  ASSUME IInv, Scored, NEW stub \in Capabilities, \A x \in Range(told) : x.step.do.stub = stub,
         Matching(main.iocs, {"FilesWritten"}, "sensitive") = {}, In(main.iocs, {"Secrets", "Onion"}) = {}
  PROVE  Lone(Context(main))
<1> DEFINE D == DOMAIN told
<1>1. Well(main, told, D, TRUE, MainCap) /\ LogOK(told) /\ D \in SUBSET DOMAIN told
  BY ScoredWell
<1>2. ASSUME NEW k \in D PROVE Tells(stub, told[k].step.call) /\ StepOK(told[k].step)
  <2>1. PICK s \in PlanStep : told[k].step = Step(s)
    BY DEF IInv, LogInv, LogUpTo, Entered
  <2>2. /\ Step(s) = [call |-> Perform(s.do, s.quiet), scope |-> s.scope, muted |-> s.muted, do |-> s.do]
        /\ s.do \in DoType /\ s.quiet \in BOOLEAN /\ StepOK(Step(s))
    BY StepIsOK
  <2>3. told[k].step.do = s.do /\ told[k].step.call = Perform(s.do, s.quiet)
    BY <2>1, <2>2
  <2>4. told[k].step.do.stub = stub
    BY DEF Range
  <2>5. Tells(stub, Perform(s.do, s.quiet))
    BY <2>2, <2>3, <2>4, LoneTells
  <2> QED
    BY <2>1, <2>2, <2>3, <2>5
<1>3. ASSUME NEW p \in main.iocs
      PROVE  /\ p[1] # "Payloads" /\ (p[1] = "CryptoOps" => stub = "cipher") /\ (p[1] = "FilesWritten" => stub = "write")
             /\ (p[1] = "FilesDeleted" => stub = "delete") /\ (p[1] = "Decoded" => stub \in Decoders)
  <2>1. main["iocs"] \subseteq Part(told, D, "iocs")
    BY <1>1, SetsAre DEF Well, Holds
  <2>2. p \in Part(told, D, "iocs")
    BY <2>1
  <2>3. PICK k \in D : p \in Share(told[k].step, "iocs")
    BY <2>2 DEF Part
  <2>4. p \in Heard(told[k].step) \cup Bared(told[k].step)
    BY <2>3 DEF Share
  <2>5. p[1] \in Found \/ p \in told[k].step.call.adds \/ (p[1] = "Decoded" /\ told[k].step.call.decoded # {})
    BY <1>2, <2>4, HeardFrom
  <2>6. CASE p[1] \in Found
    BY <2>6 DEF Found
  <2>7. CASE p \in told[k].step.call.adds
    BY <1>2, <2>7 DEF Tells
  <2>8. CASE p[1] = "Decoded" /\ told[k].step.call.decoded # {}
    BY <1>2, <2>8 DEF Tells
  <2> QED
    BY <2>5, <2>6, <2>7, <2>8
<1>4. ASSUME NEW e \in Context(main).events PROVE e.cat # "net"
  <2>1. PICK b : Recording(main, told, D, TRUE, b)
    BY <1>1 DEF Well, Records
  <2>2. e \in Seen(main, FALSE)
    BY ContextIs
  <2>3. PICK n \in DOMAIN main.events : e = main.events[n]
    BY <2>2 DEF Seen, Range
  <2>4. PICK p \in Made(told, D) : b[p] = n
    BY <2>1 DEF Recording
  <2>5. StepOf(p) \in D /\ PlaceOf(p) \in DOMAIN told[StepOf(p)].step.call.events
    BY <1>1, MadeIs
  <2>6. e = Stamp(told, p, b[p], Author(told, StepOf(p), TRUE))
    BY <2>1, <2>3, <2>4 DEF Recording
  <2>7. e.cat = told[StepOf(p)].step.call.events[PlaceOf(p)].cat
    BY <2>6 DEF Stamp, Entry, StepOf, PlaceOf
  <2>8. told[StepOf(p)].step.call.events[PlaceOf(p)] \in Range(told[StepOf(p)].step.call.events)
    BY <2>5 DEF Range
  <2> QED
    BY <1>2, <2>5, <2>7, <2>8 DEF Tells
<1>5. Context(main).ic = main.iocs
  BY ContextIs
<1>6. \A f : In(main.iocs, {f}) # {} => \E p \in main.iocs : p[1] = f
  BY DEF In
<1>7. In(main.iocs, {"Payloads"}) = {}
  BY <1>3, <1>6
<1>8. In(main.iocs, {"Secrets"}) = {} /\ In(main.iocs, {"Onion"}) = {}
  BY DEF In
<1>9. In(main.iocs, {"CryptoOps"}) = {} \/ In(main.iocs, {"FilesWritten"}) = {}
  BY <1>3, <1>6
<1>10. In(main.iocs, {"FilesDeleted"}) = {} \/ In(main.iocs, {"Decoded"}) = {}
  BY <1>3, <1>6 DEF Decoders
<1> QED
  BY <1>4, <1>5, <1>7, <1>8, <1>9, <1>10 DEF Lone

-----------------------------------------------------------------------------
(* What remains of the verdict *)

\* The gates that stay closed.
Gated(c) ==
  /\ HardNet(c) = {} /\ NetURLs(c) = {} /\ ~SuspiciousNet(c) /\ ~Correlated(c) /\ ~(Count(c.events, "net") > 0)
  /\ \A f \in {"Payloads", "Secrets", "Onion"} : ~(Cardinality(In(c.ic, {f})) > 0)
  /\ ~(Matching(c.ic, {"CryptoOps"}, "cipher") # {} /\ Cardinality(In(c.ic, {"FilesWritten"})) >= 3)
  /\ ~(Cardinality(In(c.ic, {"FilesDeleted"})) > 0 /\ Cardinality(In(c.ic, {"Decoded"})) > 0)
  /\ (Cardinality(In(c.ic, {"FilesDeleted"})) > 0 => In(c.ic, {"FilesDeleted"}) # {})

\* It opens no gate.
LEMMA LoneGates == ASSUME NEW c, Lone(c) PROVE Gated(c)
<1>0. Cardinality({}) = 0
  BY FS_EmptySet
<1>1. {e \in c.events : e.cat = "net"} = {}
  BY DEF Lone
<1>2. ~(Count(c.events, "net") > 0)
  BY <1>0, <1>1 DEF Count
<1>3. HardNet(c) = {}
  BY <1>1 DEF HardNet, Endpoints
<1>4. NetURLs(c) = {}
  BY <1>3 DEF NetURLs
<1>5. In(c.ic, {"Payloads", "Onion"}) = {}
  BY DEF Lone, In
<1>6. ~SuspiciousNet(c) /\ ~Correlated(c)
  BY <1>3, <1>5 DEF SuspiciousNet, Correlated, Lone
<1>7. \A f : In(c.ic, {f}) = {} => ~(Cardinality(In(c.ic, {f})) > 0) /\ ~(Cardinality(In(c.ic, {f})) >= 3)
  BY <1>0
<1>8. In(c.ic, {"CryptoOps"}) = {} => Matching(c.ic, {"CryptoOps"}, "cipher") = {}
  BY DEF Matching
<1>9. \A f \in {"Payloads", "Secrets", "Onion"} : ~(Cardinality(In(c.ic, {f})) > 0)
  BY <1>7 DEF Lone
<1>10. ~(Matching(c.ic, {"CryptoOps"}, "cipher") # {} /\ Cardinality(In(c.ic, {"FilesWritten"})) >= 3)
  BY <1>7, <1>8 DEF Lone
<1>11. ~(Cardinality(In(c.ic, {"FilesDeleted"})) > 0 /\ Cardinality(In(c.ic, {"Decoded"})) > 0)
  BY <1>7 DEF Lone
<1>12. Cardinality(In(c.ic, {"FilesDeleted"})) > 0 => In(c.ic, {"FilesDeleted"}) # {}
  BY <1>7
<1> QED
  BY <1>2, <1>3, <1>4, <1>6, <1>9, <1>10, <1>11, <1>12 DEF Gated

\* The two reasons left.
Deletes == [why |-> <<"deletes files">>, weight |-> 18, view |-> "scored"]
Probing == [why |-> <<"sandbox probes">>, weight |-> 20, view |-> "both"]

\* What a reason says.
LEMMA ReasonIs ==
  ASSUME NEW view, NEW why, NEW weight, NEW holds, NEW r \in Reason(view, why, weight, holds)
  PROVE  holds /\ r = [why |-> <<why>>, weight |-> weight, view |-> view]
BY DEF Reason

\* The parts of the verdict.
LEMMA LoneCode ==
  ASSUME NEW c, Lone(c), NEW r \in DynamicCode(c)
  PROVE  r.view = "intrinsic" \/ (r = Deletes /\ In(c.ic, {"FilesDeleted"}) # {})
<1> DEFINE seen(cat) == Count(c.events, cat)
           n(field) == Cardinality(In(c.ic, {field}))
           acts == Count(c.intrinsic, "net") > 0 \/ Count(c.intrinsic, "eval") > 0
           g1 == seen("net") > 0 /\ (HardNet(c) # {} \/ n("Payloads") > 0)
           g3 == seen("eval") > 0 /\ Correlated(c)
           g4 == seen("eval") >= 5 /\ Correlated(c)
           g8 == n("FilesWritten") > 0 /\ Correlated(c)
           g9 == n("FilesDeleted") > 0
           g10 == n("Wallets") > 0 /\ (NetURLs(c) # {} \/ n("Payloads") > 0)
           g11 == n("Onion") > 0
           g12 == n("Secrets") > 0 /\ (SuspiciousNet(c) \/ seen("net") > 0)
           g13 == n("Payloads") > 0 /\ seen("net") > 0
           g14 == Matching(c.ic, {"CryptoOps"}, "cipher") # {} /\ n("FilesWritten") >= 3
           g15 == n("Decoded") > 0 /\ Correlated(c)
           g16 == n("Decoded") > 0 /\ SuspiciousNet(c)
           g17 == n("FilesDeleted") > 0 /\ n("Decoded") > 0 /\ seen("eval") > 0
           i2 == Fetched(c) # {} /\ Count(c.intrinsic, "net") > 0
           i5 == Matching(c.mic, {"Decoded"}, "loader") # {}
           i6 == \E e \in c.intrinsic : e.op = "decrypt-then-eval"
           i7 == acts /\ \E i \in In(c.mic, {"Decoded"}) : Hides(i)
<1>1. Gated(c)
  BY LoneGates
<1>2. ~g1 /\ ~g3 /\ ~g4 /\ ~g8 /\ ~g10 /\ ~g11 /\ ~g12 /\ ~g13 /\ ~g14 /\ ~g15 /\ ~g16 /\ ~g17
  BY <1>1 DEF Gated
<1>3. g9 => In(c.ic, {"FilesDeleted"}) # {}
  BY <1>1 DEF Gated
<1>4. \/ r \in Reason("scored", "network activity", 20, g1) \/ r \in Reason("intrinsic", "download and execute", 60, i2)
      \/ r \in Reason("scored", "dynamic code", 20, g3) \/ r \in Reason("scored", "packed code", 15, g4)
      \/ r \in Reason("intrinsic", "decoded loader", 60, i5) \/ r \in Reason("intrinsic", "decrypt then eval", 60, i6)
      \/ r \in Reason("intrinsic", "hidden endpoint", 60, i7) \/ r \in Reason("scored", "writes files", 15, g8)
      \/ r \in Reason("scored", "deletes files", 18, g9) \/ r \in Reason("scored", "wallets", 30, g10)
      \/ r \in Reason("scored", "onion", 25, g11) \/ r \in Reason("scored", "secrets", 20, g12)
      \/ r \in Reason("scored", "payloads", 15, g13) \/ r \in Reason("scored", "ransomware", 25, g14)
      \/ r \in Reason("scored", "decodes", 10, g15) \/ r \in Reason("scored", "staged loader", 15, g16)
      \/ r \in Reason("scored", "wiper", 45, g17)
  BY Zenon DEF DynamicCode
<1> HIDE DEF g1, g3, g4, g8, g9, g10, g11, g12, g13, g14, g15, g16, g17, i2, i5, i6, i7
<1>5. /\ r \notin Reason("scored", "network activity", 20, g1)
      /\ r \notin Reason("scored", "dynamic code", 20, g3)
      /\ r \notin Reason("scored", "packed code", 15, g4)
      /\ r \notin Reason("scored", "writes files", 15, g8)
      /\ r \notin Reason("scored", "wallets", 30, g10)
      /\ r \notin Reason("scored", "onion", 25, g11)
      /\ r \notin Reason("scored", "secrets", 20, g12)
      /\ r \notin Reason("scored", "payloads", 15, g13)
      /\ r \notin Reason("scored", "ransomware", 25, g14)
      /\ r \notin Reason("scored", "decodes", 10, g15)
      /\ r \notin Reason("scored", "staged loader", 15, g16)
      /\ r \notin Reason("scored", "wiper", 45, g17)
  BY <1>2, Zenon DEF Reason
<1>6. \/ r \in Reason("intrinsic", "download and execute", 60, i2) \/ r \in Reason("intrinsic", "decoded loader", 60, i5)
      \/ r \in Reason("intrinsic", "decrypt then eval", 60, i6) \/ r \in Reason("intrinsic", "hidden endpoint", 60, i7)
      \/ r \in Reason("scored", "deletes files", 18, g9)
  BY <1>4, <1>5, Zenon
<1>7. \A w, x, v : r \in Reason("intrinsic", w, x, v) => r.view = "intrinsic"
  BY ReasonView
<1>8. r \in Reason("scored", "deletes files", 18, g9) => g9 /\ r = Deletes
  BY ReasonIs DEF Deletes
<1> QED
  BY <1>3, <1>6, <1>7, <1>8, Zenon

\* No sensitive path scores,
LEMMA LonePaths ==
  ASSUME NEW c, Lone(c), NEW r \in SensitivePaths(c)
  PROVE  r.view = "intrinsic"
<1>1. ~SuspiciousNet(c) /\ ~Correlated(c) /\ Matching(c.ic, {"FilesWritten"}, "sensitive") = {}
  BY LoneGates DEF Lone, Gated
<1>2. r \in Reason("intrinsic", "registry hijack", 45, WritesBoth(c, "registry file", "foreign registry"))
  BY <1>1 DEF SensitivePaths, PerItem
<1> QED
  BY <1>2, ReasonView

\* no exfiltration,
LEMMA LoneExfil ==
  ASSUME NEW c, NEW r \in ExfilAndProc(c)
  PROVE  r.view = "intrinsic"
<1>1. \A w, x, v : r \in Reason("intrinsic", w, x, v) => r.view = "intrinsic"
  BY ReasonView
<1> QED
  BY <1>1, Zenon DEF ExfilAndProc

\* no command,
LEMMA LoneCommands ==
  ASSUME NEW c, Lone(c), ~Injects(c), NEW r \in CommandSignatures(c)
  PROVE  r.view = "intrinsic"
<1> DEFINE commands(trait) == Matching(c.mic, {"Commands"}, trait) # {}
           worm == commands("publish") /\ (Injects(c) \/ Correlated(c))
<1>1. \A w, x, v : r \in Reason("intrinsic", w, x, v) => r.view = "intrinsic"
  BY ReasonView
<1>2. ~worm
  BY LoneGates DEF Gated
<1>3. r \in Matched(c) => r.view = "intrinsic"
  BY <1>1 DEF Matched
<1>4. r \notin Reason("both", "worm", 60, worm)
  BY <1>2 DEF Reason
<1>5. CASE r \in Matched(c)
  BY <1>3, <1>5
<1>6. CASE r \notin Matched(c)
  <2> DEFINE native == \E w \in Writes(c) : Has(w[1], "native addon")
             extracted == commands("extracts") /\ commands("runs from stage")
  <2>1. \/ r \in Reason("intrinsic", "staged download", 60, StagedDownload(c))
        \/ r \in Reason("intrinsic", "drop and exec", 60, DropAndExec(c))
        \/ r \in Reason("intrinsic", "injection", 60, Injects(c))
        \/ r \in Reason("intrinsic", "native addon", 60, native)
        \/ r \in Reason("intrinsic", "extract and run", 60, extracted)
        \/ r \in Reason("both", "worm", 60, worm)
    BY <1>6, Zenon DEF CommandSignatures
  <2> HIDE DEF native, extracted, worm
  <2> QED
    BY <2>1, <1>1, <1>4, Zenon
<1> QED
  BY <1>5, <1>6

\* and of evasion only the probes.
LEMMA LoneEvasion ==
  ASSUME NEW c, Lone(c), NEW r \in EvasionAndEndpoints(c)
  PROVE  r.view = "intrinsic" \/ (r = Probing /\ Probes(c))
<1> DEFINE g4 == Count(c.events, "os") > 0 /\ HardNet(c) # {}
           g5 == HardNet(c) # {}
           i1 == \E e \in c.intrinsic : e.op = "inspector.open"
           i2 == \E e \in c.intrinsic : e.op = "dns.setServers"
<1>1. ~g4 /\ ~g5
  BY LoneGates DEF Gated
<1>2. \/ r \in Reason("intrinsic", "inspector", 60, i1) \/ r \in Reason("intrinsic", "dns hijack", 45, i2)
      \/ r \in Reason("both", "sandbox probes", 20, Probes(c)) \/ r \in Reason("scored", "fingerprint", 8, g4)
      \/ r \in Reason("scored", "endpoints", 10, g5)
  BY Zenon DEF EvasionAndEndpoints
<1> HIDE DEF g4, g5, i1, i2
<1>3. r \notin Reason("scored", "fingerprint", 8, g4) /\ r \notin Reason("scored", "endpoints", 10, g5)
  BY <1>1, Zenon DEF Reason
<1>4. \A w, x, v : r \in Reason("intrinsic", w, x, v) => r.view = "intrinsic"
  BY ReasonView
<1>5. r \in Reason("both", "sandbox probes", 20, Probes(c)) => Probes(c) /\ r = Probing
  BY ReasonIs DEF Probing
<1> QED
  BY <1>2, <1>3, <1>4, <1>5, Zenon

\* What scores is one of two reasons, and not both.
LEMMA LoneVerdict == ASSUME IInv PROVE LoneCapability
<1> DEFINE c == Context(main)
           R == Reasons(main)
<1> SUFFICES ASSUME Scored, NEW stub \in Capabilities, \A x \in Range(told) : x.step.do.stub = stub,
                    Viewed(main, "intrinsic") = {}, Matching(main.iocs, {"FilesWritten"}, "sensitive") = {},
                    In(main.iocs, {"Secrets", "Onion"}) = {},
                    In(main.iocs, {"FilesDeleted"}) = {} \/ ~Probes(Context(main))
             PROVE  Score(Reasons(main)) < 30
    BY DEF LoneCapability
<1>1. Lone(c)
  BY OneStubOnly
<1>2. c.ic = main.iocs
  BY ContextIs
<1>3. R = ExfilAndProc(c) \cup DynamicCode(c) \cup SensitivePaths(c) \cup CommandSignatures(c)
          \cup EvasionAndEndpoints(c) \cup CustomTaint(c) \cup StaticObfuscation(c)
  BY DEF Reasons
<1>4. \A r \in R : r.view # "intrinsic"
  BY DEF Viewed
<1>5. ~Injects(c)
  <2> SUFFICES ASSUME Injects(c) PROVE FALSE
      OBVIOUS
  <2> DEFINE r == [why |-> <<"injection">>, weight |-> 60, view |-> "intrinsic"]
  <2>1. r \in Reason("intrinsic", "injection", 60, Injects(c))
    BY DEF Reason
  <2>2. r.view = "intrinsic"
    OBVIOUS
  <2> HIDE DEF r, c, R
  <2>3. r \in CommandSignatures(c)
    BY <2>1, Zenon DEF CommandSignatures
  <2> QED
    BY <1>3, <1>4, <2>2, <2>3
<1>6. \A r \in CustomTaint(c) : r.view = "intrinsic"
  BY DEF CustomTaint
<1>7. \A r \in StaticObfuscation(c) : r.view = "intrinsic"
  BY ReasonView DEF StaticObfuscation
<1> HIDE DEF c, R
<1>8. ASSUME NEW r \in R PROVE (r = Deletes /\ In(c.ic, {"FilesDeleted"}) # {}) \/ (r = Probing /\ Probes(c))
  <2>1. r.view # "intrinsic"
    BY <1>4
  <2>2. r \in DynamicCode(c) => r = Deletes /\ In(c.ic, {"FilesDeleted"}) # {}
    BY <1>1, <2>1, LoneCode
  <2>3. r \in EvasionAndEndpoints(c) => r = Probing /\ Probes(c)
    BY <1>1, <2>1, LoneEvasion
  <2>4. r \notin SensitivePaths(c)
    BY <1>1, <2>1, LonePaths
  <2>5. r \notin ExfilAndProc(c)
    BY <2>1, LoneExfil
  <2>6. r \notin CommandSignatures(c)
    BY <1>1, <1>5, <2>1, LoneCommands
  <2>7. r \notin CustomTaint(c) /\ r \notin StaticObfuscation(c)
    BY <1>6, <1>7, <2>1
  <2> QED
    BY <1>3, <2>2, <2>3, <2>4, <2>5, <2>6, <2>7
<1>0. Weighed({Deletes}) /\ Weighed({Probing})
  <2>1. IsFiniteSet({Deletes}) /\ IsFiniteSet({Probing})
    BY FS_Singleton
  <2>2. Deletes.weight \in Nat /\ Probing.weight \in Nat
    BY DEF Deletes, Probing
  <2> QED
    BY <2>1, <2>2 DEF Weighed
<1>9. R \in SUBSET {Deletes} \/ R \in SUBSET {Probing}
  <2>1. CASE In(main.iocs, {"FilesDeleted"}) = {}
    BY <1>2, <1>8, <2>1
  <2>2. CASE ~Probes(Context(main))
    BY <1>8, <2>2 DEF c
  <2> QED
    BY <2>1, <2>2
<1>10. Deletes.weight = 18 /\ Probing.weight = 20
  BY DEF Deletes, Probing
<1>11. Score(R) <= 20
  <2>1. CASE R \in SUBSET {Deletes}
    <3>1. Deletes.weight \in 0..100 /\ Deletes \in {Deletes}
      BY <1>10
    <3>2. Score(R) <= 18
      BY <1>10, <2>1, <3>1, ScoreOfOne
    <3>3. Score(R) \in 0..100
      BY <1>0, <2>1, ScoreGrows
    <3> QED
      BY <3>2, <3>3
  <2>2. CASE R \in SUBSET {Probing}
    <3>1. Probing.weight \in 0..100
      BY <1>10
    <3> QED
      BY <1>10, <2>2, <3>1, ScoreOfOne
  <2> QED
    BY <1>9, <2>1, <2>2
<1>12. Score(R) \in 0..100
  BY <1>0, <1>9, ScoreGrows
<1> QED
  BY <1>11, <1>12 DEF R

-----------------------------------------------------------------------------
(* The theorems *)

\* Forking and merging keep every tracer well-formed and within its caps, and the
\* merged timeline numbers every event once, in the order of time, each runtime's
\* events in the order in which it recorded them (Tracer.Fork, Tracer.Absorb).
THEOREM MergesAreSound == Spec => []MergeIsSound
<1>1. IInv => MergeIsSound
  BY SoundMerge
<1> QED
  BY <1>1, InductiveInvariant, PTL

\* The verdict does not depend on the workers: however the exploration was spread
\* and in whatever order the steps came, it is that of one tracer that was told
\* everything, unless an indicator set was full (explore.go, Tracer.Absorb).
THEOREM ParallelVerdictIsSerial == Spec => []ParallelIsSerial
<1>1. IInv => ParallelIsSerial
  BY SerialVerdict
<1> QED
  BY <1>1, InductiveInvariant, PTL

\* What the muted sweep does moves no reason of the scored view (Tracer.sink).
THEOREM FuzzDoesNotInflate == Spec => []MutedDoesNotInflate
<1>1. IInv => MutedDoesNotInflate
  BY QuietVerdict
<1> QED
  BY <1>1, InductiveInvariant, PTL

\* Muting hides no intrinsic signature: these are the ones of the run in which
\* nothing was muted (verdict.go, the intrinsic view).
THEOREM MutingHidesNoMalice == Spec => []MutingHidesNothing
<1>1. IInv => MutingHidesNothing
  BY LoudVerdict
<1> QED
  BY <1>1, InductiveInvariant, PTL

\* What devDependencies do outside the sweep has no part in the verdict, but for the
\* values they have watched (Tracer.sink, Tracer.muteByScope).
THEOREM DevDependenciesDoNotScore == Spec => []DevDoesNotScore
<1>1. IInv => DevDoesNotScore
  BY DevVerdict
<1> QED
  BY <1>1, InductiveInvariant, PTL

\* One powerful interface is no verdict: a sample that asks one stub only, not one
\* of the network, and matches no signature stays below 30 (verdict.go).
THEOREM LoneCapabilitiesStayLow == Spec => []LoneCapability
<1>1. IInv => LoneCapability
  BY LoneVerdict
<1> QED
  BY <1>1, InductiveInvariant, PTL
=============================================================================
