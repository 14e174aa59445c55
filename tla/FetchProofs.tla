---------------------------- MODULE FetchProofs ----------------------------
(***************************************************************************)
(* Proofs about Fetch, for every registry, every set of requests, every     *)
(* archive and every number of workers.                                     *)
(***************************************************************************)
EXTENDS Fetch, FiniteSetTheorems, SequenceTheorems, TLAPS

-----------------------------------------------------------------------------
(* Induction, stated for sets because a set can be handed to the provers *)

\* A set of natural numbers that is not empty has a least element.
LEMMA LeastOf ==
  ASSUME NEW T \in SUBSET Nat, T # {}
  PROVE  \E m \in T : \A k \in T : m <= k
<1> DEFINE below == {0..n : n \in T}
<1>1. below \subseteq FiniteSubsetsOf(Nat) /\ below # {}
  <2>1. \A n \in T : IsFiniteSet(0..n) /\ 0..n \in SUBSET Nat
    BY FS_Interval
  <2> QED
    BY <2>1 DEF FiniteSubsetsOf
<1>2. PICK x \in below : \A y \in below : <<y, x>> \notin StrictSubsetOrdering(Nat)
  BY <1>1, FS_StrictSubsetOrderingWellFounded, WFMin
<1>3. PICK m \in T : x = 0..m
  BY <1>2
<1>4. ASSUME NEW k \in T, k < m PROVE FALSE
  <2>1. 0..k \in below /\ 0..k \subseteq 0..m /\ m \notin 0..k /\ m \in 0..m
    BY <1>4
  <2>2. <<0..k, 0..m>> \in StrictSubsetOrdering(Nat)
    BY <2>1 DEF StrictSubsetOrdering
  <2> QED
    BY <1>2, <1>3, <2>1, <2>2
<1> QED
  BY <1>4

\* Induction up to n.
LEMMA UpTo ==
  ASSUME NEW S, NEW n \in Nat, 0 \in S, \A i \in 0..(n - 1) : i \in S => i + 1 \in S
  PROVE  0..n \subseteq S
<1> SUFFICES ASSUME ~(0..n \subseteq S) PROVE FALSE
    OBVIOUS
<1> DEFINE T == {i \in 0..n : i \notin S}
<1>1. T \in SUBSET Nat /\ T # {}
  OBVIOUS
<1>2. PICK m \in T : \A k \in T : m <= k
  BY <1>1, LeastOf
<1>3. m # 0 /\ m - 1 \in 0..(n - 1) /\ m - 1 \notin T
  BY <1>2
<1> QED
  BY <1>2, <1>3

-----------------------------------------------------------------------------
(* Reading an archive entry by entry *)

IsReading(es, n, g) ==
  g = [i \in 0..n |-> IF i = 0 THEN Opened ELSE ExtractEntry(g[i - 1], es[i])]

\* The recursion over the entries has a solution.
LEMMA ReadingExists ==
  ASSUME NEW es, NEW n \in Nat
  PROVE  \E g : IsReading(es, n, g)
<1> DEFINE S == {k \in 0..n : \E g : IsReading(es, k, g)}
<1>1. 0 \in S
  <2> DEFINE g == [i \in 0..0 |-> Opened]
  <2>1. IsReading(es, 0, g)
    BY DEF IsReading
  <2> QED
    BY <2>1
<1>2. ASSUME NEW k \in 0..(n - 1), k \in S PROVE k + 1 \in S
  <2>1. PICK g : IsReading(es, k, g)
    BY <1>2
  <2> DEFINE h == [i \in 0..(k + 1) |-> IF i <= k THEN g[i] ELSE ExtractEntry(g[k], es[k + 1])]
  <2>2. \A i \in 0..(k + 1) : h[i] = IF i = 0 THEN Opened ELSE ExtractEntry(h[i - 1], es[i])
    <3> SUFFICES ASSUME NEW i \in 0..(k + 1)
                 PROVE  h[i] = IF i = 0 THEN Opened ELSE ExtractEntry(h[i - 1], es[i])
        OBVIOUS
    <3>1. \A j \in 0..k : g[j] = IF j = 0 THEN Opened ELSE ExtractEntry(g[j - 1], es[j])
      BY <2>1 DEF IsReading
    <3>2. CASE i = k + 1
      BY <3>2
    <3>3. CASE i \in 0..k
      BY <3>1, <3>3
    <3> QED
      BY <3>2, <3>3
  <2> HIDE DEF h
  <2>3. h = [i \in 0..(k + 1) |-> h[i]]
    BY DEF h
  <2>4. IsReading(es, k + 1, h)
    BY <2>2, <2>3 DEF IsReading
  <2> QED
    BY <2>4
<1>3. 0..n \subseteq S
  <2> HIDE DEF S
  <2> QED
    BY <1>1, <1>2, UpTo
<1> QED
  BY <1>3

\* What Extract returns is the end of a run over the entries.
LEMMA ExtractIsReading ==
  ASSUME NEW es, Len(es) \in Nat
  PROVE  \E g : IsReading(es, Len(es), g) /\ Extract(es) = g[Len(es)]
<1>1. \E g : g = [i \in 0..Len(es) |-> IF i = 0 THEN Opened ELSE ExtractEntry(g[i - 1], es[i])]
  BY ReadingExists DEF IsReading
<1> QED
  BY <1>1 DEF Extract, IsReading

-----------------------------------------------------------------------------
(* Least elements *)

\* A strict partial order on a finite set has a minimal element.
LEMMA MinimalExists ==
  ASSUME NEW M, IsFiniteSet(M), M # {}, NEW R,
         \A a \in M : <<a, a>> \notin R,
         \A a, b, c \in M : <<a, b>> \in R /\ <<b, c>> \in R => <<a, c>> \in R
  PROVE  \E m \in M : \A q \in M : <<q, m>> \notin R
<1> DEFINE under(p) == {q \in M : <<q, p>> \in R}
<1> DEFINE family == {under(p) : p \in M}
<1>1. family \subseteq FiniteSubsetsOf(M) /\ family # {}
  <2>1. ASSUME NEW p \in M PROVE IsFiniteSet(under(p)) /\ under(p) \in SUBSET M
    <3>1. under(p) \in SUBSET M
      OBVIOUS
    <3> HIDE DEF under
    <3> QED
      BY <3>1, FS_Subset
  <2> HIDE DEF under
  <2> QED
    BY <2>1 DEF FiniteSubsetsOf
<1>2. PICK x \in family : \A y \in family : <<y, x>> \notin StrictSubsetOrdering(M)
  BY <1>1, FS_StrictSubsetOrderingWellFounded, WFMin
<1>3. PICK m \in M : x = under(m)
  BY <1>2
<1>4. ASSUME NEW q \in M, <<q, m>> \in R PROVE FALSE
  <2>1. under(q) \subseteq under(m) /\ q \in under(m) /\ q \notin under(q)
    BY <1>4
  <2>2. <<under(q), under(m)>> \in StrictSubsetOrdering(M)
    BY <2>1 DEF StrictSubsetOrdering
  <2> QED
    BY <1>2, <1>3, <2>2
<1> QED
  BY <1>4

-----------------------------------------------------------------------------
(* Paths and trees *)

Path == Seq(Nat)

\* A path cut after k components.
LEMMA StartIsPath ==
  ASSUME NEW p \in Path, NEW k \in 0..Len(p)
  PROVE  /\ SubSeq(p, 1, k) \in Path /\ Len(SubSeq(p, 1, k)) = k
         /\ \A i \in 1..k : SubSeq(p, 1, k)[i] = p[i]
<1>1. Len(p) \in Nat /\ \A i \in 1..k : p[i] \in Nat
  BY ElementOfSeq, LenProperties DEF Path
<1>2. /\ SubSeq(p, 1, k) \in Path
      /\ Len(SubSeq(p, 1, k)) = IF 1 <= k THEN k - 1 + 1 ELSE 0
      /\ \A i \in 1..(k - 1 + 1) : SubSeq(p, 1, k)[i] = p[1 + i - 1]
  BY <1>1, SubSeqProperties DEF Path
<1> QED
  BY <1>1, <1>2

\* The paths above a path are paths, and those above them are among them.
LEMMA UpwardsIs ==
  ASSUME NEW p \in Path
  PROVE  /\ Upwards(p) \subseteq Path /\ p \in Upwards(p)
         /\ \A q \in Upwards(p) : Upwards(q) \subseteq Upwards(p)
<1>0. Len(p) \in Nat
  BY DEF Path
<1>1. ASSUME NEW k \in 0..Len(p) PROVE SubSeq(p, 1, k) \in Path /\ Len(SubSeq(p, 1, k)) = k
  BY <1>0, StartIsPath
<1>2. SubSeq(p, 1, Len(p)) = p
  BY SubSeqFull DEF Path
<1>3. ASSUME NEW k \in 0..Len(p), NEW j \in 0..k
      PROVE  SubSeq(SubSeq(p, 1, k), 1, j) = SubSeq(p, 1, j)
  <2>1. /\ SubSeq(p, 1, k) \in Path /\ Len(SubSeq(p, 1, k)) = k
        /\ \A i \in 1..k : SubSeq(p, 1, k)[i] = p[i]
    BY <1>0, StartIsPath
  <2>2. /\ SubSeq(SubSeq(p, 1, k), 1, j) \in Path /\ Len(SubSeq(SubSeq(p, 1, k), 1, j)) = j
        /\ \A i \in 1..j : SubSeq(SubSeq(p, 1, k), 1, j)[i] = SubSeq(p, 1, k)[i]
    BY <1>0, <2>1, StartIsPath
  <2>3. /\ SubSeq(p, 1, j) \in Path /\ Len(SubSeq(p, 1, j)) = j
        /\ \A i \in 1..j : SubSeq(p, 1, j)[i] = p[i]
    BY <1>0, StartIsPath
  <2>4. \A i \in 1..j : i \in 1..k
    BY <1>0
  <2> QED
    BY <2>1, <2>2, <2>3, <2>4, SeqEqual DEF Path
<1> QED
  <2>1. \A q \in Upwards(p) : \E k \in 0..Len(p) : q = SubSeq(p, 1, k)
    BY DEF Upwards
  <2>2. ASSUME NEW k \in 0..Len(p) PROVE Upwards(SubSeq(p, 1, k)) \subseteq Upwards(p)
    <3>1. Upwards(SubSeq(p, 1, k)) = {SubSeq(SubSeq(p, 1, k), 1, j) : j \in 0..k}
      BY <1>1 DEF Upwards
    <3>2. \A j \in 0..k : SubSeq(SubSeq(p, 1, k), 1, j) \in Upwards(p)
      BY <1>0, <1>3 DEF Upwards
    <3> QED
      BY <3>1, <3>2
  <2>3. p \in Upwards(p)
    <3>1. \A k \in 0..Len(p) : SubSeq(p, 1, k) \in Upwards(p)
      BY DEF Upwards
    <3>2. Len(p) \in 0..Len(p)
      BY <1>0
    <3> QED
      BY <1>2, <3>1, <3>2
  <2>4. Upwards(p) \subseteq Path
    BY <1>1, <2>1
  <2> QED
    BY <2>1, <2>2, <2>3, <2>4

LEMMA FrontIsPath ==
  ASSUME NEW p \in Path
  PROVE  Front(p) \in Path
<1>1. CASE p = <<>>
  BY <1>1 DEF Path, Front
<1>2. CASE p # <<>>
  BY <1>2, StartIsPath, EmptySeq DEF Path, Front
<1> QED
  BY <1>1, <1>2

\* A well-formed tree: finitely many files, and every directory above a file or a
\* directory.
IsTree(t) ==
  /\ t = [files |-> t.files, dirs |-> t.dirs]
  /\ DOMAIN t.files \subseteq Path /\ IsFiniteSet(DOMAIN t.files)
  /\ t.dirs \subseteq Path
  /\ \A p \in DOMAIN t.files : Upwards(Front(p)) \subseteq t.dirs
  /\ \A p \in t.dirs : Upwards(p) \subseteq t.dirs

LEMMA UpwardsOfNothing == Upwards(<<>>) = {<<>>} /\ <<>> \in Path
<1>1. Len(<<>>) = 0 /\ <<>> \in Path
  BY EmptySeq DEF Path
<1>2. SubSeq(<<>>, 1, 0) \in Path /\ Len(SubSeq(<<>>, 1, 0)) = 0
  BY <1>1, StartIsPath
<1>3. SubSeq(<<>>, 1, 0) = <<>>
  BY <1>2, EmptySeq DEF Path
<1>4. PICK e : e = <<>>
  OBVIOUS
<1>5. 0..Len(e) = {0} /\ SubSeq(e, 1, 0) = e /\ e \in Path
  BY <1>1, <1>3, <1>4
<1>6. Upwards(e) = {SubSeq(e, 1, k) : k \in {0}}
  BY <1>5 DEF Upwards
<1> QED
  BY <1>4, <1>5, <1>6

LEMMA EmptyTreeIs == IsTree(EmptyTree)
<1>1. DOMAIN EmptyTree.files = {} /\ EmptyTree.dirs = {<<>>}
  BY DEF EmptyTree
<1>2. EmptyTree = [files |-> EmptyTree.files, dirs |-> EmptyTree.dirs]
  BY DEF EmptyTree
<1> QED
  BY <1>1, <1>2, UpwardsOfNothing, FS_EmptySet DEF IsTree

LEMMA MkdirKeeps ==
  ASSUME NEW t, IsTree(t), NEW p \in Path
  PROVE  IsTree(Mkdir(t, p)) /\ Mkdir(t, p).files = t.files
<1>1. /\ Mkdir(t, p).files = t.files /\ Mkdir(t, p).dirs = t.dirs \cup Upwards(p)
      /\ Mkdir(t, p) = [files |-> Mkdir(t, p).files, dirs |-> Mkdir(t, p).dirs]
  <2>1. PICK f, d : t = [files |-> f, dirs |-> d]
    BY DEF IsTree
  <2>2. Mkdir(t, p) = [files |-> f, dirs |-> d \cup Upwards(p)]
    BY <2>1 DEF Mkdir
  <2> QED
    BY <2>1, <2>2
<1>2. \A q \in t.dirs \cup Upwards(p) : Upwards(q) \subseteq t.dirs \cup Upwards(p)
  BY UpwardsIs DEF IsTree
<1>3. t.dirs \cup Upwards(p) \subseteq Path
  BY UpwardsIs DEF IsTree
<1> QED
  BY <1>1, <1>2, <1>3 DEF IsTree

LEMMA WriteKeeps ==
  ASSUME NEW t, IsTree(t), NEW p \in Path, NEW content
  PROVE  /\ IsTree(Write(t, p, content))
         /\ DOMAIN Write(t, p, content).files = DOMAIN t.files \cup {p}
         /\ Write(t, p, content).files[p] = content
         /\ \A q \in DOMAIN t.files : q # p => Write(t, p, content).files[q] = t.files[q]
<1> DEFINE above == Mkdir(t, Front(p))
<1> DEFINE new == Write(t, p, content)
<1>1. IsTree(above) /\ above.files = t.files
  BY FrontIsPath, MkdirKeeps
<1>2. above.dirs = t.dirs \cup Upwards(Front(p))
  BY DEF Mkdir, IsTree
<1>3. /\ new.dirs = above.dirs
      /\ new.files = [q \in DOMAIN t.files \cup {p} |-> IF q = p THEN content ELSE t.files[q]]
      /\ new = [files |-> new.files, dirs |-> new.dirs]
  <2> HIDE DEF above
  <2>1. above = [files |-> above.files, dirs |-> above.dirs]
    BY <1>1 DEF IsTree
  <2>2. new = [above EXCEPT !.files =
                 [q \in DOMAIN @ \cup {p} |-> IF q = p THEN content ELSE @[q]]]
    BY DEF Write, above
  <2> HIDE DEF new
  <2> QED
    BY <1>1, <2>1, <2>2
<1> HIDE DEF new, above
<1>4. IsFiniteSet(DOMAIN new.files) /\ DOMAIN new.files = DOMAIN t.files \cup {p}
  BY <1>3, FS_AddElement DEF IsTree
<1>5. IsTree(new)
  <2>1. \A q \in DOMAIN new.files : Upwards(Front(q)) \subseteq new.dirs
    BY <1>1, <1>2, <1>3, <1>4 DEF IsTree
  <2> QED
    BY <1>1, <1>3, <1>4, <2>1 DEF IsTree
<1> QED
  BY <1>3, <1>4, <1>5 DEF new

-----------------------------------------------------------------------------
(* What a reading has stored *)

IsSum(es, n, u) == u = [i \in 0..n |-> IF i = 0 THEN 0 ELSE u[i - 1] + es[i].size]

LEMMA SumExists ==
  ASSUME NEW es, NEW n \in Nat
  PROVE  \E u : IsSum(es, n, u)
<1> DEFINE S == {k \in 0..n : \E u : IsSum(es, k, u)}
<1>1. 0 \in S
  <2> DEFINE u == [i \in 0..0 |-> 0]
  <2>1. IsSum(es, 0, u)
    BY DEF IsSum
  <2> QED
    BY <2>1
<1>2. ASSUME NEW k \in 0..(n - 1), k \in S PROVE k + 1 \in S
  <2>1. PICK u : IsSum(es, k, u)
    BY <1>2
  <2> DEFINE h == [i \in 0..(k + 1) |-> IF i <= k THEN u[i] ELSE u[k] + es[k + 1].size]
  <2>2. \A i \in 0..(k + 1) : h[i] = IF i = 0 THEN 0 ELSE h[i - 1] + es[i].size
    <3> SUFFICES ASSUME NEW i \in 0..(k + 1)
                 PROVE  h[i] = IF i = 0 THEN 0 ELSE h[i - 1] + es[i].size
        OBVIOUS
    <3>1. \A j \in 0..k : u[j] = IF j = 0 THEN 0 ELSE u[j - 1] + es[j].size
      BY <2>1 DEF IsSum
    <3>2. CASE i = k + 1
      BY <3>2
    <3>3. CASE i \in 0..k
      BY <3>1, <3>3
    <3> QED
      BY <3>2, <3>3
  <2> HIDE DEF h
  <2>3. h = [i \in 0..(k + 1) |-> h[i]]
    BY DEF h
  <2>4. IsSum(es, k + 1, h)
    BY <2>2, <2>3 DEF IsSum
  <2> QED
    BY <2>4
<1>3. 0..n \subseteq S
  <2> HIDE DEF S
  <2> QED
    BY <1>1, <1>2, UpTo
<1> QED
  BY <1>3

LEMMA TotalSizeIsSum ==
  ASSUME NEW es, Len(es) \in Nat
  PROVE  \E u : IsSum(es, Len(es), u) /\ TotalSize(es) = u[Len(es)]
<1>1. \E u : u = [i \in 0..Len(es) |-> IF i = 0 THEN 0 ELSE u[i - 1] + es[i].size]
  BY SumExists DEF IsSum
<1> QED
  BY <1>1 DEF TotalSize, IsSum

\* The last of the first i entries that is stored at p.
LastAt(es, i, p, j) ==
  /\ j \in 1..i /\ Admitted(es[j]) /\ es[j].path = p
  /\ \A k \in (j + 1)..i : ~(Admitted(es[k]) /\ es[k].path = p)

\* The files are those of the first i entries, each whole and each the last one
\* stored at its path.
Holds(es, i, files) ==
  /\ \A p \in DOMAIN files :
       \E j \in 1..i : /\ LastAt(es, i, p, j)
                       /\ files[p] = [size |-> es[j].size, entry |-> es[j]]
  /\ \A j \in 1..i : Admitted(es[j]) => es[j].path \in DOMAIN files

\* The state of an extraction after i entries of u bytes.
Reads(es, i, s, u) ==
  /\ s = [tree |-> s.tree, total |-> s.total, entries |-> s.entries, refused |-> s.refused]
  /\ IsTree(s.tree)
  /\ s.total \in 0..MaxBytes /\ s.total <= u
  /\ s.refused \in BOOLEAN
  /\ s.refused => i > MaxEntries \/ u >= MaxBytes
  /\ ~s.refused => s.entries = i /\ s.total < MaxBytes /\ Holds(es, i, s.tree.files)

\* An entry that is not stored changes no file.
LEMMA HoldsSkips ==
  ASSUME NEW es, NEW i \in Nat, NEW files, Holds(es, i, files), ~Admitted(es[i + 1])
  PROVE  Holds(es, i + 1, files)
<1>1. \A p, j : LastAt(es, i, p, j) => LastAt(es, i + 1, p, j)
  BY DEF LastAt
<1> QED
  BY <1>1 DEF Holds

\* An entry that is stored becomes the last of its path.
LEMMA HoldsStored ==
  ASSUME NEW es, NEW i \in Nat, NEW files, Holds(es, i, files), Admitted(es[i + 1]),
         NEW new, DOMAIN new = DOMAIN files \cup {es[i + 1].path},
         new[es[i + 1].path] = [size |-> es[i + 1].size, entry |-> es[i + 1]],
         \A q \in DOMAIN files : q # es[i + 1].path => new[q] = files[q]
  PROVE  Holds(es, i + 1, new)
<1> DEFINE e == es[i + 1]
<1>1. LastAt(es, i + 1, e.path, i + 1)
  BY DEF LastAt
<1>2. \A p, j : LastAt(es, i, p, j) /\ p # e.path => LastAt(es, i + 1, p, j)
  BY DEF LastAt
<1>3. ASSUME NEW p \in DOMAIN new
      PROVE  \E j \in 1..(i + 1) : /\ LastAt(es, i + 1, p, j)
                                   /\ new[p] = [size |-> es[j].size, entry |-> es[j]]
  <2>1. CASE p = e.path
    BY <1>1, <2>1
  <2>2. CASE p # e.path
    BY <1>2, <2>2 DEF Holds
  <2> QED
    BY <2>1, <2>2
<1>4. \A j \in 1..(i + 1) : Admitted(es[j]) => es[j].path \in DOMAIN new
  BY DEF Holds
<1> QED
  BY <1>3, <1>4 DEF Holds

\* One entry: skipped, refused, or stored whole unless the cap is reached.
LEMMA ReadsStep ==
  ASSUME NEW es \in Seq(Entry), NEW i \in Nat, i + 1 <= Len(es),
         NEW u \in Nat, NEW s, Reads(es, i, s, u)
  PROVE  Reads(es, i + 1, ExtractEntry(s, es[i + 1]), u + es[i + 1].size)
<1> DEFINE e == es[i + 1]
<1>1. e \in Entry /\ e.size \in Nat /\ e.path \in Path
  <2>1. i + 1 \in 1..Len(es)
    BY LenProperties
  <2>2. e \in Entry
    BY <2>1, ElementOfSeq
  <2> QED
    BY <2>2 DEF Entry, Path
<1>2. PICK t, n, c, b : s = [tree |-> t, total |-> n, entries |-> c, refused |-> b]
  <2>1. s = [tree |-> s.tree, total |-> s.total, entries |-> s.entries, refused |-> s.refused]
    BY DEF Reads
  <2> QED
    BY <2>1, Zenon
<1>3. /\ IsTree(t) /\ n \in 0..MaxBytes /\ n <= u /\ b \in BOOLEAN
      /\ b => i > MaxEntries \/ u >= MaxBytes
      /\ ~b => c = i /\ n < MaxBytes /\ Holds(es, i, t.files)
  BY <1>2 DEF Reads
<1>4. MaxBytes \in Nat \ {0} /\ MaxEntries \in Nat
  BY LimitAssumption
<1>4a. \A z : z = u + e.size => z \in Nat /\ z >= u
  BY <1>1
<1>4b. ASSUME NEW x, NEW y \in 0..MaxBytes, NEW k, NEW r \in BOOLEAN, NEW z, z = u + e.size,
              IsTree(x), y <= z, r => i + 1 > MaxEntries \/ z >= MaxBytes,
              ~r => k = i + 1 /\ y < MaxBytes /\ Holds(es, i + 1, x.files)
       PROVE  Reads(es, i + 1, [tree |-> x, total |-> y, entries |-> k, refused |-> r], z)
  BY <1>4b DEF Reads
<1>5. CASE b
  <2>1. ExtractEntry(s, e) = s
    BY <1>2, <1>5 DEF ExtractEntry
  <2>2. n \in 0..MaxBytes /\ n <= u + e.size /\ (i + 1 > MaxEntries \/ u + e.size >= MaxBytes)
    BY <1>1, <1>3, <1>4, <1>5
  <2> QED
    BY <1>2, <1>3, <1>4b, <1>5, <2>1, <2>2
<1> DEFINE counted == [tree |-> t, total |-> n, entries |-> c + 1, refused |-> b]
<1>6. CASE ~b /\ Full(c + 1)
  <2>1. ExtractEntry(s, e) = [tree |-> t, total |-> n, entries |-> c + 1, refused |-> TRUE]
    BY <1>2, <1>6 DEF ExtractEntry
  <2>2. n \in 0..MaxBytes /\ n <= u + e.size /\ i + 1 > MaxEntries
    BY <1>1, <1>3, <1>4, <1>6 DEF Full
  <2> QED
    BY <1>3, <1>4b, <2>1, <2>2
<1>7. CASE ~b /\ ~Full(c + 1) /\ (e.up \/ e.kind = "link")
  <2>1. ExtractEntry(s, e) = counted
    BY <1>1, <1>2, <1>7 DEF ExtractEntry, Entry
  <2>2. ~Admitted(e)
    BY <1>7 DEF Admitted
  <2>3. Holds(es, i + 1, t.files)
    BY <1>3, <1>7, <2>2, HoldsSkips
  <2>4. n \in 0..MaxBytes /\ n <= u + e.size
    BY <1>1, <1>3, <1>4
  <2> QED
    BY <1>3, <1>4b, <1>7, <2>1, <2>3, <2>4
<1>8. CASE ~b /\ ~Full(c + 1) /\ ~e.up /\ e.kind = "dir"
  <2>1. ExtractEntry(s, e) = [tree |-> Mkdir(t, e.path), total |-> n, entries |-> c + 1, refused |-> b]
    BY <1>1, <1>2, <1>8 DEF ExtractEntry, Entry
  <2>2. ~Admitted(e)
    BY <1>8 DEF Admitted
  <2>3. IsTree(Mkdir(t, e.path)) /\ Mkdir(t, e.path).files = t.files
    BY <1>1, <1>3, MkdirKeeps
  <2>4. Holds(es, i + 1, Mkdir(t, e.path).files)
    BY <1>3, <1>8, <2>2, <2>3, HoldsSkips
  <2>5. n \in 0..MaxBytes /\ n <= u + e.size
    BY <1>1, <1>3, <1>4
  <2> QED
    BY <1>3, <1>4b, <1>8, <2>1, <2>3, <2>4, <2>5
<1>9. CASE ~b /\ ~Full(c + 1) /\ ~e.up /\ e.kind = "file"
  <2> DEFINE m == Smaller(e.size, MaxBytes - n)
  <2> DEFINE w == Write(t, e.path, [size |-> m, entry |-> e])
  <2>1. m \in 0..(MaxBytes - n) /\ m <= e.size /\ (n + m < MaxBytes => m = e.size)
    BY <1>1, <1>3, <1>4, <1>9 DEF Smaller
  <2>2. ExtractEntry(s, e) = [tree |-> w, total |-> n + m, entries |-> c + 1,
                              refused |-> CapReached(n + m)]
    BY <1>1, <1>2, <1>9 DEF ExtractEntry, Entry, Store
  <2>3. /\ IsTree(w) /\ DOMAIN w.files = DOMAIN t.files \cup {e.path}
        /\ w.files[e.path] = [size |-> m, entry |-> e]
        /\ \A q \in DOMAIN t.files : q # e.path => w.files[q] = t.files[q]
    BY <1>1, <1>3, WriteKeeps
  <2>4. CapReached(n + m) = (n + m >= MaxBytes)
    BY DEF CapReached
  <2> HIDE DEF w, m
  <2>5. Admitted(e)
    BY <1>9 DEF Admitted
  <2>6. n + m < MaxBytes => Holds(es, i + 1, w.files)
    <3> SUFFICES ASSUME n + m < MaxBytes PROVE Holds(es, i + 1, w.files)
        OBVIOUS
    <3>1. w.files[e.path] = [size |-> e.size, entry |-> e]
      BY <2>1, <2>3
    <3> QED
      BY <1>3, <1>9, <2>3, <2>5, <3>1, HoldsStored
  <2>7. n + m \in 0..MaxBytes /\ n + m <= u + e.size /\ (n + m >= MaxBytes => u + e.size >= MaxBytes)
    BY <1>1, <1>3, <1>4, <2>1, SMTT(20)
  <2>8. /\ CapReached(n + m) \in BOOLEAN
        /\ ~CapReached(n + m) => n + m < MaxBytes
        /\ CapReached(n + m) => u + e.size >= MaxBytes
    <3>1. CapReached(n + m) \in BOOLEAN
      BY <1>4, <2>7 DEF CapReached
    <3>2. n + m < MaxBytes \/ n + m >= MaxBytes
      BY <1>4, <2>7
    <3> QED
      BY <2>4, <2>7, <3>1, <3>2, Zenon
  <2>9. ~CapReached(n + m) => c + 1 = i + 1 /\ n + m < MaxBytes /\ Holds(es, i + 1, w.files)
    <3>1. c + 1 = i + 1
      BY <1>3, <1>9
    <3> QED
      BY <2>6, <2>8, <3>1
  <2>10. n + m \in 0..MaxBytes /\ n + m <= u + e.size
    BY <2>7
  <2> HIDE DEF e
  <2>11. Reads(es, i + 1, [tree |-> w, total |-> n + m, entries |-> c + 1,
                           refused |-> CapReached(n + m)], u + e.size)
    BY <1>4b, <2>3, <2>8, <2>9, <2>10
  <2> QED
    BY <2>2, <2>11 DEF e
<1> QED
  BY <1>1, <1>3, <1>5, <1>6, <1>7, <1>8, <1>9 DEF Entry

\* What an extraction returns is the state after all the entries.
LEMMA ExtractIs ==
  ASSUME NEW es \in Seq(Entry)
  PROVE  Reads(es, Len(es), Extract(es), TotalSize(es))
<1>0. Len(es) \in Nat
  BY LenProperties
<1>1. PICK g : IsReading(es, Len(es), g) /\ Extract(es) = g[Len(es)]
  BY <1>0, ExtractIsReading
<1>2. PICK u : IsSum(es, Len(es), u) /\ TotalSize(es) = u[Len(es)]
  BY <1>0, TotalSizeIsSum
<1>3. /\ g[0] = Opened /\ u[0] = 0
      /\ \A i \in 0..(Len(es) - 1) :
           g[i + 1] = ExtractEntry(g[i], es[i + 1]) /\ u[i + 1] = u[i] + es[i + 1].size
  <2>1. \A i \in 0..Len(es) : g[i] = IF i = 0 THEN Opened ELSE ExtractEntry(g[i - 1], es[i])
    BY <1>1 DEF IsReading
  <2>2. \A i \in 0..Len(es) : u[i] = IF i = 0 THEN 0 ELSE u[i - 1] + es[i].size
    BY <1>2 DEF IsSum
  <2>3. ASSUME NEW i \in 0..(Len(es) - 1)
        PROVE  i + 1 \in 0..Len(es) /\ i + 1 # 0 /\ (i + 1) - 1 = i
    BY <1>0
  <2> QED
    BY <1>0, <2>1, <2>2, <2>3
<1> DEFINE S == {i \in 0..Len(es) : u[i] \in Nat /\ Reads(es, i, g[i], u[i])}
<1>4. 0 \in S
  <2>1. Opened = [tree |-> EmptyTree, total |-> 0, entries |-> 0, refused |-> FALSE]
    BY DEF Opened
  <2>2. Holds(es, 0, EmptyTree.files)
    BY DEF Holds, EmptyTree
  <2>3. 0 \in 0..MaxBytes /\ 0 < MaxBytes
    BY LimitAssumption
  <2>4. Reads(es, 0, Opened, 0)
    BY <2>1, <2>2, <2>3, EmptyTreeIs DEF Reads
  <2> QED
    BY <1>0, <1>3, <2>4
<1>5. ASSUME NEW i \in 0..(Len(es) - 1), i \in S PROVE i + 1 \in S
  <2>1. /\ i \in Nat /\ i + 1 <= Len(es) /\ i + 1 \in 0..Len(es)
        /\ u[i] \in Nat /\ Reads(es, i, g[i], u[i])
    BY <1>0, <1>5
  <2>2. es[i + 1].size \in Nat
    <3>1. es[i + 1] \in Entry
      BY <1>0, <2>1, ElementOfSeq
    <3> QED
      BY <3>1 DEF Entry
  <2>3. PICK n, before, after :
           /\ n \in Nat /\ n = u[i] /\ before = g[i] /\ after = g[i + 1]
           /\ after = ExtractEntry(before, es[i + 1]) /\ u[i + 1] = n + es[i + 1].size
    BY <1>3, <2>1
  <2>4. Reads(es, i + 1, ExtractEntry(before, es[i + 1]), n + es[i + 1].size)
    BY <2>1, <2>3, ReadsStep
  <2>5. Reads(es, i + 1, g[i + 1], u[i + 1]) /\ u[i + 1] \in Nat
    BY <2>2, <2>3, <2>4
  <2> QED
    BY <2>1, <2>5
<1>6. 0..Len(es) \subseteq S
  <2> HIDE DEF S
  <2> QED
    BY <1>0, <1>4, <1>5, UpTo
<1>7. Len(es) \in 0..Len(es)
  BY <1>0
<1> QED
  BY <1>1, <1>2, <1>6, <1>7

\* What ingestDir builds: a tree whose files are whole.
Whole(t) == \A p \in DOMAIN t.files : t.files[p].size = t.files[p].entry.size

IsIngest(es, n, g) ==
  g = [i \in 0..n |-> IF i = 0 THEN EmptyTree ELSE IngestEntry(g[i - 1], es[i])]

LEMMA IngestExists ==
  ASSUME NEW es, NEW n \in Nat
  PROVE  \E g : IsIngest(es, n, g)
<1> DEFINE S == {k \in 0..n : \E g : IsIngest(es, k, g)}
<1>1. 0 \in S
  <2> DEFINE g == [i \in 0..0 |-> EmptyTree]
  <2>1. IsIngest(es, 0, g)
    BY DEF IsIngest
  <2> QED
    BY <2>1
<1>2. ASSUME NEW k \in 0..(n - 1), k \in S PROVE k + 1 \in S
  <2>1. PICK g : IsIngest(es, k, g)
    BY <1>2
  <2> DEFINE h == [i \in 0..(k + 1) |-> IF i <= k THEN g[i] ELSE IngestEntry(g[k], es[k + 1])]
  <2>2. \A i \in 0..(k + 1) : h[i] = IF i = 0 THEN EmptyTree ELSE IngestEntry(h[i - 1], es[i])
    <3> SUFFICES ASSUME NEW i \in 0..(k + 1)
                 PROVE  h[i] = IF i = 0 THEN EmptyTree ELSE IngestEntry(h[i - 1], es[i])
        OBVIOUS
    <3>1. \A j \in 0..k : g[j] = IF j = 0 THEN EmptyTree ELSE IngestEntry(g[j - 1], es[j])
      BY <2>1 DEF IsIngest
    <3>2. CASE i = k + 1
      BY <3>2
    <3>3. CASE i \in 0..k
      BY <3>1, <3>3
    <3> QED
      BY <3>2, <3>3
  <2> HIDE DEF h
  <2>3. h = [i \in 0..(k + 1) |-> h[i]]
    BY DEF h
  <2>4. IsIngest(es, k + 1, h)
    BY <2>2, <2>3 DEF IsIngest
  <2> QED
    BY <2>4
<1>3. 0..n \subseteq S
  <2> HIDE DEF S
  <2> QED
    BY <1>1, <1>2, UpTo
<1> QED
  BY <1>3

LEMMA IngestIs ==
  ASSUME NEW es \in Seq(Entry)
  PROVE  IsTree(Ingest(es)) /\ Whole(Ingest(es))
<1>0. Len(es) \in Nat
  BY LenProperties
<1>1. PICK g : IsIngest(es, Len(es), g) /\ Ingest(es) = g[Len(es)]
  <2>1. \E g : g = [i \in 0..Len(es) |-> IF i = 0 THEN EmptyTree ELSE IngestEntry(g[i - 1], es[i])]
    BY <1>0, IngestExists DEF IsIngest
  <2> QED
    BY <2>1 DEF Ingest, IsIngest
<1>2. /\ g[0] = EmptyTree
      /\ \A i \in 0..(Len(es) - 1) : g[i + 1] = IngestEntry(g[i], es[i + 1])
  <2>1. \A i \in 0..Len(es) : g[i] = IF i = 0 THEN EmptyTree ELSE IngestEntry(g[i - 1], es[i])
    BY <1>1 DEF IsIngest
  <2>2. ASSUME NEW i \in 0..(Len(es) - 1)
        PROVE  i + 1 \in 0..Len(es) /\ i + 1 # 0 /\ (i + 1) - 1 = i
    BY <1>0
  <2> QED
    BY <1>0, <2>1, <2>2
<1> DEFINE S == {i \in 0..Len(es) : IsTree(g[i]) /\ Whole(g[i])}
<1>3. 0 \in S
  BY <1>0, <1>2, EmptyTreeIs DEF Whole, EmptyTree
<1>4. ASSUME NEW i \in 0..(Len(es) - 1), i \in S PROVE i + 1 \in S
  <2>1. i + 1 \in 0..Len(es) /\ i + 1 \in 1..Len(es) /\ IsTree(g[i]) /\ Whole(g[i])
    BY <1>0, <1>4
  <2>2. PICK e : e = es[i + 1]
    OBVIOUS
  <2>3. e \in Entry /\ e.path \in Path /\ e.kind \in {"dir", "file", "link"}
    <3>1. e \in Entry
      BY <2>1, <2>2, ElementOfSeq
    <3> QED
      BY <3>1 DEF Entry, Path
  <2>4. CASE e.kind = "dir"
    <3>1. g[i + 1] = Mkdir(g[i], e.path)
      BY <1>2, <2>2, <2>4 DEF IngestEntry
    <3>2. IsTree(Mkdir(g[i], e.path)) /\ Mkdir(g[i], e.path).files = g[i].files
      BY <2>1, <2>3, MkdirKeeps
    <3>3. Whole(g[i + 1])
      BY <2>1, <3>1, <3>2 DEF Whole
    <3> QED
      BY <2>1, <3>1, <3>2, <3>3
  <2>5. CASE e.kind = "link"
    BY <1>2, <2>1, <2>2, <2>5 DEF IngestEntry
  <2>6. CASE e.kind = "file"
    <3> DEFINE w == Write(g[i], e.path, [size |-> e.size, entry |-> e])
    <3>1. g[i + 1] = w
      BY <1>2, <2>2, <2>6 DEF IngestEntry
    <3>2. /\ IsTree(w) /\ DOMAIN w.files = DOMAIN g[i].files \cup {e.path}
          /\ w.files[e.path] = [size |-> e.size, entry |-> e]
          /\ \A q \in DOMAIN g[i].files : q # e.path => w.files[q] = g[i].files[q]
      BY <2>1, <2>3, WriteKeeps
    <3> HIDE DEF w
    <3>3. Whole(w)
      BY <2>1, <3>2 DEF Whole
    <3> QED
      BY <2>1, <3>1, <3>2, <3>3
  <2> QED
    BY <2>3, <2>4, <2>5, <2>6
<1>5. 0..Len(es) \subseteq S
  <2> HIDE DEF S
  <2> QED
    BY <1>0, <1>3, <1>4, UpTo
<1>6. Len(es) \in 0..Len(es)
  BY <1>0
<1> QED
  BY <1>1, <1>5, <1>6

-----------------------------------------------------------------------------
(* Re-rooting a tree *)

\* What is left of a path below root.
Rest(root, q) == SubSeq(q, Len(root) + 1, Len(q))

Under(root, q) == Len(q) > Len(root) /\ IsPrefix(root, q)

LEMMA RestIs ==
  ASSUME NEW root \in Path, NEW q \in Path, Under(root, q)
  PROVE  /\ Rest(root, q) \in Path /\ Rest(root, q) # <<>>
         /\ Len(Rest(root, q)) = Len(q) - Len(root)
         /\ \A i \in 1..(Len(q) - Len(root)) : Rest(root, q)[i] = q[Len(root) + i]
         /\ root \o Rest(root, q) = q
<1>0. Len(q) \in Nat /\ Len(root) \in Nat /\ Len(q) > Len(root)
  BY LenProperties DEF Path, Under
<1>1. \A i \in (Len(root) + 1)..Len(q) : q[i] \in Nat
  BY <1>0, ElementOfSeq DEF Path
<1>2. /\ Rest(root, q) \in Path
      /\ Len(Rest(root, q)) = IF Len(root) + 1 <= Len(q) THEN Len(q) - (Len(root) + 1) + 1 ELSE 0
      /\ \A i \in 1..(Len(q) - (Len(root) + 1) + 1) : Rest(root, q)[i] = q[Len(root) + 1 + i - 1]
  BY <1>0, <1>1, SubSeqProperties DEF Path, Rest
<1>3. /\ Rest(root, q) \in Path
      /\ Len(Rest(root, q)) = Len(q) - Len(root)
      /\ \A i \in 1..(Len(q) - Len(root)) : Rest(root, q)[i] = q[Len(root) + i]
  BY <1>0, <1>2
<1>4. Rest(root, q) # <<>>
  BY <1>0, <1>3, EmptySeq
<1>5. /\ root \o Rest(root, q) \in Path
      /\ Len(root \o Rest(root, q)) = Len(q)
      /\ \A i \in 1..Len(q) : (root \o Rest(root, q))[i] =
            IF i <= Len(root) THEN root[i] ELSE Rest(root, q)[i - Len(root)]
  <2>1. /\ root \o Rest(root, q) \in Path
        /\ Len(root \o Rest(root, q)) = Len(root) + Len(Rest(root, q))
        /\ \A i \in 1..(Len(root) + Len(Rest(root, q))) : (root \o Rest(root, q))[i] =
              IF i <= Len(root) THEN root[i] ELSE Rest(root, q)[i - Len(root)]
    BY <1>3, ConcatProperties DEF Path
  <2> QED
    BY <1>0, <1>3, <2>1
<1>6. \A i \in 1..Len(root) : root[i] = q[i]
  <2>1. SubSeq(root, 1, Len(root)) = SubSeq(q, 1, Len(root))
    BY DEF Under, IsPrefix
  <2>2. SubSeq(root, 1, Len(root)) = root
    BY SubSeqFull DEF Path
  <2>3. \A i \in 1..Len(root) : SubSeq(q, 1, Len(root))[i] = q[i]
    BY <1>0, StartIsPath
  <2> QED
    BY <2>1, <2>2, <2>3
<1>7. \A i \in 1..Len(q) : (root \o Rest(root, q))[i] = q[i]
  <2> SUFFICES ASSUME NEW i \in 1..Len(q) PROVE (root \o Rest(root, q))[i] = q[i]
      OBVIOUS
  <2>1. CASE i <= Len(root)
    BY <1>0, <1>5, <1>6, <2>1
  <2>2. CASE ~(i <= Len(root))
    <3>1. i - Len(root) \in 1..(Len(q) - Len(root)) /\ Len(root) + (i - Len(root)) = i
      BY <1>0, <2>2
    <3> QED
      BY <1>0, <1>3, <1>5, <2>2, <3>1
  <2> QED
    BY <1>0, <2>1, <2>2
<1>8. root \o Rest(root, q) = q
  BY <1>5, <1>7, SeqEqual DEF Path
<1> QED
  BY <1>3, <1>4, <1>8

\* The start of what is left below root is what is left of a start.
LEMMA RestOfStart ==
  ASSUME NEW root \in Path, NEW q \in Path, Under(root, q),
         NEW k \in 1..(Len(q) - Len(root))
  PROVE  LET s == SubSeq(q, 1, Len(root) + k)
         IN /\ s \in Path /\ Under(root, s)
            /\ SubSeq(Rest(root, q), 1, k) = Rest(root, s)
<1> DEFINE s == SubSeq(q, 1, Len(root) + k)
<1>0. /\ Len(q) \in Nat /\ Len(root) \in Nat /\ Len(q) > Len(root)
      /\ Len(root) + k \in 0..Len(q) /\ Len(root) \in 0..Len(q) /\ k \in Nat
  BY LenProperties DEF Path, Under
<1>1. s \in Path /\ Len(s) = Len(root) + k /\ \A i \in 1..(Len(root) + k) : s[i] = q[i]
  BY <1>0, StartIsPath
<1> HIDE DEF s
<1>2. Under(root, s)
  <2>1. /\ SubSeq(q, 1, Len(root)) \in Path /\ Len(SubSeq(q, 1, Len(root))) = Len(root)
        /\ \A i \in 1..Len(root) : SubSeq(q, 1, Len(root))[i] = q[i]
    BY <1>0, StartIsPath
  <2>2. /\ SubSeq(s, 1, Len(root)) \in Path /\ Len(SubSeq(s, 1, Len(root))) = Len(root)
        /\ \A i \in 1..Len(root) : SubSeq(s, 1, Len(root))[i] = s[i]
    <3>1. Len(root) \in 0..Len(s)
      BY <1>0, <1>1
    <3> QED
      BY <1>1, <3>1, StartIsPath
  <2>3. \A i \in 1..Len(root) : SubSeq(s, 1, Len(root))[i] = SubSeq(q, 1, Len(root))[i]
    BY <1>0, <1>1, <2>1, <2>2
  <2>4. SubSeq(s, 1, Len(root)) = SubSeq(q, 1, Len(root))
    BY <2>1, <2>2, <2>3, SeqEqual DEF Path
  <2> QED
    BY <1>0, <1>1, <2>4 DEF Under, IsPrefix
<1>3. /\ Rest(root, s) \in Path /\ Len(Rest(root, s)) = k
      /\ \A i \in 1..k : Rest(root, s)[i] = s[Len(root) + i]
  <2>1. /\ Rest(root, s) \in Path /\ Len(Rest(root, s)) = Len(s) - Len(root)
        /\ \A i \in 1..(Len(s) - Len(root)) : Rest(root, s)[i] = s[Len(root) + i]
    BY <1>1, <1>2, RestIs
  <2> QED
    BY <1>0, <1>1, <2>1
<1>4. /\ Rest(root, q) \in Path /\ Len(Rest(root, q)) = Len(q) - Len(root)
      /\ \A i \in 1..(Len(q) - Len(root)) : Rest(root, q)[i] = q[Len(root) + i]
  BY RestIs
<1>5. /\ SubSeq(Rest(root, q), 1, k) \in Path /\ Len(SubSeq(Rest(root, q), 1, k)) = k
      /\ \A i \in 1..k : SubSeq(Rest(root, q), 1, k)[i] = Rest(root, q)[i]
  <2>1. k \in 0..Len(Rest(root, q))
    BY <1>0, <1>4
  <2> QED
    BY <1>4, <2>1, StartIsPath
<1>6. \A i \in 1..k : SubSeq(Rest(root, q), 1, k)[i] = Rest(root, s)[i]
  <2> SUFFICES ASSUME NEW i \in 1..k PROVE SubSeq(Rest(root, q), 1, k)[i] = Rest(root, s)[i]
      OBVIOUS
  <2>1. i \in 1..(Len(q) - Len(root)) /\ Len(root) + i \in 1..(Len(root) + k)
    BY <1>0
  <2> QED
    BY <1>1, <1>3, <1>4, <1>5, <2>1
<1>7. SubSeq(Rest(root, q), 1, k) = Rest(root, s)
  BY <1>3, <1>5, <1>6, SeqEqual DEF Path
<1> QED
  BY <1>1, <1>2, <1>7 DEF s

\* The paths above the parent of a path.
LEMMA UpwardsFront ==
  ASSUME NEW p \in Path, p # <<>>
  PROVE  Upwards(Front(p)) = {SubSeq(p, 1, k) : k \in 0..(Len(p) - 1)}
<1>0. Len(p) \in Nat \ {0} /\ Len(p) - 1 \in 0..Len(p)
  BY EmptySeq DEF Path
<1>1. /\ Front(p) \in Path /\ Len(Front(p)) = Len(p) - 1
      /\ \A i \in 1..(Len(p) - 1) : Front(p)[i] = p[i]
  BY <1>0, StartIsPath DEF Front
<1>2. ASSUME NEW k \in 0..(Len(p) - 1)
      PROVE  SubSeq(Front(p), 1, k) = SubSeq(p, 1, k)
  <2>1. /\ SubSeq(p, 1, k) \in Path /\ Len(SubSeq(p, 1, k)) = k
        /\ \A i \in 1..k : SubSeq(p, 1, k)[i] = p[i]
    <3>1. k \in 0..Len(p)
      BY <1>0
    <3> QED
      BY <3>1, StartIsPath
  <2>2. /\ SubSeq(Front(p), 1, k) \in Path /\ Len(SubSeq(Front(p), 1, k)) = k
        /\ \A i \in 1..k : SubSeq(Front(p), 1, k)[i] = Front(p)[i]
    <3>1. k \in 0..Len(Front(p))
      BY <1>1
    <3> QED
      BY <1>1, <3>1, StartIsPath
  <2>3. \A i \in 1..k : SubSeq(Front(p), 1, k)[i] = SubSeq(p, 1, k)[i]
    BY <1>0, <1>1, <2>1, <2>2
  <2> QED
    BY <2>1, <2>2, <2>3, SeqEqual DEF Path
<1>3. Upwards(Front(p)) = {SubSeq(Front(p), 1, k) : k \in 0..(Len(p) - 1)}
  BY <1>1 DEF Upwards
<1> QED
  BY <1>2, <1>3

\* The directories above every file and directory are there.
Closed(t) ==
  /\ \A p \in DOMAIN t.files : Upwards(Front(p)) \subseteq t.dirs
  /\ \A p \in t.dirs : Upwards(p) \subseteq t.dirs

\* Re-rooting keeps what is below the root, and keeps the tree closed.
LEMMA RerootedIs ==
  ASSUME NEW t, IsTree(t), NEW root \in Path
  PROVE  LET r == Rerooted(t, root)
         IN /\ \A p \in DOMAIN r.files : \E q \in DOMAIN t.files :
                 Under(root, q) /\ p = Rest(root, q) /\ r.files[p] = t.files[q]
            /\ \A q \in DOMAIN t.files : Under(root, q) =>
                 Rest(root, q) \in DOMAIN r.files /\ r.files[Rest(root, q)] = t.files[q]
            /\ Closed(r)
<1> DEFINE r == Rerooted(t, root)
<1> DEFINE files == {q \in DOMAIN t.files : Under(root, q)}
<1> DEFINE dirs == {q \in t.dirs : Under(root, q)}
<1>0. files \subseteq Path /\ dirs \subseteq Path /\ Len(root) \in Nat
  BY LenProperties DEF IsTree, Path
<1>1. /\ r.files = [p \in {Rest(root, q) : q \in files} |-> t.files[root \o p]]
      /\ r.dirs = {Rest(root, q) : q \in dirs} \cup {<<>>}
  BY DEF Rerooted, Under, Rest
<1> HIDE DEF r
<1>2. ASSUME NEW q \in files
      PROVE  Rest(root, q) \in DOMAIN r.files /\ r.files[Rest(root, q)] = t.files[q]
  <2>1. root \o Rest(root, q) = q
    BY <1>0, RestIs
  <2> QED
    BY <1>1, <2>1
<1>3. ASSUME NEW p \in DOMAIN r.files
      PROVE  \E q \in files : p = Rest(root, q) /\ r.files[p] = t.files[q]
  BY <1>1, <1>2
<1>4. <<>> \in r.dirs
  BY <1>1
<1>5. ASSUME NEW q \in Path, Under(root, q), NEW n \in 0..Len(q),
             \A k \in 0..n : SubSeq(q, 1, k) \in t.dirs
      PROVE  \A k \in 0..(n - Len(root)) : SubSeq(Rest(root, q), 1, k) \in r.dirs
  <2> SUFFICES ASSUME NEW k \in 0..(n - Len(root))
               PROVE  SubSeq(Rest(root, q), 1, k) \in r.dirs
      OBVIOUS
  <2>0. Len(q) \in Nat
    BY LenProperties DEF Path
  <2>1. CASE k = 0
    <3>1. Rest(root, q) \in Path /\ Len(Rest(root, q)) \in Nat
      BY <1>5, RestIs, LenProperties DEF Path
    <3>2. SubSeq(Rest(root, q), 1, 0) \in Path /\ Len(SubSeq(Rest(root, q), 1, 0)) = 0
      BY <3>1, StartIsPath
    <3>3. SubSeq(Rest(root, q), 1, 0) = <<>>
      BY <3>2, EmptySeq DEF Path
    <3> QED
      BY <1>4, <2>1, <3>3
  <2>2. CASE k # 0
    <3>1. k \in 1..(Len(q) - Len(root)) /\ Len(root) + k \in 0..n
      BY <1>0, <2>0, <2>2
    <3>2. PICK s : s = SubSeq(q, 1, Len(root) + k)
      OBVIOUS
    <3>3. s \in Path /\ Under(root, s) /\ SubSeq(Rest(root, q), 1, k) = Rest(root, s)
      BY <1>5, <3>1, <3>2, RestOfStart
    <3>4. s \in dirs
      BY <1>5, <3>1, <3>2, <3>3
    <3> QED
      BY <1>1, <3>3, <3>4
  <2> QED
    BY <2>1, <2>2
<1>6. ASSUME NEW q \in files PROVE Upwards(Front(Rest(root, q))) \subseteq r.dirs
  <2>1. /\ q \in Path /\ Under(root, q) /\ Len(q) \in Nat /\ Len(q) > Len(root) /\ q # <<>>
    BY <1>0, LenProperties, EmptySeq DEF Under, Path
  <2>2. Upwards(Front(q)) = {SubSeq(q, 1, k) : k \in 0..(Len(q) - 1)}
    BY <2>1, UpwardsFront
  <2>3. \A k \in 0..(Len(q) - 1) : SubSeq(q, 1, k) \in t.dirs
    BY <2>2 DEF IsTree
  <2>4. Len(q) - 1 \in 0..Len(q) /\ (Len(q) - 1) - Len(root) = (Len(q) - Len(root)) - 1
    BY <1>0, <2>1
  <2>5. \A k \in 0..((Len(q) - Len(root)) - 1) : SubSeq(Rest(root, q), 1, k) \in r.dirs
    BY <1>5, <2>1, <2>3, <2>4
  <2>6. Upwards(Front(Rest(root, q))) = {SubSeq(Rest(root, q), 1, k) : k \in 0..((Len(q) - Len(root)) - 1)}
    <3>1. PICK p : p = Rest(root, q)
      OBVIOUS
    <3>2. p \in Path /\ p # <<>> /\ Len(p) = Len(q) - Len(root)
      BY <2>1, <3>1, RestIs
    <3>3. Upwards(Front(p)) = {SubSeq(p, 1, k) : k \in 0..(Len(p) - 1)}
      BY <3>2, UpwardsFront
    <3> QED
      BY <3>1, <3>2, <3>3
  <2> QED
    BY <2>5, <2>6
<1>7. ASSUME NEW q \in dirs PROVE Upwards(Rest(root, q)) \subseteq r.dirs
  <2>1. q \in Path /\ Under(root, q) /\ Len(q) \in Nat
    BY <1>0, LenProperties DEF Path
  <2>2. Upwards(q) = {SubSeq(q, 1, k) : k \in 0..Len(q)}
    BY DEF Upwards
  <2>3. \A k \in 0..Len(q) : SubSeq(q, 1, k) \in t.dirs
    BY <2>2 DEF IsTree
  <2>4. \A k \in 0..(Len(q) - Len(root)) : SubSeq(Rest(root, q), 1, k) \in r.dirs
    BY <1>5, <2>1, <2>3
  <2>5. Upwards(Rest(root, q)) = {SubSeq(Rest(root, q), 1, k) : k \in 0..(Len(q) - Len(root))}
    BY <2>1, RestIs DEF Upwards
  <2> QED
    BY <2>4, <2>5
<1>8. Upwards(<<>>) \subseteq r.dirs
  BY <1>4, UpwardsOfNothing
<1>9. Closed(r)
  BY <1>1, <1>3, <1>6, <1>7, <1>8 DEF Closed
<1> QED
  BY <1>2, <1>3, <1>9 DEF r

-----------------------------------------------------------------------------
(* The root of a package *)

\* The shallower manifest, or of equally deep ones the first.
Nearer(p, q) == Len(p) < Len(q) \/ (Len(p) = Len(q) /\ Before(p, q))

LEMMA BeforeIsTotal ==
  ASSUME NEW p \in Path, NEW q \in Path, Len(p) = Len(q), p # q
  PROVE  Before(p, q) \/ Before(q, p)
<1>0. Len(p) \in Nat /\ DOMAIN p = 1..Len(p) /\ DOMAIN q = 1..Len(p)
  BY LenProperties DEF Path
<1>1. \A i \in 1..Len(p) : p[i] \in Nat /\ q[i] \in Nat
  BY <1>0, ElementOfSeq DEF Path
<1> DEFINE T == {i \in 1..Len(p) : p[i] # q[i]}
<1>2. T # {}
  BY SeqEqual DEF Path
<1>3. T \in SUBSET Nat
  BY <1>0
<1>4. PICK k \in T : \A i \in T : k <= i
  BY <1>2, <1>3, LeastOf
<1>5. \A j \in 1..(k - 1) : p[j] = q[j]
  BY <1>0, <1>4
<1> QED
  BY <1>0, <1>1, <1>4, <1>5 DEF Before

LEMMA BeforeIsStrict ==
  ASSUME NEW p \in Path, NEW q \in Path, NEW r \in Path, Len(p) = Len(q), Len(q) = Len(r)
  PROVE  ~Before(p, p) /\ (Before(p, q) /\ Before(q, r) => Before(p, r))
<1>0. Len(p) \in Nat /\ DOMAIN p = 1..Len(p) /\ DOMAIN q = 1..Len(p)
  BY LenProperties DEF Path
<1>1. \A i \in 1..Len(p) : p[i] \in Nat /\ q[i] \in Nat /\ r[i] \in Nat
  BY <1>0, ElementOfSeq DEF Path
<1>2. ~Before(p, p)
  BY <1>0, <1>1 DEF Before
<1>3. ASSUME Before(p, q), Before(q, r) PROVE Before(p, r)
  <2>1. PICK k \in 1..Len(p) : p[k] < q[k] /\ \A j \in 1..(k - 1) : p[j] = q[j]
    BY <1>0, <1>3 DEF Before
  <2>2. PICK m \in 1..Len(p) : q[m] < r[m] /\ \A j \in 1..(m - 1) : q[j] = r[j]
    BY <1>0, <1>3 DEF Before
  <2>3. CASE k <= m
    <3>1. p[k] < r[k] /\ \A j \in 1..(k - 1) : p[j] = r[j]
      BY <1>0, <1>1, <2>1, <2>2, <2>3
    <3> QED
      BY <1>0, <3>1 DEF Before
  <2>4. CASE m < k
    <3>1. p[m] < r[m] /\ \A j \in 1..(m - 1) : p[j] = r[j]
      BY <1>0, <1>1, <2>1, <2>2, <2>4
    <3> QED
      BY <1>0, <3>1 DEF Before
  <2> QED
    BY <1>0, <2>3, <2>4
<1> QED
  BY <1>2, <1>3

LEMMA PackageRootIs ==
  ASSUME NEW t, IsTree(t), Conventional(t) \/ Manifests(t) # {}
  PROVE  PackageRoot(t) \in Path
<1>1. CASE Conventional(t)
  BY <1>1, ComponentAssumption DEF PackageRoot, Path
<1>2. CASE ~Conventional(t)
  <2> DEFINE M == Manifests(t)
  <2> DEFINE R == {a \in M \X M : Nearer(a[1], a[2])}
  <2>1. M \subseteq Path /\ IsFiniteSet(M) /\ M # {}
    BY <1>2, FS_Subset DEF Manifests, IsTree
  <2>2. \A p \in M : Len(p) \in Nat
    BY <2>1, LenProperties DEF Path
  <2> HIDE DEF M
  <2>3. \A a, b \in M : <<a, b>> \in R <=> Nearer(a, b)
    OBVIOUS
  <2> HIDE DEF R
  <2>4. \A a \in M : ~Nearer(a, a)
    BY <2>1, <2>2, BeforeIsStrict DEF Nearer
  <2>5. ASSUME NEW a \in M, NEW b \in M, NEW c \in M, Nearer(a, b), Nearer(b, c)
        PROVE  Nearer(a, c)
    BY <2>1, <2>2, <2>5, BeforeIsStrict DEF Nearer
  <2>6. PICK m \in M : \A q \in M : <<q, m>> \notin R
    BY <2>1, <2>3, <2>4, <2>5, MinimalExists
  <2>7. ASSUME NEW q \in M, q # m PROVE Nearer(m, q)
    <3>1. ~Nearer(q, m)
      BY <2>3, <2>6
    <3>2. Len(m) = Len(q) => Before(m, q) \/ Before(q, m)
      BY <2>1, <2>7, BeforeIsTotal
    <3> QED
      BY <2>2, <3>1, <3>2 DEF Nearer
  <2> DEFINE first == CHOOSE p \in M : \A q \in M \ {p} :
                         Len(p) < Len(q) \/ (Len(p) = Len(q) /\ Before(p, q))
  <2>8. first \in M
    BY <2>7 DEF Nearer
  <2>9. PackageRoot(t) = Front(first)
    BY <1>2 DEF PackageRoot, M
  <2> HIDE DEF first
  <2> QED
    BY <2>1, <2>8, <2>9, FrontIsPath
<1> QED
  BY <1>1, <1>2

-----------------------------------------------------------------------------
(* Loading an archive or a directory *)

\* A path below the package directory.
Inside(p) == IsPrefix(<<PackageDir>>, p) /\ Len(p) > 1

LEMMA InsideIs ==
  ASSUME NEW p \in Path, Inside(p)
  PROVE  Under(<<PackageDir>>, p) /\ Rest(<<PackageDir>>, p) = Tail(p)
<1>1. Len(<<PackageDir>>) = 1
  OBVIOUS
<1>2. p # <<>>
  BY EmptySeq DEF Inside, Path
<1> QED
  BY <1>1, <1>2, TailIsSubSeq DEF Inside, Under, Rest, Path

LEMMA ManifestInside ==
  /\ <<PackageDir>> \in Path /\ <<PackageDir, PackageJson>> \in Path
  /\ Under(<<PackageDir>>, <<PackageDir, PackageJson>>)
  /\ Rest(<<PackageDir>>, <<PackageDir, PackageJson>>) = <<PackageJson>>
<1> DEFINE q == <<PackageDir, PackageJson>>
<1>1. /\ <<PackageDir>> \in Path /\ q \in Path /\ <<PackageJson>> \in Path
      /\ Len(<<PackageDir>>) = 1 /\ Len(q) = 2 /\ Len(<<PackageJson>>) = 1
      /\ q[1] = PackageDir /\ q[2] = PackageJson
  BY ComponentAssumption DEF Path
<1>2. PICK d : d = <<PackageDir>>
  OBVIOUS
<1> HIDE DEF q
<1>3. /\ SubSeq(q, 1, 1) \in Path /\ Len(SubSeq(q, 1, 1)) = 1 /\ SubSeq(q, 1, 1)[1] = PackageDir
  <2>1. 1 \in 0..Len(q) /\ 1 \in 1..1
    BY <1>1
  <2> QED
    BY <1>1, <2>1, StartIsPath
<1>4. SubSeq(d, 1, 1) = d /\ d \in Path /\ Len(d) = 1 /\ d[1] = PackageDir
  BY <1>1, <1>2, SubSeqFull DEF Path
<1>5. SubSeq(q, 1, 1) = d
  BY <1>3, <1>4, SeqEqual DEF Path
<1>6. Under(d, q)
  BY <1>1, <1>4, <1>5 DEF Under, IsPrefix
<1>7. Rest(d, q) \in Path /\ Len(Rest(d, q)) = 1 /\ Rest(d, q)[1] = PackageJson
  <2>1. /\ Rest(d, q) \in Path /\ Len(Rest(d, q)) = Len(q) - Len(d)
        /\ \A i \in 1..(Len(q) - Len(d)) : Rest(d, q)[i] = q[Len(d) + i]
    BY <1>1, <1>4, <1>6, RestIs
  <2>2. Len(q) - Len(d) = 1 /\ Len(d) + 1 = 2 /\ 1 \in 1..1
    BY <1>1, <1>4
  <2> QED
    BY <1>1, <2>1, <2>2
<1>8. Rest(d, q) = <<PackageJson>>
  BY <1>1, <1>7, SeqEqual DEF Path
<1> QED
  BY <1>1, <1>2, <1>6, <1>8 DEF q

\* The manifest that makes an archive ordinary, and a file it keeps.
Kept(es, i) == i \in DOMAIN es /\ Admitted(es[i]) /\ LastOf(es, i)
ManifestAt(es, i) == Kept(es, i) /\ es[i].path = <<PackageDir, PackageJson>>

\* What a file that an archive keeps has become in the tree that is read.
LEMMA KeptIsThere ==
  ASSUME NEW es \in Seq(Entry), NEW files, Holds(es, Len(es), files), NEW i, Kept(es, i)
  PROVE  /\ es[i].path \in DOMAIN files
         /\ files[es[i].path] = [size |-> es[i].size, entry |-> es[i]]
<1>1. Len(es) \in Nat /\ DOMAIN es = 1..Len(es) /\ i \in 1..Len(es)
  BY LenProperties DEF Kept
<1>2. es[i].path \in DOMAIN files
  BY <1>1 DEF Holds, Kept
<1>3. PICK j \in 1..Len(es) : /\ LastAt(es, Len(es), es[i].path, j)
                              /\ files[es[i].path] = [size |-> es[j].size, entry |-> es[j]]
  BY <1>2 DEF Holds
<1>4. ~(j < i)
  BY <1>1, <1>3 DEF LastAt, Kept
<1>5. ~(i < j)
  BY <1>1, <1>3 DEF LastAt, Kept, LastOf
<1>6. i = j
  BY <1>1, <1>4, <1>5
<1> QED
  BY <1>2, <1>3, <1>6

LEMMA NothingIs == Nothing.ok = FALSE /\ Closed(Nothing.tree)
BY EmptyTreeIs DEF Nothing, IsTree, Closed

\* What LoadTarball promises.
LEMMA TarballIs ==
  ASSUME NEW es \in Seq(Entry)
  PROVE  LET pkg == LoadTarball(es)
         IN /\ Closed(pkg.tree)
            /\ pkg.ok \in BOOLEAN
            /\ pkg.ok => Whole(pkg.tree)
            /\ pkg.ok => \A i : Kept(es, i) /\ Inside(es[i].path) /\ (\E j : ManifestAt(es, j)) =>
                 /\ Tail(es[i].path) \in DOMAIN pkg.tree.files
                 /\ pkg.tree.files[Tail(es[i].path)].entry = es[i]
            /\ ~pkg.ok => \/ Len(es) > MaxEntries
                          \/ TotalSize(es) >= MaxBytes
                          \/ ~\E i : ManifestAt(es, i) /\ es[i].json \in {"plain", "odd values"}
<1> DEFINE pkg == LoadTarball(es)
<1>1. PICK s : s = Extract(es)
  OBVIOUS
<1>2. Reads(es, Len(es), s, TotalSize(es))
  BY <1>1, ExtractIs
<1>3. PICK t : t = s.tree
  OBVIOUS
<1>4. IsTree(t)
  BY <1>2, <1>3 DEF Reads
<1>5. Nothing.ok = FALSE /\ Closed(Nothing.tree)
  BY NothingIs
<1>6. CASE s.refused
  <2>1. pkg = Nothing
    BY <1>1, <1>6 DEF LoadTarball
  <2>2. Len(es) > MaxEntries \/ TotalSize(es) >= MaxBytes
    BY <1>2, <1>6 DEF Reads
  <2> QED
    BY <1>5, <2>1, <2>2
<1>7. CASE ~s.refused /\ ~(Conventional(t) \/ Manifests(t) # {})
  <2>1. pkg = Nothing
    BY <1>1, <1>3, <1>7 DEF LoadTarball
  <2>2. Holds(es, Len(es), t.files)
    BY <1>2, <1>3, <1>7 DEF Reads
  <2>3. ASSUME NEW i, ManifestAt(es, i) PROVE FALSE
    <3>1. <<PackageDir, PackageJson>> \in DOMAIN t.files
      <4>1. Kept(es, i) /\ es[i].path = <<PackageDir, PackageJson>>
        BY <2>3 DEF ManifestAt
      <4>2. es[i].path \in DOMAIN t.files
        BY <2>2, <4>1, KeptIsThere
      <4> QED
        BY <4>1, <4>2
    <3> QED
      BY <1>7, <3>1 DEF Conventional, Exists
  <2> QED
    BY <1>5, <2>1, <2>3
<1>8. CASE ~s.refused /\ (Conventional(t) \/ Manifests(t) # {})
  <2>0. Holds(es, Len(es), t.files)
    BY <1>2, <1>3, <1>8 DEF Reads
  <2>1. PICK root \in Path : root = PackageRoot(t)
    BY <1>4, <1>8, PackageRootIs
  <2>2. PICK r : r = Rerooted(t, root)
    OBVIOUS
  <2>3. pkg = IF ManifestReads(r) THEN [ok |-> TRUE, tree |-> r] ELSE Nothing
    BY <1>1, <1>3, <1>8, <2>1, <2>2 DEF LoadTarball, Loaded
  <2>4. /\ \A p \in DOMAIN r.files : \E q \in DOMAIN t.files :
             Under(root, q) /\ p = Rest(root, q) /\ r.files[p] = t.files[q]
        /\ \A q \in DOMAIN t.files : Under(root, q) =>
             Rest(root, q) \in DOMAIN r.files /\ r.files[Rest(root, q)] = t.files[q]
        /\ Closed(r)
    BY <1>4, <2>2, RerootedIs
  <2>5. \A p \in DOMAIN t.files : t.files[p].size = t.files[p].entry.size
    <3> SUFFICES ASSUME NEW p \in DOMAIN t.files
                 PROVE  t.files[p].size = t.files[p].entry.size
        OBVIOUS
    <3>1. PICK j : t.files[p] = [size |-> es[j].size, entry |-> es[j]]
      BY <2>0 DEF Holds
    <3> QED
      BY <3>1
  <2>6. Whole(r)
    BY <2>4, <2>5 DEF Whole
  <2>7. ASSUME NEW j, ManifestAt(es, j)
        PROVE  /\ root = <<PackageDir>>
               /\ <<PackageJson>> \in DOMAIN r.files /\ r.files[<<PackageJson>>].entry = es[j]
    <3>1. /\ <<PackageDir, PackageJson>> \in DOMAIN t.files
          /\ t.files[<<PackageDir, PackageJson>>] = [size |-> es[j].size, entry |-> es[j]]
      BY <2>0, <2>7, KeptIsThere DEF ManifestAt
    <3>2. root = <<PackageDir>>
      BY <2>1, <3>1 DEF PackageRoot, Conventional, Exists
    <3> QED
      BY <2>4, <3>1, <3>2, ManifestInside
  <2>8. ASSUME NEW i, Kept(es, i), Inside(es[i].path), NEW j, ManifestAt(es, j)
        PROVE  Tail(es[i].path) \in DOMAIN r.files /\ r.files[Tail(es[i].path)].entry = es[i]
    <3>1. /\ es[i].path \in DOMAIN t.files /\ es[i].path \in Path
          /\ t.files[es[i].path] = [size |-> es[i].size, entry |-> es[i]]
      BY <1>4, <2>0, <2>8, KeptIsThere DEF IsTree
    <3>2. Under(root, es[i].path) /\ Rest(root, es[i].path) = Tail(es[i].path)
      BY <2>7, <2>8, <3>1, InsideIs
    <3> QED
      BY <2>4, <3>1, <3>2
  <2>9. CASE ManifestReads(r)
    BY <2>3, <2>4, <2>6, <2>8, <2>9
  <2>10. CASE ~ManifestReads(r)
    <3>1. pkg = Nothing
      BY <2>3, <2>10
    <3>2. ASSUME NEW j, ManifestAt(es, j), es[j].json \in {"plain", "odd values"} PROVE FALSE
      BY <2>7, <2>10, <3>2 DEF ManifestReads
    <3> QED
      BY <1>5, <3>1, <3>2
  <2> QED
    BY <2>9, <2>10
<1>9. s.refused \in BOOLEAN
  BY <1>2 DEF Reads
<1> QED
  BY <1>6, <1>7, <1>8, <1>9

\* What LoadDir promises.
LEMMA DirIs ==
  ASSUME NEW es \in Seq(Entry)
  PROVE  LET pkg == LoadDir(es)
         IN Closed(pkg.tree) /\ pkg.ok \in BOOLEAN /\ (pkg.ok => Whole(pkg.tree))
<1>1. IsTree(Ingest(es)) /\ Whole(Ingest(es))
  BY IngestIs
<1>2. Closed(Ingest(es)) /\ Nothing.ok = FALSE /\ Closed(Nothing.tree)
  BY <1>1, NothingIs DEF IsTree, Closed
<1>3. LoadDir(es) = Nothing \/ LoadDir(es) = [ok |-> TRUE, tree |-> Ingest(es)]
  BY DEF LoadDir, Loaded
<1>4. CASE LoadDir(es) = Nothing
  BY <1>2, <1>4
<1>5. CASE LoadDir(es) = [ok |-> TRUE, tree |-> Ingest(es)]
  BY <1>1, <1>2, <1>5
<1> QED
  BY <1>3, <1>4, <1>5

-----------------------------------------------------------------------------
(* Versions and ranges *)

Number == [1..3 -> Nat]

\* Below written out.
LEMMA BelowIs ==
  ASSUME NEW a, NEW b
  PROVE  Below(a, b) <=> \/ a[1] < b[1]
                         \/ a[1] = b[1] /\ a[2] < b[2]
                         \/ a[1] = b[1] /\ a[2] = b[2] /\ a[3] < b[3]
<1> DEFINE Here(k) == a[k] < b[k] /\ \A j \in 1..(k - 1) : a[j] = b[j]
<1>1. Here(1) <=> a[1] < b[1]
  OBVIOUS
<1>2. Here(2) <=> a[1] = b[1] /\ a[2] < b[2]
  <2>1. 1..(2 - 1) = {1}
    OBVIOUS
  <2> QED
    BY <2>1
<1>3. Here(3) <=> a[1] = b[1] /\ a[2] = b[2] /\ a[3] < b[3]
  <2>1. 1..(3 - 1) = {1, 2}
    OBVIOUS
  <2> QED
    BY <2>1
<1>4. Below(a, b) <=> \E k \in 1..3 : Here(k)
  BY DEF Below
<1>5. 1..3 = {1, 2, 3}
  OBVIOUS
<1> HIDE DEF Here
<1> QED
  BY <1>1, <1>2, <1>3, <1>4, <1>5

\* Below is a strict order, and versions that are not below one another are equal.
LEMMA BelowIsStrict ==
  ASSUME NEW a \in Number, NEW b \in Number, NEW c \in Number
  PROVE  /\ ~Below(a, a)
         /\ Below(a, b) /\ Below(b, c) => Below(a, c)
<1>1. \A k \in 1..3 : a[k] \in Nat /\ b[k] \in Nat /\ c[k] \in Nat
  BY DEF Number
<1> QED
  BY <1>1, BelowIs

\* The intervals of npm are the comparisons of the code.
LEMMA MeetsIsSatisfies ==
  ASSUME NEW v \in Number, NEW c \in Comparator,
         \A k \in (c.parts + 1)..3 : c.num[k] = 0, Agreed(c)
  PROVE  Meets(v, c) <=> SatisfiesOne(v, c)
<1>0. PICK n \in Number, p \in 0..3 : n = c.num /\ p = c.parts
  BY DEF Comparator, Number
<1>1. /\ v[1] \in Nat /\ v[2] \in Nat /\ v[3] \in Nat
      /\ n[1] \in Nat /\ n[2] \in Nat /\ n[3] \in Nat
  BY DEF Number
<1>2. /\ p < 3 => n[3] = 0
      /\ p < 2 => n[2] = 0
      /\ p < 1 => n[1] = 0
  BY <1>0
<1>3. Next1(n, 3)[1] = n[1] /\ Next1(n, 3)[2] = n[2] /\ Next1(n, 3)[3] = n[3] + 1
  BY DEF Next1
<1>4. Next1(n, 2)[1] = n[1] /\ Next1(n, 2)[2] = n[2] + 1 /\ Next1(n, 2)[3] = 0
  BY DEF Next1
<1>5. Next1(n, 1)[1] = n[1] + 1 /\ Next1(n, 1)[2] = 0 /\ Next1(n, 1)[3] = 0
  BY DEF Next1
<1>6. ~Below(v, <<0, 0, 0>>)
  BY <1>1, BelowIs
<1>7. CASE c.op = ">="
  BY <1>0, <1>7 DEF Meets, Floor, SatisfiesOne
<1>8. CASE c.op = "<="
  <2>1. p = 3
    BY <1>0, <1>8 DEF Agreed
  <2>2. Below(v, Next1(n, 3)) <=> ~Below(n, v)
    BY <1>1, <1>3, BelowIs
  <2> QED
    BY <1>0, <1>6, <1>8, <2>1, <2>2 DEF Meets, Floor, SatisfiesOne
<1>9. CASE c.op = ">"
  <2>1. p = 3
    BY <1>0, <1>9 DEF Agreed
  <2>2. ~Below(v, Next1(n, 3)) <=> Below(n, v)
    BY <1>1, <1>3, BelowIs
  <2> QED
    BY <1>0, <1>9, <2>1, <2>2 DEF Meets, Floor, SatisfiesOne
<1>10. CASE c.op = "<"
  BY <1>0, <1>6, <1>10 DEF Meets, Floor, SatisfiesOne
<1>11. CASE c.op = "^"
  <2>1. CASE n[1] > 0
    <3>1. Fixed(c) = 1
      BY <1>0, <1>1, <2>1 DEF Fixed
    <3>2. ~Below(v, n) /\ Below(v, Next1(n, 1)) <=> Caret(v, c)
      BY <1>0, <1>1, <1>5, <2>1, BelowIs DEF Caret
    <3> QED
      BY <1>0, <1>11, <3>1, <3>2 DEF Meets, Floor, SatisfiesOne, Agreed
  <2>2. CASE n[1] = 0 /\ n[2] > 0
    <3>1. p >= 2
      BY <1>1, <1>2, <2>2
    <3>2. Fixed(c) = 2
      <4> DEFINE Is(k) == /\ c.num[k] # 0 \/ k = c.parts
                          /\ \A j \in 1..(k - 1) : c.num[j] = 0 /\ j # c.parts
      <4>1. Is(2) /\ ~Is(1)
        BY <1>0, <1>1, <2>2, <3>1
      <4>2. ~Is(3)
        <5>1. 2 \in 1..(3 - 1) /\ c.num[2] # 0
          BY <1>0, <1>1, <2>2
        <5> QED
          BY <5>1
      <4>3. 1..3 = {1, 2, 3}
        OBVIOUS
      <4>4. Fixed(c) = CHOOSE k \in 1..3 : Is(k)
        BY DEF Fixed
      <4> HIDE DEF Is
      <4> QED
        BY <4>1, <4>2, <4>3, <4>4
    <3>3. ~Below(v, n) /\ Below(v, Next1(n, 2)) <=> Caret(v, c)
      BY <1>0, <1>1, <1>4, <2>2, BelowIs DEF Caret
    <3> QED
      BY <1>0, <1>11, <3>2, <3>3 DEF Meets, Floor, SatisfiesOne, Agreed
  <2> QED
    BY <1>0, <1>1, <1>11, <2>1, <2>2 DEF Agreed
<1>12. CASE c.op = "~"
  <2>1. p >= 2 /\ Smaller(2, p) = 2
    BY <1>0, <1>12 DEF Agreed, Smaller
  <2>2. ~Below(v, n) /\ Below(v, Next1(n, 2)) <=> Tilde(v, c)
    BY <1>0, <1>1, <1>4, BelowIs DEF Tilde
  <2> QED
    BY <1>0, <1>12, <2>1, <2>2 DEF Meets, Floor, SatisfiesOne, Agreed
<1>13. CASE c.op = "="
  <2>1. p = 1 \/ p = 2 \/ p = 3
    BY <1>0, <1>13 DEF Agreed
  <2>2. ~Below(v, n) /\ Below(v, Next1(n, p)) <=> Bare(v, c)
    BY <1>0, <1>1, <1>2, <1>3, <1>4, <1>5, <2>1, BelowIs DEF Bare
  <2> QED
    BY <1>0, <1>13, <2>2 DEF Meets, Floor, SatisfiesOne, Agreed
<1> QED
  BY <1>7, <1>8, <1>9, <1>10, <1>11, <1>12, <1>13 DEF Comparator

\* What Resolve returns is published.
LEMMA ResolvedIsPublished ==
  ASSUME NEW n, NEW rng, NEW v \in Resolve(n, rng)
  PROVE  v \in Published[n]
<1> DEFINE sets == <<Tag(n, rng.word),
                     IF rng.word \in {"", "*", "latest"} THEN Latest(n) ELSE {},
                     Best(n, rng),
                     Latest(n)>>
<1>1. Tag(n, rng.word) \subseteq Published[n] /\ Latest(n) \subseteq Published[n]
  BY DEF Tag, Latest
<1>2. Best(n, rng) \subseteq Published[n]
  BY DEF Best, Candidates
<1>3. DOMAIN sets = 1..4 /\ \A i \in 1..4 : sets[i] \subseteq Published[n]
  <2>1. DOMAIN sets = 1..4
    OBVIOUS
  <2>2. sets[1] \subseteq Published[n] /\ sets[4] \subseteq Published[n]
    BY <1>1
  <2>3. sets[2] \subseteq Published[n] /\ sets[3] \subseteq Published[n]
    BY <1>1, <1>2
  <2>4. 1..4 = {1, 2, 3, 4}
    OBVIOUS
  <2> HIDE DEF sets
  <2> QED
    BY <2>1, <2>2, <2>3, <2>4
<1>4. v \in FirstOf(sets)
  BY DEF Resolve
<1> HIDE DEF sets
<1>5. \E i \in DOMAIN sets : v \in sets[i]
  <2>1. ~\A i \in DOMAIN sets : sets[i] = {}
    BY <1>4 DEF FirstOf
  <2> DEFINE First(i) == sets[i] # {} /\ \A j \in 1..(i - 1) : sets[j] = {}
  <2> DEFINE T == {i \in 1..4 : sets[i] # {}}
  <2>2. T \in SUBSET Nat /\ T # {}
    BY <1>3, <2>1
  <2>3. PICK m \in T : \A k \in T : m <= k
    BY <2>2, LeastOf
  <2>4. First(m)
    BY <2>3
  <2>5. (CHOOSE i \in DOMAIN sets : First(i)) \in DOMAIN sets
    BY <1>3, <2>3, <2>4
  <2> QED
    BY <1>4, <2>1, <2>5 DEF FirstOf
<1> QED
  BY <1>3, <1>5

\* What Resolve returns for a range that both readings agree on.
LEMMA HighestIsResolved ==
  ASSUME NEW n \in DOMAIN Published, NEW rng, NEW v \in Resolve(n, rng), rng.word = "none",
         \A alt \in rng.any : \A c \in alt :
             c \in Comparator /\ (\A k \in (c.parts + 1)..3 : c.num[k] = 0) /\ Agreed(c)
  PROVE  LET meeting == {u \in Published[n] :
                            \E alt \in rng.any : \A c \in alt : Meets(u.num, c)}
         IN meeting # {} =>
              v \in meeting /\ \A u \in meeting : ~Below(v.num, u.num)
<1> DEFINE all == Published[n]
<1> DEFINE meeting == {u \in all : \E alt \in rng.any : \A c \in alt : Meets(u.num, c)}
<1> SUFFICES ASSUME meeting # {}
             PROVE  v \in meeting /\ \A u \in meeting : ~Below(v.num, u.num)
    OBVIOUS
<1>1. IsFiniteSet(all) /\ "none" \notin DOMAIN Tagged[n] /\ \A u \in all : u.num \in Number
  BY RegistryAssumption DEF Version, Number
<1>2. ASSUME NEW u \in all
      PROVE  Satisfies(u, rng) <=> \E alt \in rng.any : \A c \in alt : Meets(u.num, c)
  <2>1. \A alt \in rng.any : \A c \in alt : Meets(u.num, c) <=> SatisfiesOne(u.num, c)
    BY <1>1, MeetsIsSatisfies
  <2> QED
    BY <2>1 DEF Satisfies
<1>3. Candidates(n, rng) = meeting
  BY <1>2 DEF Candidates
<1>4. Best(n, rng) = {b \in meeting : \A u \in meeting : ~Below(b.num, u.num)}
  BY <1>3 DEF Best
<1>5. Best(n, rng) # {}
  <2> DEFINE R == {pr \in all \X all : Below(pr[2].num, pr[1].num)}
  <2>1. IsFiniteSet(meeting)
    BY <1>1, FS_Subset
  <2>2. \A a, b \in meeting : <<a, b>> \in R <=> Below(b.num, a.num)
    OBVIOUS
  <2>3. \A a, b, c \in meeting : /\ ~Below(a.num, a.num)
                                 /\ Below(c.num, b.num) /\ Below(b.num, a.num)
                                    => Below(c.num, a.num)
    BY <1>1, BelowIsStrict
  <2> HIDE DEF R, meeting
  <2>4. \A a \in meeting : <<a, a>> \notin R
    BY <2>2, <2>3
  <2>5. \A a, b, c \in meeting : <<a, b>> \in R /\ <<b, c>> \in R => <<a, c>> \in R
    BY <2>2, <2>3
  <2>6. PICK m \in meeting : \A q \in meeting : <<q, m>> \notin R
    BY <2>1, <2>4, <2>5, MinimalExists
  <2> QED
    BY <1>4, <2>2, <2>6
<1>6. Resolve(n, rng) = Best(n, rng)
  <2> DEFINE sets == <<Tag(n, rng.word),
                       IF rng.word \in {"", "*", "latest"} THEN Latest(n) ELSE {},
                       Best(n, rng),
                       Latest(n)>>
  <2>1. Resolve(n, rng) = FirstOf(sets)
    BY DEF Resolve
  <2>2. DOMAIN sets = 1..4 /\ sets[3] = Best(n, rng)
    OBVIOUS
  <2>3. sets[1] = {} /\ sets[2] = {}
    BY <1>1 DEF Tag
  <2> HIDE DEF sets
  <2> DEFINE First(i) == sets[i] # {} /\ \A j \in 1..(i - 1) : sets[j] = {}
  <2>4. First(3)
    <3>1. 1..(3 - 1) = {1, 2}
      OBVIOUS
    <3> QED
      BY <1>5, <2>2, <2>3, <3>1
  <2>5. ~First(1) /\ ~First(2) /\ ~First(4)
    BY <1>5, <2>2, <2>3
  <2>6. DOMAIN sets = {1, 2, 3, 4}
    BY <2>2
  <2>7. FirstOf(sets) = IF \A i \in DOMAIN sets : sets[i] = {} THEN {}
                        ELSE sets[CHOOSE i \in DOMAIN sets : First(i)]
    BY DEF FirstOf
  <2> HIDE DEF First
  <2>8. (CHOOSE i \in DOMAIN sets : First(i)) = 3
    BY <2>4, <2>5, <2>6
  <2> QED
    BY <1>5, <2>1, <2>2, <2>6, <2>7, <2>8
<1> QED
  BY <1>4, <1>6

-----------------------------------------------------------------------------
(* The steps of the workers *)

Pcs == {"idle", "look", "get", "save", "saving", "saved", "load", "done", "failed"}
Lens == {"part", "whole"}

Job(pc, asks, ask, vm, data, pkg) ==
  [pc |-> pc, asks |-> asks, ask |-> ask, vm |-> vm, data |-> data, pkg |-> pkg]
IsJob(j) == j = Job(j.pc, j.asks, j.ask, j.vm, j.data, j.pkg)

\* What a request may say.
Asking(r) ==
  \/ r.from \in {"dir", "tarball"}
  \/ /\ r.from = "registry" /\ r.name \in DOMAIN Published
     /\ \A alt \in r.range.any : \A c \in alt :
          c \in Comparator /\ \A k \in (c.parts + 1)..3 : c.num[k] = 0

WorldOK(v) ==
  /\ v.caching \in BOOLEAN /\ v.oversized \in BOOLEAN /\ v.entries \in Seq(Entry)
  /\ \A r \in v.asks : Asking(r)

Listed(n, v) == n \in DOMAIN Published /\ v \in Published[n]

\* A file of the cache: its name is the one of the tarball whose bytes it holds.
FileOK(f, c) ==
  /\ c.len \in {"empty", "part", "whole"}
  /\ \E n, v : Listed(n, v) /\ c.of = <<n, v>> /\ f = CacheName(n, v)
FilesOK(files) == \A f \in DOMAIN files : FileOK(f, files[f])

\* The bytes a worker holds: of what it asked for, or read from the file that has
\* the name of what it asked for.
Fits(wd, j) ==
  /\ j.data.len \in Lens /\ Listed(j.ask.name, j.vm)
  /\ \/ j.data.of = <<j.ask.name, j.vm>>
     \/ /\ wd.caching
        /\ \E n, v : /\ Listed(n, v) /\ j.data.of = <<n, v>>
                     /\ CacheName(j.ask.name, j.vm) = CacheName(n, v)

\* A worker and what it asked for.
Phase(wd, j) ==
  /\ j.pc \in Pcs /\ j.asks \in 0..MaxAsks
  /\ j.pc \in {"look", "save", "saving", "saved"} => wd.caching
  /\ j.pc # "idle" => Asking(j.ask)
  /\ j.pc \in {"look", "get", "save", "saving", "saved"} =>
       j.ask.from = "registry" /\ Listed(j.ask.name, j.vm)
Answer(j) == j.vm = None \/ (/\ j.pc # "idle" /\ j.ask.from = "registry"
                             /\ j.vm \in Resolve(j.ask.name, j.ask.range))
Bytes(wd, j) ==
  /\ j.pc \in {"save", "saving", "saved"} =>
       j.data.len \in Lens /\ j.data.of = <<j.ask.name, j.vm>>
  /\ j.pc \in {"load", "done"} /\ j.ask.from = "registry" => Fits(wd, j)
  /\ j.pc = "done" /\ j.ask.from = "registry" => j.data.len = "whole"
Package(wd, j) ==
  /\ j.pkg.ok = (j.pc = "done") /\ Closed(j.pkg.tree)
  /\ j.pc = "done" => j.pkg = IF j.ask.from = "dir" THEN LoadDir(wd.entries)
                              ELSE LoadTarball(wd.entries)
  /\ j.pc = "failed" /\ j.ask.from = "tarball" => ~LoadTarball(wd.entries).ok

JobOK(wd, j) == IsJob(j) /\ Phase(wd, j) /\ Answer(j) /\ Bytes(wd, j) /\ Package(wd, j)
JobsOK(wd, jobs) ==
  jobs = [w \in Workers |-> jobs[w]] /\ \A w \in Workers : JobOK(wd, jobs[w])

IInv == WorldOK(world) /\ FilesOK(cache) /\ JobsOK(world, job)

LEMMA FieldsOfJob ==
  ASSUME NEW pc, NEW asks, NEW ask, NEW vm, NEW data, NEW pkg, NEW new
  PROVE  LET j == Job(pc, asks, ask, vm, data, pkg)
         IN /\ j.pc = pc /\ j.asks = asks /\ j.ask = ask
            /\ j.vm = vm /\ j.data = data /\ j.pkg = pkg
            /\ [j EXCEPT !.pc = new] = Job(new, asks, ask, vm, data, pkg)
            /\ [j EXCEPT !.data = new] = Job(pc, asks, ask, vm, new, pkg)
            /\ [j EXCEPT !.pkg = new] = Job(pc, asks, ask, vm, data, new)
            /\ [j EXCEPT !.vm = new] = Job(pc, asks, ask, new, data, pkg)
            /\ [j EXCEPT !.ask = new] = Job(pc, asks, new, vm, data, pkg)
            /\ IsJob(j)
BY DEF Job, IsJob

LEMMA ChangedJob ==
  ASSUME NEW j, IsJob(j), NEW new
  PROVE  /\ [j EXCEPT !.pc = new] = Job(new, j.asks, j.ask, j.vm, j.data, j.pkg)
         /\ [j EXCEPT !.data = new] = Job(j.pc, j.asks, j.ask, j.vm, new, j.pkg)
         /\ [j EXCEPT !.pkg = new] = Job(j.pc, j.asks, j.ask, j.vm, j.data, new)
<1>1. PICK pc, asks, ask, vm, data, pkg :
         /\ pc = j.pc /\ asks = j.asks /\ ask = j.ask
         /\ vm = j.vm /\ data = j.data /\ pkg = j.pkg
  OBVIOUS
<1>2. j = Job(pc, asks, ask, vm, data, pkg)
  BY <1>1 DEF IsJob
<1>3. /\ [j EXCEPT !.pc = new] = Job(new, asks, ask, vm, data, pkg)
      /\ [j EXCEPT !.data = new] = Job(pc, asks, ask, vm, new, pkg)
      /\ [j EXCEPT !.pkg = new] = Job(pc, asks, ask, vm, data, new)
  BY <1>2, FieldsOfJob
<1> QED
  BY <1>1, <1>3

LEMMA IdleIs ==
  ASSUME NEW n, NEW wd, n \in 0..MaxAsks
  PROVE  /\ Idle(n) = Job("idle", n, [from |-> "none"], None, <<>>, Nothing)
         /\ JobOK(wd, Idle(n))
<1>1. Idle(n) = Job("idle", n, [from |-> "none"], None, <<>>, Nothing)
  BY DEF Idle, Job
<1>2. PICK j : j = Idle(n)
  OBVIOUS
<1>3. /\ j.pc = "idle" /\ j.asks = n /\ j.vm = None /\ j.pkg = Nothing /\ IsJob(j)
  BY <1>1, <1>2, FieldsOfJob
<1>4. Phase(wd, j)
  BY <1>3 DEF Phase, Pcs
<1>5. Answer(j) /\ Bytes(wd, j)
  BY <1>3 DEF Answer, Bytes
<1>6. Package(wd, j)
  BY <1>3, NothingIs DEF Package
<1> QED
  BY <1>1, <1>2, <1>3, <1>4, <1>5, <1>6 DEF JobOK

\* The step of one worker, the others standing still.
LEMMA OneMoves ==
  ASSUME NEW jobs, NEW jobs2, NEW wd, NEW w \in Workers, NEW j, JobsOK(wd, jobs),
         JobOK(wd, j), jobs2 = [jobs EXCEPT ![w] = j]
  PROVE  JobsOK(wd, jobs2)
BY DEF JobsOK

\* Every behaviour starts in a state of the invariant.
LEMMA InitIInv == Init => IInv
<1> SUFFICES ASSUME Init PROVE IInv
    OBVIOUS
<1>1. WorldOK(world)
  <2>1. CASE world \in Worlds
    BY <2>1, WorldAssumption DEF WorldOK, Asking
  <2>2. ASSUME NEW n \in 0..MaxTarball, NEW t \in [1..n -> Entries],
               world = [asks |-> {[from |-> "tarball"]}, entries |-> t,
                        caching |-> FALSE, oversized |-> FALSE]
        PROVE  WorldOK(world)
    <3>1. n \in Nat /\ Entries \subseteq Entry
      BY LimitAssumption, WorldAssumption
    <3>2. t \in Seq(Entry)
      BY <3>1
    <3> QED
      BY <2>2, <3>2 DEF WorldOK, Asking
  <2> QED
    BY <2>1, <2>2 DEF Init
<1>2. FilesOK(cache)
  BY DEF Init, FilesOK
<1>3. \A w \in Workers : job[w] = Idle(0) /\ JobOK(world, Idle(0))
  BY LimitAssumption, IdleIs DEF Init
<1>4. JobsOK(world, job)
  BY <1>3 DEF Init, JobsOK
<1> QED
  BY <1>1, <1>2, <1>4 DEF IInv

LEMMA AskIInv ==
  ASSUME NEW w \in Workers, IInv, Ask(w) PROVE IInv'
<1>1. world' = world /\ cache' = cache /\ job[w].asks \in 0..MaxAsks /\ job[w].asks < MaxAsks
  BY DEF Ask, IInv, JobsOK, JobOK, Phase
<1>2. PICK n \in 0..MaxAsks : n = job[w].asks + 1
  BY <1>1, LimitAssumption
<1>3. PICK r \in world.asks : LET with(vm, pc) == [Idle(n) EXCEPT !.ask = r, !.vm = vm, !.pc = pc]
         IN \/ r.from # "registry" /\ Become(w, with(None, "load"))
            \/ r.from = "registry" /\ Become(w, with(None, "failed"))
            \/ /\ r.from = "registry"
               /\ \E vm \in Resolve(r.name, r.range) :
                    Become(w, with(vm, IF world.caching THEN "look" ELSE "get"))
  BY <1>2 DEF Ask
<1>4. PICK vm, pc :
        /\ job' = [job EXCEPT ![w] = [Idle(n) EXCEPT !.ask = r, !.vm = vm, !.pc = pc]]
        /\ \/ r.from # "registry" /\ vm = None /\ pc = "load"
           \/ r.from = "registry" /\ vm = None /\ pc = "failed"
           \/ /\ r.from = "registry" /\ vm \in Resolve(r.name, r.range)
              /\ pc \in {"look", "get"} /\ (pc = "look" => world.caching)
  <2>1. CASE r.from # "registry" /\ Become(w, [Idle(n) EXCEPT !.ask = r, !.vm = None, !.pc = "load"])
    BY <2>1 DEF Become
  <2>2. CASE r.from = "registry" /\ Become(w, [Idle(n) EXCEPT !.ask = r, !.vm = None, !.pc = "failed"])
    BY <2>2 DEF Become
  <2>3. ASSUME r.from = "registry", NEW vm \in Resolve(r.name, r.range), NEW pc,
               pc = IF world.caching THEN "look" ELSE "get",
               Become(w, [Idle(n) EXCEPT !.ask = r, !.vm = vm, !.pc = pc])
        PROVE  /\ job' = [job EXCEPT ![w] = [Idle(n) EXCEPT !.ask = r, !.vm = vm, !.pc = pc]]
               /\ pc \in {"look", "get"} /\ (pc = "look" => world.caching)
    BY <2>3 DEF Become
  <2> QED
    BY <1>3, <2>1, <2>2, <2>3
<1>5. Asking(r) /\ WorldOK(world)
  BY DEF IInv, WorldOK
<1>6. PICK j : j = Job(pc, n, r, vm, <<>>, Nothing)
  OBVIOUS
<1>7. [Idle(n) EXCEPT !.ask = r, !.vm = vm, !.pc = pc] = j
  <2>1. Idle(n) = Job("idle", n, [from |-> "none"], None, <<>>, Nothing)
    BY IdleIs
  <2>2. PICK from : from = [from |-> "none"]
    OBVIOUS
  <2>3. PICK i : i = Idle(n)
    OBVIOUS
  <2>4. i = Job("idle", n, from, None, <<>>, Nothing)
    BY <2>1, <2>2, <2>3
  <2>5. PICK k : k = [i EXCEPT !.ask = r]
    OBVIOUS
  <2>6. k = Job("idle", n, r, None, <<>>, Nothing)
    BY <2>4, <2>5, FieldsOfJob
  <2>7. PICK l : l = [k EXCEPT !.vm = vm]
    OBVIOUS
  <2>8. l = Job("idle", n, r, vm, <<>>, Nothing)
    BY <2>6, <2>7, FieldsOfJob
  <2>9. [l EXCEPT !.pc = pc] = j
    BY <1>6, <2>8, FieldsOfJob
  <2>10. [i EXCEPT !.ask = r, !.vm = vm, !.pc = pc] = [l EXCEPT !.pc = pc]
    BY <2>5, <2>7
  <2> QED
    BY <2>3, <2>9, <2>10
<1>8. /\ j.pc = pc /\ j.asks = n /\ j.ask = r /\ j.vm = vm /\ j.pkg = Nothing /\ IsJob(j)
  BY <1>6, FieldsOfJob
<1>9. Phase(world, j)
  <2>1. pc \in {"look", "get"} => Listed(r.name, vm)
    BY <1>4, <1>5, ResolvedIsPublished DEF Asking, Listed
  <2> QED
    BY <1>4, <1>5, <1>8, <2>1 DEF Phase, Pcs
<1>10. Answer(j)
  BY <1>4, <1>8 DEF Answer
<1>11. Bytes(world, j)
  BY <1>4, <1>8 DEF Bytes
<1>12. Package(world, j)
  BY <1>4, <1>8, NothingIs DEF Package
<1>13. JobsOK(world, job')
  BY <1>4, <1>7, <1>8, <1>9, <1>10, <1>11, <1>12, OneMoves DEF IInv, JobOK
<1> QED
  BY <1>1, <1>13 DEF IInv

LEMMA LookIInv ==
  ASSUME NEW w \in Workers, IInv, Look(w) PROVE IInv'
<1>1. world' = world /\ cache' = cache /\ job[w].pc = "look"
  BY DEF Look
<1>2. PICK j : j = job[w]
  OBVIOUS
<1>3. IsJob(j) /\ Phase(world, j) /\ Answer(j) /\ Bytes(world, j) /\ Package(world, j)
  BY <1>2 DEF IInv, JobsOK, JobOK
<1>4. j.ask.from = "registry" /\ world.caching /\ Listed(j.ask.name, j.vm)
  BY <1>1, <1>2, <1>3 DEF Phase
<1>5. PICK f : f = CacheName(j.ask.name, j.vm)
  OBVIOUS
<1>6. CASE Cached(f)
  <2>1. PICK d : d = cache[f]
    OBVIOUS
  <2>2. job' = [job EXCEPT ![w] = [[j EXCEPT !.pc = "load"] EXCEPT !.data = d]]
    BY <1>2, <1>5, <1>6, <2>1 DEF Look, Become, Goes, Dest
  <2>3. PICK k : k = Job("load", j.asks, j.ask, j.vm, d, j.pkg)
    OBVIOUS
  <2>4. [[j EXCEPT !.pc = "load"] EXCEPT !.data = d] = k
    <3>1. PICK k1 : k1 = [j EXCEPT !.pc = "load"]
      OBVIOUS
    <3>2. k1 = Job("load", j.asks, j.ask, j.vm, j.data, j.pkg)
      BY <1>3, <3>1, ChangedJob
    <3>3. [k1 EXCEPT !.data = d] = k
      BY <2>3, <3>2, FieldsOfJob
    <3> QED
      BY <3>1, <3>3
  <2>5. /\ k.pc = "load" /\ k.asks = j.asks /\ k.ask = j.ask /\ k.vm = j.vm /\ k.data = d
        /\ k.pkg = j.pkg /\ IsJob(k)
    BY <2>3, FieldsOfJob
  <2>6. Fits(world, k)
    <3>1. FileOK(f, d) /\ d.len # "empty"
      BY <1>6, <2>1 DEF Cached, IInv, FilesOK
    <3> QED
      BY <1>4, <1>5, <2>5, <3>1 DEF Fits, FileOK, Lens
  <2>7. Phase(world, k) /\ Answer(k)
    BY <1>1, <1>2, <1>3, <2>5 DEF Phase, Answer, Pcs
  <2>8. Bytes(world, k)
    BY <2>5, <2>6 DEF Bytes
  <2>9. Package(world, k)
    BY <1>1, <1>2, <1>3, <2>5 DEF Package
  <2> QED
    BY <1>1, <2>2, <2>4, <2>5, <2>7, <2>8, <2>9, OneMoves DEF IInv, JobOK
<1>7. CASE ~Cached(f)
  <2>2. job' = [job EXCEPT ![w] = [j EXCEPT !.pc = "get"]]
    BY <1>2, <1>5, <1>7 DEF Look, Become, Goes, Dest
  <2>3. PICK k : k = Job("get", j.asks, j.ask, j.vm, j.data, j.pkg)
    OBVIOUS
  <2>4. [j EXCEPT !.pc = "get"] = k
    BY <1>3, <2>3, ChangedJob
  <2>5. /\ k.pc = "get" /\ k.asks = j.asks /\ k.ask = j.ask /\ k.vm = j.vm /\ k.data = j.data
        /\ k.pkg = j.pkg /\ IsJob(k)
    BY <2>3, FieldsOfJob
  <2>7. Phase(world, k) /\ Answer(k)
    BY <1>1, <1>2, <1>3, <2>5 DEF Phase, Answer, Pcs
  <2>8. Bytes(world, k)
    BY <2>5 DEF Bytes
  <2>9. Package(world, k)
    BY <1>1, <1>2, <1>3, <2>5 DEF Package
  <2> QED
    BY <1>1, <2>2, <2>4, <2>5, <2>7, <2>8, <2>9, OneMoves DEF IInv, JobOK
<1> QED
  BY <1>6, <1>7

LEMMA GetIInv ==
  ASSUME NEW w \in Workers, IInv, Get(w) PROVE IInv'
<1>1. world' = world /\ cache' = cache /\ job[w].pc = "get"
  BY DEF Get
<1>2. PICK j : j = job[w]
  OBVIOUS
<1>3. IsJob(j) /\ Phase(world, j) /\ Answer(j) /\ Bytes(world, j) /\ Package(world, j)
  BY <1>2 DEF IInv, JobsOK, JobOK
<1>4. /\ j.ask.from = "registry" /\ Listed(j.ask.name, j.vm)
      /\ world.caching \in BOOLEAN /\ world.oversized \in BOOLEAN
  BY <1>1, <1>2, <1>3 DEF Phase, IInv, WorldOK
<1>5. CASE Become(w, Goes(w, "failed"))
  <2>1. job' = [job EXCEPT ![w] = [j EXCEPT !.pc = "failed"]]
    BY <1>2, <1>5 DEF Become, Goes
  <2>2. PICK k : k = Job("failed", j.asks, j.ask, j.vm, j.data, j.pkg)
    OBVIOUS
  <2>3. [j EXCEPT !.pc = "failed"] = k
    BY <1>3, <2>2, ChangedJob
  <2>4. /\ k.pc = "failed" /\ k.asks = j.asks /\ k.ask = j.ask /\ k.vm = j.vm
        /\ k.pkg = j.pkg /\ IsJob(k)
    BY <2>2, FieldsOfJob
  <2>5. Phase(world, k) /\ Answer(k) /\ Bytes(world, k)
    BY <1>1, <1>2, <1>3, <2>4 DEF Phase, Answer, Bytes, Pcs
  <2>6. Package(world, k)
    BY <1>1, <1>2, <1>3, <1>4, <2>4 DEF Package
  <2> QED
    BY <1>1, <2>1, <2>3, <2>4, <2>5, <2>6, OneMoves DEF IInv, JobOK
<1>6. ASSUME NEW pc, pc = IF world.caching THEN "save" ELSE "load",
             Become(w, [Goes(w, pc) EXCEPT !.data = Body(w)])
      PROVE  IInv'
  <2>1. PICK d : d = Body(w)
    OBVIOUS
  <2>2. d.of = <<j.ask.name, j.vm>> /\ d.len \in Lens
    BY <1>2, <1>4, <2>1 DEF Body, Lens
  <2>3. job' = [job EXCEPT ![w] = [[j EXCEPT !.pc = pc] EXCEPT !.data = d]]
    BY <1>2, <1>6, <2>1 DEF Become, Goes
  <2>4. PICK k : k = Job(pc, j.asks, j.ask, j.vm, d, j.pkg)
    OBVIOUS
  <2>5. [[j EXCEPT !.pc = pc] EXCEPT !.data = d] = k
    <3>1. PICK k1 : k1 = [j EXCEPT !.pc = pc]
      OBVIOUS
    <3>2. k1 = Job(pc, j.asks, j.ask, j.vm, j.data, j.pkg)
      BY <1>3, <3>1, ChangedJob
    <3>3. [k1 EXCEPT !.data = d] = k
      BY <2>4, <3>2, FieldsOfJob
    <3> QED
      BY <3>1, <3>3
  <2>6. /\ k.pc = pc /\ k.asks = j.asks /\ k.ask = j.ask /\ k.vm = j.vm /\ k.data = d
        /\ k.pkg = j.pkg /\ IsJob(k)
    BY <2>4, FieldsOfJob
  <2>7. pc \in {"save", "load"} /\ (pc = "save" => world.caching)
    BY <1>4, <1>6
  <2>8. Phase(world, k) /\ Answer(k)
    BY <1>1, <1>2, <1>3, <2>6, <2>7 DEF Phase, Answer, Pcs
  <2>9. Bytes(world, k)
    BY <1>4, <2>2, <2>6, <2>7 DEF Bytes, Fits
  <2>10. Package(world, k)
    BY <1>1, <1>2, <1>3, <2>6, <2>7 DEF Package
  <2> QED
    BY <1>1, <2>3, <2>5, <2>6, <2>8, <2>9, <2>10, OneMoves DEF IInv, JobOK
<1>7. PICK pc : pc = IF world.caching THEN "save" ELSE "load"
  OBVIOUS
<1> QED
  BY <1>5, <1>6, <1>7 DEF Get

\* Writing to the file of what was asked for keeps the cache well-named.
LEMMA FiledIs ==
  ASSUME NEW w \in Workers, FilesOK(cache), NEW len \in {"empty", "part", "whole"},
         job[w].data.of = <<job[w].ask.name, job[w].vm>>,
         Listed(job[w].ask.name, job[w].vm)
  PROVE  FilesOK(Filed(w, len))
<1>1. PICK n, v : n = job[w].ask.name /\ v = job[w].vm
  OBVIOUS
<1>2. Dest(w) = CacheName(n, v) /\ job[w].data.of = <<n, v>> /\ Listed(n, v)
  BY <1>1 DEF Dest
<1>3. PICK c : c = [of |-> job[w].data.of, len |-> len]
  OBVIOUS
<1>4. FileOK(Dest(w), c)
  BY <1>2, <1>3 DEF FileOK
<1>5. PICK d : d = Dest(w)
  OBVIOUS
<1>6. Filed(w, len) = [f \in DOMAIN cache \cup {d} |-> IF f = d THEN c ELSE cache[f]]
  BY <1>3, <1>5 DEF Filed
<1> QED
  BY <1>4, <1>5, <1>6 DEF FilesOK

LEMMA SaveIInv ==
  ASSUME NEW w \in Workers, IInv, Save(w) PROVE IInv'
<1>1. world' = world /\ job[w].pc \in {"save", "saving", "saved"}
  BY DEF Save
<1>2. PICK j : j = job[w]
  OBVIOUS
<1>3. IsJob(j) /\ Phase(world, j) /\ Answer(j) /\ Bytes(world, j) /\ Package(world, j)
  BY <1>2 DEF IInv, JobsOK, JobOK
<1>4. j.data.len \in Lens /\ j.data.of = <<j.ask.name, j.vm>> /\ Listed(j.ask.name, j.vm)
  BY <1>1, <1>2, <1>3 DEF Bytes, Phase
<1>5. \A len \in {"empty", "part", "whole"} : FilesOK(Filed(w, len))
  BY <1>2, <1>4, FiledIs DEF IInv
<1>6. FilesOK(cache) /\ j.data.len \in {"empty", "part", "whole"}
  BY <1>4 DEF IInv, Lens
<1>7. PICK pc \in {"saving", "saved", "load"} :
         Become(w, Goes(w, pc)) /\ FilesOK(cache')
  <2>1. CASE cache' = cache /\ Become(w, Goes(w, "load"))
    BY <1>6, <2>1
  <2>2. CASE cache' = Filed(w, "empty") /\ Become(w, Goes(w, "saving"))
    BY <1>5, <2>2
  <2>3. CASE cache' = Filed(w, "part") /\ Become(w, Goes(w, "saved"))
    BY <1>5, <2>3
  <2>4. CASE cache' = Filed(w, job[w].data.len) /\ Become(w, Goes(w, "load"))
    BY <1>2, <1>5, <1>6, <2>4
  <2> QED
    BY <2>1, <2>2, <2>3, <2>4 DEF Save
<1>8. job' = [job EXCEPT ![w] = [j EXCEPT !.pc = pc]]
  BY <1>2, <1>7 DEF Become, Goes
<1>9. PICK k : k = Job(pc, j.asks, j.ask, j.vm, j.data, j.pkg)
  OBVIOUS
<1>10. [j EXCEPT !.pc = pc] = k
  BY <1>3, <1>9, ChangedJob
<1>11. /\ k.pc = pc /\ k.asks = j.asks /\ k.ask = j.ask /\ k.vm = j.vm /\ k.data = j.data
       /\ k.pkg = j.pkg /\ IsJob(k)
  BY <1>9, FieldsOfJob
<1>12. Phase(world, k) /\ Answer(k)
  BY <1>1, <1>2, <1>3, <1>11 DEF Phase, Answer, Pcs
<1>13. Bytes(world, k)
  BY <1>4, <1>11 DEF Bytes, Fits
<1>14. Package(world, k)
  BY <1>1, <1>2, <1>3, <1>11 DEF Package
<1>15. JobsOK(world, job')
  BY <1>8, <1>10, <1>11, <1>12, <1>13, <1>14, OneMoves DEF IInv, JobOK
<1> QED
  BY <1>1, <1>7, <1>15 DEF IInv

LEMMA LoadIInv ==
  ASSUME NEW w \in Workers, IInv, Load(w) PROVE IInv'
<1>1. world' = world /\ cache' = cache /\ job[w].pc = "load"
  BY DEF Load
<1>2. PICK j : j = job[w]
  OBVIOUS
<1>3. IsJob(j) /\ Phase(world, j) /\ Answer(j) /\ Bytes(world, j) /\ Package(world, j)
  BY <1>2 DEF IInv, JobsOK, JobOK
<1>4. PICK es \in Seq(Entry) : es = world.entries
  BY DEF IInv, WorldOK
<1>5. PICK pkg : pkg = IF j.ask.from = "dir" THEN LoadDir(es)
                       ELSE IF j.ask.from = "tarball" THEN LoadTarball(es)
                       ELSE LoadData(j.data, es)
  OBVIOUS
<1>6. pkg = Nothing \/ pkg = LoadTarball(es) \/ pkg = LoadDir(es)
  BY <1>5 DEF LoadData
<1>7. pkg.ok \in BOOLEAN /\ Closed(pkg.tree)
  <2>1. CASE pkg = Nothing
    BY <2>1, NothingIs
  <2>2. CASE pkg = LoadTarball(es)
    BY <2>2, TarballIs
  <2>3. CASE pkg = LoadDir(es)
    BY <2>3, DirIs
  <2> QED
    BY <1>6, <2>1, <2>2, <2>3
<1>8. PICK pc \in {"done", "failed"} : pc = IF pkg.ok THEN "done" ELSE "failed"
  OBVIOUS
<1>9. pkg.ok = (pc = "done")
  BY <1>7, <1>8
<1>10. job' = [job EXCEPT ![w] = [[j EXCEPT !.pc = pc] EXCEPT !.pkg = pkg]]
  BY <1>2, <1>4, <1>5, <1>8 DEF Load, Become, Goes
<1>11. PICK k : k = Job(pc, j.asks, j.ask, j.vm, j.data, pkg)
  OBVIOUS
<1>12. [[j EXCEPT !.pc = pc] EXCEPT !.pkg = pkg] = k
  <2>1. PICK k1 : k1 = [j EXCEPT !.pc = pc]
    OBVIOUS
  <2>2. k1 = Job(pc, j.asks, j.ask, j.vm, j.data, j.pkg)
    BY <1>3, <2>1, ChangedJob
  <2>3. [k1 EXCEPT !.pkg = pkg] = k
    BY <1>11, <2>2, FieldsOfJob
  <2> QED
    BY <2>1, <2>3
<1>13. /\ k.pc = pc /\ k.asks = j.asks /\ k.ask = j.ask /\ k.vm = j.vm /\ k.data = j.data
       /\ k.pkg = pkg /\ IsJob(k)
  BY <1>11, FieldsOfJob
<1>14. Phase(world, k) /\ Answer(k)
  BY <1>1, <1>2, <1>3, <1>13 DEF Phase, Answer, Pcs
<1>15. Asking(j.ask)
  BY <1>1, <1>2, <1>3 DEF Phase
<1>16. j.ask.from = "registry" /\ pkg.ok => j.data.len # "part" /\ pkg = LoadTarball(es)
  BY <1>5, NothingIs DEF LoadData
<1>17. Bytes(world, k)
  <2>1. j.ask.from = "registry" => Fits(world, j)
    BY <1>1, <1>2, <1>3 DEF Bytes
  <2>2. j.ask.from = "registry" => Fits(world, k)
    BY <1>13, <2>1 DEF Fits
  <2>3. j.ask.from = "registry" /\ pc = "done" => j.data.len = "whole"
    BY <1>9, <1>16, <2>1 DEF Fits, Lens
  <2> QED
    BY <1>13, <2>2, <2>3 DEF Bytes
<1>18. Package(world, k)
  <2>1. pc = "done" => pkg = IF j.ask.from = "dir" THEN LoadDir(es) ELSE LoadTarball(es)
    BY <1>5, <1>9, <1>15, <1>16 DEF Asking
  <2>2. pc = "failed" /\ j.ask.from = "tarball" => ~LoadTarball(es).ok
    BY <1>5, <1>9
  <2> QED
    BY <1>4, <1>7, <1>9, <1>13, <2>1, <2>2 DEF Package
<1>19. JobsOK(world, job')
  BY <1>10, <1>12, <1>13, <1>14, <1>17, <1>18, OneMoves DEF IInv, JobOK
<1> QED
  BY <1>1, <1>19 DEF IInv

LEMMA CrashIInv ==
  ASSUME NEW w \in Workers, IInv, Crash(w) PROVE IInv'
<1>1. world' = world /\ cache' = cache /\ job' = [job EXCEPT ![w] = Idle(job[w].asks)]
  BY DEF Crash, Become
<1>2. job[w].asks \in 0..MaxAsks
  BY DEF IInv, JobsOK, JobOK, Phase
<1>3. PICK k : k = Idle(job[w].asks)
  OBVIOUS
<1>4. JobOK(world, k)
  BY <1>2, <1>3, IdleIs
<1>5. JobsOK(world, job')
  BY <1>1, <1>3, <1>4, OneMoves DEF IInv
<1> QED
  BY <1>1, <1>5 DEF IInv

LEMMA StepIInv == IInv /\ [Next]_vars => IInv'
<1> SUFFICES ASSUME IInv, [Next]_vars PROVE IInv'
    OBVIOUS
<1>1. CASE UNCHANGED vars
  BY <1>1 DEF IInv, vars
<1>2. ASSUME NEW w \in Workers, Ask(w) PROVE IInv'
  BY <1>2, AskIInv
<1>3. ASSUME NEW w \in Workers, Look(w) PROVE IInv'
  BY <1>3, LookIInv
<1>4. ASSUME NEW w \in Workers, Get(w) PROVE IInv'
  BY <1>4, GetIInv
<1>5. ASSUME NEW w \in Workers, Save(w) PROVE IInv'
  BY <1>5, SaveIInv
<1>6. ASSUME NEW w \in Workers, Load(w) PROVE IInv'
  BY <1>6, LoadIInv
<1>7. ASSUME NEW w \in Workers, Crash(w) PROVE IInv'
  BY <1>7, CrashIInv
<1> QED
  BY <1>1, <1>2, <1>3, <1>4, <1>5, <1>6, <1>7 DEF Next

THEOREM Invariance == Spec => []IInv
<1>1. Init => IInv
  BY InitIInv
<1>2. IInv /\ [Next]_vars => IInv'
  BY StepIInv
<1> QED
  BY <1>1, <1>2, PTL DEF Spec

-----------------------------------------------------------------------------
(* What follows from the invariant *)

LEMMA IInvTypeOK == IInv => TypeOK
<1> SUFFICES ASSUME IInv PROVE TypeOK
    OBVIOUS
<1>1. \A f \in DOMAIN cache : cache[f].len \in {"empty", "part", "whole"}
  BY DEF IInv, FilesOK, FileOK
<1>2. ASSUME NEW w \in Workers
      PROVE  /\ job[w].pc \in Pcs /\ job[w].asks \in 0..MaxAsks
             /\ job[w].pc \in {"look", "save", "saving", "saved"} => world.caching
             /\ job[w].vm = None \/ job[w].vm \in Published[job[w].ask.name]
             /\ job[w].pkg.ok <=> job[w].pc = "done"
  <2>1. Phase(world, job[w]) /\ Answer(job[w]) /\ Package(world, job[w])
    BY DEF IInv, JobsOK, JobOK
  <2> QED
    BY <2>1, ResolvedIsPublished DEF Phase, Answer, Package
<1> QED
  BY <1>1, <1>2 DEF TypeOK, Pcs

\* The state is well-formed: files of the cache, phases, answers and packages.
THEOREM TypeCorrect == Spec => []TypeOK
<1>1. IInv => TypeOK
  BY IInvTypeOK
<1> QED
  BY <1>1, Invariance, PTL

\* What the slug of a name or version is.
LEMMA SlugIs ==
  ASSUME NEW s \in Seq(Characters) \ {<<>>}
  PROVE  /\ CacheSlug(s) \in Seq(Characters) /\ Len(CacheSlug(s)) = Len(s)
         /\ \A i \in 1 .. Len(s) : CacheSlug(s)[i] \in {s[i], "-"}
<1>1. /\ s \in Seq(Characters) /\ Len(s) \in Nat /\ DOMAIN s = 1 .. Len(s)
      /\ \A i \in 1 .. Len(s) : s[i] \in Characters
  OBVIOUS
<1>2. PICK t : t = CacheSlug(s)
  OBVIOUS
<1>3. t = [i \in DOMAIN s |-> IF s[i] \in WordChars \/ (s[i] = "." /\ i # 1) THEN s[i] ELSE "-"]
  <2>1. s # <<>>
    OBVIOUS
  <2>2. CacheSlug(s) =
          [i \in DOMAIN s |-> IF s[i] \in WordChars \/ (s[i] = "." /\ i # 1) THEN s[i] ELSE "-"]
    BY <2>1 DEF CacheSlug
  <2> QED
    BY <1>2, <2>2
<1>4. \A i \in 1 .. Len(s) : t[i] \in {s[i], "-"}
  BY <1>1, <1>3
<1>5. t \in [1 .. Len(s) -> Characters]
  <2>1. "-" \in Characters
    BY SpellingAssumption
  <2>2. \A i \in 1 .. Len(s) : t[i] \in Characters
    BY <1>1, <1>4, <2>1
  <2> QED
    BY <1>1, <1>3, <2>2
<1>6. t \in Seq(Characters) /\ Len(t) = Len(s)
  BY <1>1, <1>5
<1> QED
  BY <1>2, <1>4, <1>6

\* A slug without a dash says all of what it was made from.
LEMMA SlugSaysAll ==
  ASSUME NEW s \in Seq(Characters) \ {<<>>}, NEW p \in Seq(Characters),
         CacheSlug(s) = p, "-" \notin ToSet(p)
  PROVE  s = p
<1>1. /\ Len(p) = Len(s) /\ \A i \in 1 .. Len(s) : p[i] \in {s[i], "-"}
  BY SlugIs
<1>2. \A i \in 1 .. Len(p) : p[i] # "-"
  BY DEF ToSet
<1>3. s \in Seq(Characters) /\ \A i \in 1 .. Len(s) : s[i] = p[i]
  BY <1>1, <1>2
<1> QED
  BY <1>1, <1>3, SeqEqual

\* Where the parts of a joined text are.
LEMMA JoinedIs ==
  ASSUME NEW a \in Seq(Characters), NEW b \in Seq(Characters), NEW x, x = a \o <<"-">> \o b
  PROVE  /\ Len(x) = Len(a) + 1 + Len(b)
         /\ \A i \in 1 .. Len(a) : x[i] = a[i]
         /\ x[Len(a) + 1] = "-"
         /\ \A i \in 1 .. Len(b) : x[Len(a) + 1 + i] = b[i]
<1>1. PICK d \in Seq(Characters) : d = <<"-">> /\ Len(d) = 1 /\ d[1] = "-"
  <2>1. "-" \in Characters
    BY SpellingAssumption
  <2>2. <<"-">> \in Seq(Characters) /\ Len(<<"-">>) = 1 /\ <<"-">>[1] = "-"
    BY <2>1
  <2> QED
    BY <2>2
<1>2. Len(a) \in Nat /\ Len(b) \in Nat
  OBVIOUS
<1>3. PICK c \in Seq(Characters) : c = a \o d
  BY ConcatProperties
<1>4. /\ Len(c) = Len(a) + Len(d)
      /\ \A i \in 1 .. Len(a) + Len(d) : c[i] = IF i <= Len(a) THEN a[i] ELSE d[i - Len(a)]
  BY <1>3, ConcatProperties
<1>5. /\ Len(c) = Len(a) + 1 /\ c[Len(a) + 1] = "-"
      /\ \A i \in 1 .. Len(a) : c[i] = a[i]
  BY <1>1, <1>2, <1>4
<1>6. PICK y \in Seq(Characters) : y = c \o b
  BY ConcatProperties
<1>7. /\ Len(x) = Len(c) + Len(b)
      /\ \A i \in 1 .. Len(c) + Len(b) : x[i] = IF i <= Len(c) THEN c[i] ELSE b[i - Len(c)]
  <2>1. /\ Len(y) = Len(c) + Len(b)
        /\ \A i \in 1 .. Len(c) + Len(b) : y[i] = IF i <= Len(c) THEN c[i] ELSE b[i - Len(c)]
    BY <1>6, ConcatProperties
  <2>2. x = y
    BY <1>1, <1>3, <1>6
  <2> QED
    BY <2>1, <2>2
<1>8. ASSUME NEW i \in 1 .. Len(b) PROVE x[Len(a) + 1 + i] = b[i]
  <2>1. PICK k \in Nat : k = Len(a) + 1 + i
    BY <1>2
  <2>2. k \in 1 .. Len(c) + Len(b) /\ ~(k <= Len(c)) /\ k - Len(c) = i
    BY <1>2, <1>5, <2>1
  <2>3. x[k] = b[k - Len(c)]
    BY <1>7, <2>2
  <2> QED
    BY <2>1, <2>2, <2>3
<1>9. ASSUME NEW i \in 1 .. Len(a) + 1 PROVE x[i] = c[i]
  BY <1>2, <1>5, <1>7
<1>10. (\A i \in 1 .. Len(a) : x[i] = a[i]) /\ x[Len(a) + 1] = "-"
  BY <1>2, <1>5, <1>9
<1> QED
  BY <1>5, <1>7, <1>8, <1>10

\* The one dash of a joined text tells its two parts apart.
LEMMA PartsOfJoined ==
  ASSUME NEW s \in Seq(Characters), NEW t \in Seq(Characters),
         NEW p \in Seq(Characters), NEW q \in Seq(Characters),
         s \o <<"-">> \o t = p \o <<"-">> \o q,
         "-" \notin ToSet(p), "-" \notin ToSet(q)
  PROVE  s = p /\ t = q
<1>1. PICK x : x = s \o <<"-">> \o t
  OBVIOUS
<1>0. x = p \o <<"-">> \o q
  BY <1>1
<1>2. /\ Len(x) = Len(s) + 1 + Len(t)
      /\ \A i \in 1 .. Len(s) : x[i] = s[i]
      /\ x[Len(s) + 1] = "-"
      /\ \A i \in 1 .. Len(t) : x[Len(s) + 1 + i] = t[i]
  BY <1>1, JoinedIs
<1>3. /\ Len(x) = Len(p) + 1 + Len(q)
      /\ \A i \in 1 .. Len(p) : x[i] = p[i]
      /\ x[Len(p) + 1] = "-"
      /\ \A i \in 1 .. Len(q) : x[Len(p) + 1 + i] = q[i]
  BY <1>0, JoinedIs
<1>4. /\ Len(s) \in Nat /\ Len(t) \in Nat /\ Len(p) \in Nat /\ Len(q) \in Nat
      /\ \A i \in 1 .. Len(p) : p[i] # "-"
      /\ \A i \in 1 .. Len(q) : q[i] # "-"
  BY DEF ToSet
<1>5. ~(Len(s) < Len(p))
  <2> SUFFICES ASSUME Len(s) < Len(p) PROVE FALSE
    OBVIOUS
  <2>1. PICK i \in 1 .. Len(p) : i = Len(s) + 1
    BY <1>4
  <2>2. x[i] = p[i] /\ p[i] # "-"
    BY <1>3, <1>4
  <2>3. x[i] = "-"
    BY <1>2, <2>1
  <2> QED
    BY <2>2, <2>3
<1>6. ~(Len(s) > Len(p))
  <2> SUFFICES ASSUME Len(s) > Len(p) PROVE FALSE
    OBVIOUS
  <2>1. PICK i \in 1 .. Len(q) : Len(p) + 1 + i = Len(s) + 1
    <3>1. Len(s) - Len(p) \in 1 .. Len(q) /\ Len(p) + 1 + (Len(s) - Len(p)) = Len(s) + 1
      BY <1>2, <1>3, <1>4
    <3> QED
      BY <3>1
  <2>2. x[Len(p) + 1 + i] = q[i] /\ q[i] # "-"
    BY <1>3, <1>4
  <2>3. x[Len(p) + 1 + i] = "-"
    BY <1>2, <2>1
  <2> QED
    BY <2>2, <2>3
<1>7. Len(s) = Len(p) /\ Len(t) = Len(q)
  BY <1>2, <1>3, <1>4, <1>5, <1>6
<1>8. (\A i \in 1 .. Len(s) : s[i] = p[i]) /\ (\A i \in 1 .. Len(t) : t[i] = q[i])
  BY <1>2, <1>3, <1>7
<1> QED
  BY <1>7, <1>8, SeqEqual

\* A file that bears the name of a plain name and version holds nothing else.
LEMMA PlainIsAlone ==
  ASSUME NEW n, NEW v, NEW m, NEW u, Listed(n, v), Listed(m, u),
         CacheName(m, u) = CacheName(n, v), Plain(n), Plain(Spelled[v])
  PROVE  m = n /\ u = v
<1>1. /\ n \in Seq(Characters) \ {<<>>} /\ m \in Seq(Characters) \ {<<>>}
      /\ Spelled[v] \in Seq(Characters) \ {<<>>} /\ Spelled[u] \in Seq(Characters) \ {<<>>}
  BY SpellingAssumption DEF Listed
<1>2. /\ CacheSlug(n) = n /\ "-" \notin ToSet(n)
      /\ CacheSlug(Spelled[v]) = Spelled[v] /\ "-" \notin ToSet(Spelled[v])
  BY DEF Plain
<1>3. PICK s \in Seq(Characters), t \in Seq(Characters) : s = CacheSlug(m) /\ t = CacheSlug(Spelled[u])
  BY <1>1, SlugIs
<1>4. s \o <<"-">> \o t = n \o <<"-">> \o Spelled[v]
  BY <1>2, <1>3 DEF CacheName
<1>5. s = n /\ t = Spelled[v]
  BY <1>1, <1>2, <1>4, PartsOfJoined
<1>6. m = n
  BY <1>1, <1>2, <1>3, <1>5, SlugSaysAll
<1>7. Spelled[u] = Spelled[v]
  BY <1>1, <1>2, <1>3, <1>5, SlugSaysAll
<1> QED
  BY <1>6, <1>7, SpellingAssumption DEF Listed

\* What loads from the registry is complete and is the tarball of the version that
\* was asked for, in spite of every interleaving of writers and readers of the
\* cache, failed writes and crashes; only for a name or version that is not plain
\* may it be another one whose file has the same name (registry.go:162, :179).
THEOREM CacheServesWhatWasAsked == Spec => []LoadedIsAsked
<1>1. IInv => LoadedIsAsked
  <2> SUFFICES ASSUME IInv, NEW w \in Workers,
                      job[w].pc = "done", job[w].ask.from = "registry"
               PROVE  /\ job[w].data.len = "whole"
                      /\ \/ job[w].data.of = <<job[w].ask.name, job[w].vm>>
                         \/ /\ world.caching
                            /\ CacheName(job[w].data.of[1], job[w].data.of[2])
                                  = CacheName(job[w].ask.name, job[w].vm)
                            /\ ~(Plain(job[w].ask.name) /\ Plain(Spelled[job[w].vm]))
      BY DEF LoadedIsAsked
  <2>1. Bytes(world, job[w])
    BY DEF IInv, JobsOK, JobOK
  <2>2. job[w].data.len = "whole" /\ Fits(world, job[w])
    BY <2>1 DEF Bytes
  <2>3. PICK name, vm : name = job[w].ask.name /\ vm = job[w].vm
    OBVIOUS
  <2>4. ASSUME world.caching, NEW n, NEW v, Listed(n, v), job[w].data.of = <<n, v>>,
               CacheName(name, vm) = CacheName(n, v), <<n, v>> # <<name, vm>>
        PROVE  /\ CacheName(job[w].data.of[1], job[w].data.of[2]) = CacheName(name, vm)
               /\ ~(Plain(name) /\ Plain(Spelled[vm]))
    <3>1. Listed(name, vm)
      BY <2>2, <2>3 DEF Fits
    <3>2. ~(Plain(name) /\ Plain(Spelled[vm]))
      BY <2>4, <3>1, PlainIsAlone
    <3> QED
      BY <2>4, <3>2
  <2> QED
    BY <2>2, <2>3, <2>4 DEF Fits
<1> QED
  BY <1>1, Invariance, PTL

\* A range that the code reads as npm does is answered by the highest version that
\* meets it, for every set of versions and every order they are visited in.
THEOREM ResolutionIsHighest == Spec => []ResolvesToHighest
<1>1. IInv => ResolvesToHighest
  <2> SUFFICES ASSUME IInv, NEW w \in Workers, job[w].vm # None,
                      job[w].ask.range.word = "none",
                      \A alt \in job[w].ask.range.any : \A c \in alt : Agreed(c)
               PROVE  LET rng == job[w].ask.range
                          all == Published[job[w].ask.name]
                          meeting == {v \in all : \E alt \in rng.any : \A c \in alt :
                                                     Meets(v.num, c)}
                      IN meeting # {} =>
                           /\ job[w].vm \in meeting
                           /\ \A v \in meeting : ~Below(job[w].vm.num, v.num)
      BY Zenon DEF ResolvesToHighest
  <2>1. PICK j : j = job[w]
    OBVIOUS
  <2>2. /\ j.ask.from = "registry" /\ j.vm \in Resolve(j.ask.name, j.ask.range)
        /\ Asking(j.ask)
    BY <2>1 DEF IInv, JobsOK, JobOK, Answer, Phase
  <2>3. PICK n, rng, v : n = j.ask.name /\ rng = j.ask.range /\ v = j.vm
    OBVIOUS
  <2>4. /\ n \in DOMAIN Published
        /\ \A alt \in rng.any : \A c \in alt :
             c \in Comparator /\ \A k \in (c.parts + 1)..3 : c.num[k] = 0
    BY <2>2, <2>3 DEF Asking
  <2>5. /\ v \in Resolve(n, rng) /\ rng.word = "none"
        /\ \A alt \in rng.any : \A c \in alt : Agreed(c)
    BY <2>1, <2>2, <2>3
  <2>6. LET meeting == {u \in Published[n] :
                           \E alt \in rng.any : \A c \in alt : Meets(u.num, c)}
        IN meeting # {} => v \in meeting /\ \A u \in meeting : ~Below(v.num, u.num)
    BY <2>4, <2>5, HighestIsResolved
  <2> QED
    BY <2>1, <2>3, <2>6
<1> QED
  BY <1>1, Invariance, PTL

\* What is accepted lacks nothing and lists every file, and what is ordinary is
\* accepted: for every archive, however long, and all limits.
THEOREM ExtractionExact == Spec => []ExtractionIsExact
<1>1. IInv => NothingIsCut
  <2> SUFFICES ASSUME IInv, NEW w \in Workers, job[w].pc = "done"
               PROVE  LET t == job[w].pkg.tree
                          es == world.entries
                      IN /\ Whole(t)
                         /\ \A i : /\ Kept(es, i) /\ Inside(es[i].path)
                                   /\ (\E j : ManifestAt(es, j)) /\ job[w].ask.from # "dir"
                              => /\ Tail(es[i].path) \in DOMAIN t.files
                                 /\ t.files[Tail(es[i].path)].entry = es[i]
      BY DEF NothingIsCut, Whole, Kept, Inside, ManifestAt
  <2>1. PICK es \in Seq(Entry) : es = world.entries
    BY DEF IInv, WorldOK
  <2>2. PICK j : j = job[w]
    OBVIOUS
  <2>3. /\ j.pkg.ok /\ j.pkg = IF j.ask.from = "dir" THEN LoadDir(es) ELSE LoadTarball(es)
    BY <2>1, <2>2 DEF IInv, JobsOK, JobOK, Package
  <2>4. CASE j.ask.from = "dir"
    BY <2>1, <2>2, <2>3, <2>4, DirIs
  <2>5. CASE j.ask.from # "dir"
    BY <2>1, <2>2, <2>3, <2>5, TarballIs
  <2> QED
    BY <2>4, <2>5
<1>2. IInv => TreeIsClosed
  BY DEF IInv, JobsOK, JobOK, Package, TreeIsClosed, Closed
<1>3. IInv => OrdinaryLoads
  <2> SUFFICES ASSUME IInv, NEW w \in Workers, job[w].pc = "failed", job[w].ask.from = "tarball"
               PROVE  LET es == world.entries
                      IN \/ Len(es) > MaxEntries
                         \/ TotalSize(es) >= MaxBytes
                         \/ ~\E i : ManifestAt(es, i) /\ es[i].json \in {"plain", "odd values"}
      BY DEF OrdinaryLoads, ManifestAt, Kept
  <2>1. PICK es \in Seq(Entry) : es = world.entries
    BY DEF IInv, WorldOK
  <2>2. ~LoadTarball(es).ok
    BY <2>1 DEF IInv, JobsOK, JobOK, Package
  <2> QED
    BY <2>1, <2>2, TarballIs
<1>4. IInv => ExtractionIsExact
  BY <1>1, <1>2, <1>3, IInvTypeOK DEF ExtractionIsExact
<1> QED
  BY <1>4, Invariance, PTL

=============================================================================
