------------------------- MODULE ModuleLoaderProofs -------------------------
(***************************************************************************)
(* Proofs about ModuleLoader, for every package, set of names, depth of    *)
(* child processes and number of operations.  A step either leaves the     *)
(* stack of bodies alone, pushes one body or pops one (StepShapes); what   *)
(* is attributed to whom follows from these three shapes.                  *)
(***************************************************************************)
EXTENDS ModuleLoader, TLAPS, FiniteSetTheorems

-----------------------------------------------------------------------------
(* The operators *)

\* An entry is added in front of those there are.
LEMMA Adding ==
  ASSUME NEW x, NEW v, NEW g
  PROVE  /\ DOMAIN Put(x, v, g) = {x} \cup DOMAIN g
         /\ Put(x, v, g)[x] = v
         /\ \A y \in DOMAIN g \ {x} : Put(x, v, g)[y] = g[y]
  BY DEF Put

CacheOK(c) == DOMAIN c \subseteq Files \cup Specs /\ \A x \in DOMAIN c : c[x] \in Values

\* Adding a value to a well-formed cache.
LEMMA AddingToCache ==
  ASSUME NEW x \in Files \cup Specs, NEW v \in Values, NEW c, CacheOK(c)
  PROVE  CacheOK(Put(x, v, c))
  BY DEF Put, CacheOK

\* What Without leaves of a well-formed cache.
LEMMA WithoutFacts ==
  ASSUME CacheOK(cache), NEW f
  PROVE  CacheOK(Without(f)) /\ DOMAIN Without(f) = DOMAIN cache \ {f}
  BY DEF CacheOK, Without

\* Values are the records Value makes.
LEMMA ValueFacts ==
  ASSUME NEW x \in Files \cup Specs, NEW n \in Nat,
         NEW p \in {"stub", "placeholder", "exports"}
  PROVE  Value(x, n, p) \in Values /\ Stub(x) \in Values
  BY DEF Value, Stub, Values

-----------------------------------------------------------------------------
(* loadFile: it starts the body, or it leaves everything but the cache alone *)

Starts(f, kept, via) ==
    /\ Kind[f] = "script" /\ f \in Present /\ f \notin DOMAIN kept /\ ~aborted
    /\ Begin(f, kept, via)

Rests(f, kept) ==
    /\ UNCHANGED <<stack, scope, runs>> /\ threw' = Host
    /\ \/ cache' = kept /\ (f \in DOMAIN kept \/ f \notin Present)
       \/ \E v \in Values : cache' = Put(f, v, kept) /\ (Kind[f] # "script" \/ aborted)

\* The alternatives of LoadFile come to these two.
LEMMA LoadOutcomes ==
  ASSUME NEW f \in Files, NEW kept, NEW via, runs \in [Files -> Nat],
         LoadFile(f, kept, via)
  PROVE  Starts(f, kept, via) \/ Rests(f, kept)
<1>1. Stub(f) \in Values /\ Value(f, runs[f] + 1, "placeholder") \in Values
  BY ValueFacts
<1>2. CASE f \in DOMAIN kept /\ Done(kept, Host)
  BY <1>2 DEF Done, Rests
<1>3. CASE f \notin DOMAIN kept /\ f \notin Present /\ Done(kept, Host)
  BY <1>3 DEF Done, Rests
<1>4. CASE Kind[f] \in {"json", "binary"} /\ Settled(f, kept, Stub(f))
  BY <1>1, <1>4 DEF Settled, Rests
<1>5. CASE /\ Kind[f] \in {"broken", "shell"} \/ (Kind[f] = "script" /\ Refused)
           /\ Settled(f, kept, Value(f, runs[f] + 1, "placeholder"))
  BY <1>1, <1>5 DEF Settled, Rests, Refused
<1>6. CASE f \in Present /\ f \notin DOMAIN kept /\ Kind[f] = "script" /\ ~Refused /\ Begin(f, kept, via)
  BY <1>6 DEF Starts, Refused
<1> QED
  BY <1>2, <1>3, <1>4, <1>5, <1>6 DEF LoadFile

\* A require loads a file below the base, or it leaves all but the cache alone.
LEMMA RequireOutcomes ==
  ASSUME NEW s \in Specs, Require(s)
  PROVE  \/ \E f \in Inside : LoadFile(f, cache, "require")
         \/ /\ UNCHANGED <<stack, scope, runs>> /\ threw' \in {s, Host}
            /\ cache' = cache \/ cache' = Put(s, Stub(s), cache)
<1> DEFINE Loads == \E f \in Inside : LoadFile(f, cache, "require")
           Stays == /\ UNCHANGED <<stack, scope, runs>> /\ threw' \in {s, Host}
                    /\ cache' = cache \/ cache' = Put(s, Stub(s), cache)
<1>1. Answers \/ Throws(s) \/ Settled(s, cache, Stub(s)) => Stays
  BY DEF Answers, Throws, Done, Settled
<1>2. WithinBase(Resolved(s)) /\ LoadFile(Resolved(s), cache, "require") => Loads
  BY DEF WithinBase
<1>3. RequireBuiltin(s) => Stays
  BY <1>1 DEF RequireBuiltin
<1>4. RequirePath(s) => Loads \/ Stays
  BY <1>1, <1>2 DEF RequirePath
<1>5. RequirePrivate(s) => Loads \/ Stays
  BY <1>1, <1>2 DEF RequirePrivate
<1>6. RequireBare(s) => Loads \/ Stays
  BY <1>1, <1>2 DEF RequireBare
<1> QED
  BY <1>3, <1>4, <1>5, <1>6 DEF Require

-----------------------------------------------------------------------------
(* The three shapes of a step *)

Vias == {"require", "child", "fork", "shell", "eval"}

Still == UNCHANGED <<stack, scope, argv, depth>>

Pushed(f, via) ==
    /\ stack' = Append(stack, Frame(f, via))
    /\ scope' = IF Kind[f] = "inline" THEN scope ELSE Scope[f]
    /\ IF via = "child" THEN argv' = f /\ depth' = depth + 1 /\ depth < MaxBridge
       ELSE UNCHANGED <<argv, depth>>
    /\ via = "require" => f \in Inside

Popped ==
    /\ stack # <<>>
    /\ stack' = SubSeq(stack, 1, Len(stack) - 1)
    /\ scope' = Top.scope
    /\ Restored /\ Depth

\* Every step has one of the three shapes.
LEMMA StepShapes ==
  ASSUME runs \in [Files -> Nat], stack \in Seq(Frames), [Next]_vars
  PROVE  Still \/ Popped \/ \E f \in Files, via \in Vias : Pushed(f, via)
<1> DEFINE Shaped == Still \/ Popped \/ \E f \in Files, via \in Vias : Pushed(f, via)
<1>0. Inside \subseteq Files
  BY FileAssumption
<1>1. ASSUME NEW s \in Specs, Require(s)
      PROVE  Shaped
  <2>1. UNCHANGED <<argv, depth>>
    BY <1>1 DEF Require, Ambient
  <2>2. CASE UNCHANGED <<stack, scope, runs>>
    BY <2>1, <2>2 DEF Still
  <2>3. ASSUME NEW f \in Inside, LoadFile(f, cache, "require")
        PROVE  Shaped
    <3>1. Starts(f, cache, "require") \/ Rests(f, cache)
      BY <1>0, <2>3, LoadOutcomes
    <3>2. CASE Starts(f, cache, "require")
      <4>1. Pushed(f, "require")
        BY <2>1, <3>2 DEF Pushed, Starts, Begin
      <4> QED
        BY <1>0, <4>1 DEF Vias
    <3>3. CASE Rests(f, cache)
      BY <2>1, <3>3 DEF Rests, Still
    <3> QED
      BY <3>1, <3>2, <3>3
  <2> QED
    BY <1>1, <2>2, <2>3, RequireOutcomes
<1>2. ASSUME NEW f \in Files, Child(f)
      PROVE  Shaped
  <2>1. Starts(f, Without(f), "child") \/ Rests(f, Without(f))
    BY <1>2, LoadOutcomes DEF Child
  <2>2. CASE Starts(f, Without(f), "child")
    <3>1. stack' = Append(stack, Frame(f, "child")) /\ scope' = Scope[f]
      BY <2>2 DEF Starts, Begin
    <3>2. Len(stack') > Len(stack)
      BY <3>1
    <3>3. Pushed(f, "child")
      BY <1>2, <2>2, <3>1, <3>2 DEF Pushed, Child, CanBridge, Starts
    <3> QED
      BY <3>3 DEF Vias
  <2>3. CASE Rests(f, Without(f))
    <3>1. ~(Len(stack') > Len(stack))
      BY <2>3 DEF Rests
    <3> QED
      BY <1>2, <2>3, <3>1 DEF Child, Rests, Still
  <2> QED
    BY <2>1, <2>2, <2>3
<1>3. ASSUME NEW f \in Files, InlineChild(f)
      PROVE  Shaped
  <2>1. Pushed(f, "child")
    BY <1>3 DEF Pushed, InlineChild, CanBridge
  <2> QED
    BY <2>1 DEF Vias
<1>4. ASSUME NEW f \in Files, InlineShell(f)
      PROVE  Shaped
  <2>1. Pushed(f, "eval")
    BY <1>4 DEF Pushed, InlineShell
  <2> QED
    BY <2>1 DEF Vias
<1>5. ASSUME NEW f \in Files, Fork(f)
      PROVE  Shaped
  <2>1. UNCHANGED <<argv, depth>>
    BY <1>5 DEF Fork, Ambient
  <2>2. Starts(f, cache, "fork") \/ Rests(f, cache)
    BY <1>5, LoadOutcomes DEF Fork
  <2>3. CASE Starts(f, cache, "fork")
    <3>1. Pushed(f, "fork")
      BY <2>1, <2>3 DEF Pushed, Starts, Begin
    <3> QED
      BY <3>1 DEF Vias
  <2>4. CASE Rests(f, cache)
    BY <2>1, <2>4 DEF Rests, Still
  <2> QED
    BY <2>2, <2>3, <2>4
<1>6. ASSUME NEW f \in Files, ShellFile(f)
      PROVE  Shaped
  <2>1. Pushed(f, "shell")
    BY <1>6 DEF Pushed, ShellFile
  <2> QED
    BY <2>1 DEF Vias
<1>7. ASSUME NEW f \in Files, Drop(f)
      PROVE  Shaped
  BY <1>7 DEF Drop, Still
<1>8. CASE EndModule
  <2>1. stack # <<>>
    BY <1>8 DEF EndModule, InModule, Via
  <2> QED
    BY <1>8, <2>1 DEF EndModule, Unscoped, Popped
<1>9. CASE EndShell
  <2>1. stack # <<>> /\ Top.via = "shell"
    BY <1>9 DEF EndShell, Via
  <2>2. Restored /\ Depth
    BY <1>9, <2>1 DEF EndShell, Restored, Depth
  <2> QED
    BY <1>9, <2>1, <2>2 DEF EndShell, Popped
<1>10. CASE Abort \/ UNCHANGED vars
  BY <1>10 DEF Abort, vars, Still
<1> QED
  BY <1>1, <1>2, <1>3, <1>4, <1>5, <1>6, <1>7, <1>8, <1>9, <1>10 DEF Next

-----------------------------------------------------------------------------
(* Type correctness: the depth is the number of child processes in progress *)

ChildrenOf(s) == {i \in 1 .. Len(s) : s[i].via = "child"}
DepthCounts == depth = Cardinality(ChildrenOf(stack))

\* One more body, which may be a child process.
LEMMA PushCounts ==
  ASSUME NEW s \in Seq(Frames), NEW e \in Frames
  PROVE  /\ IsFiniteSet(ChildrenOf(s)) /\ Cardinality(ChildrenOf(s)) \in Nat
         /\ Cardinality(ChildrenOf(Append(s, e))) =
              IF e.via = "child" THEN Cardinality(ChildrenOf(s)) + 1
              ELSE Cardinality(ChildrenOf(s))
<1>1. IsFiniteSet(ChildrenOf(s)) /\ Cardinality(ChildrenOf(s)) \in Nat
  <2>1. ChildrenOf(s) \subseteq 1 .. Len(s) /\ Len(s) \in Nat
    BY DEF ChildrenOf
  <2>2. IsFiniteSet(1 .. Len(s))
    BY <2>1, FS_Interval
  <2> QED
    BY <2>1, <2>2, FS_Subset, FS_CardinalityType
<1>2. /\ Len(s) \in Nat /\ Len(Append(s, e)) = Len(s) + 1
      /\ Append(s, e)[Len(s) + 1] = e
      /\ \A i \in 1 .. Len(s) : Append(s, e)[i] = s[i]
  OBVIOUS
<1>3. CASE e.via = "child"
  <2>1. ChildrenOf(Append(s, e)) = ChildrenOf(s) \cup {Len(s) + 1}
    BY <1>2, <1>3 DEF ChildrenOf
  <2>2. Len(s) + 1 \notin ChildrenOf(s)
    BY <1>2 DEF ChildrenOf
  <2>3. Cardinality(ChildrenOf(s) \cup {Len(s) + 1}) = Cardinality(ChildrenOf(s)) + 1
    BY <1>1, <2>2, FS_AddElement
  <2> QED
    BY <1>1, <1>3, <2>1, <2>3
<1>4. CASE e.via # "child"
  <2>1. ChildrenOf(Append(s, e)) = ChildrenOf(s)
    BY <1>2, <1>4 DEF ChildrenOf
  <2> QED
    BY <1>1, <1>4, <2>1
<1> QED
  BY <1>3, <1>4

\* A stack is its top on what popping leaves.
LEMMA PopIsInverse ==
  ASSUME NEW s \in Seq(Frames), s # <<>>
  PROVE  /\ Len(s) \in Nat \ {0} /\ s[Len(s)] \in Frames
         /\ SubSeq(s, 1, Len(s) - 1) \in Seq(Frames)
         /\ Len(SubSeq(s, 1, Len(s) - 1)) = Len(s) - 1
         /\ \A i \in 1 .. Len(s) - 1 : SubSeq(s, 1, Len(s) - 1)[i] = s[i]
         /\ s = Append(SubSeq(s, 1, Len(s) - 1), s[Len(s)])
<1>1. Len(s) \in Nat \ {0} /\ Len(s) - 1 \in Nat
  OBVIOUS
<1>2. \A i \in 1 .. Len(s) : s[i] \in Frames
  OBVIOUS
<1>3. PICK k \in Nat : k = Len(s) - 1
  BY <1>1
<1>4. /\ SubSeq(s, 1, k) \in Seq(Frames) /\ Len(SubSeq(s, 1, k)) = k
      /\ \A i \in 1 .. k : SubSeq(s, 1, k)[i] = s[i]
  BY <1>1, <1>2, <1>3
<1>5. s = Append(SubSeq(s, 1, k), s[Len(s)])
  BY <1>1, <1>2, <1>3, <1>4
<1> QED
  BY <1>1, <1>2, <1>3, <1>4, <1>5

\* What frames are made of.
LEMMA FrameFacts ==
  ASSUME TypeOK, NEW f \in Files, NEW via \in Vias
  PROVE  Frame(f, via) \in Frames
  BY DEF TypeOK, Frame, Frames, Vias

\* The part of the type invariant that concerns the stack and what hangs on it.
LEMMA StackStaysTyped ==
  ASSUME TypeOK, DepthCounts, [Next]_vars
  PROVE  /\ stack' \in Seq(Frames) /\ depth' \in 0 .. MaxBridge /\ DepthCounts'
         /\ scope' \in {Scope[f] : f \in Files} \cup {Host} /\ argv' \in Files \cup {Host}
<1> DEFINE Owners == {Scope[f] : f \in Files} \cup {Host}
<1>0. /\ stack \in Seq(Frames) /\ depth \in 0 .. MaxBridge /\ scope \in Owners
      /\ argv \in Files \cup {Host} /\ runs \in [Files -> Nat] /\ MaxBridge \in Nat
      /\ depth = Cardinality(ChildrenOf(stack))
  BY NameAssumption DEF TypeOK, DepthCounts
<1>1. CASE Still
  BY <1>0, <1>1 DEF Still, DepthCounts
<1>2. ASSUME NEW f \in Files, NEW via \in Vias, Pushed(f, via)
      PROVE  /\ stack' \in Seq(Frames) /\ depth' \in 0 .. MaxBridge /\ DepthCounts'
             /\ scope' \in Owners /\ argv' \in Files \cup {Host}
  <2>1. PICK e \in Frames : e = Frame(f, via)
    BY FrameFacts
  <2>2. e.via = via
    BY <2>1 DEF Frame
  <2>3. stack' = Append(stack, e)
    BY <1>2, <2>1 DEF Pushed
  <2>4. /\ Cardinality(ChildrenOf(stack)) \in Nat
        /\ Cardinality(ChildrenOf(stack')) = IF via = "child" THEN Cardinality(ChildrenOf(stack)) + 1
                                             ELSE Cardinality(ChildrenOf(stack))
    BY <1>0, <2>2, <2>3, PushCounts
  <2>5. stack' \in Seq(Frames)
    BY <1>0, <2>3
  <2>6. /\ scope' \in Owners /\ argv' \in Files \cup {Host}
    BY <1>0, <1>2 DEF Pushed
  <2>7. depth' \in 0 .. MaxBridge /\ depth' = Cardinality(ChildrenOf(stack'))
    <3>1. CASE via = "child"
      <4>1. depth' = depth + 1 /\ depth < MaxBridge
        BY <1>2, <3>1 DEF Pushed
      <4> QED
        BY <1>0, <2>4, <3>1, <4>1
    <3>2. CASE via # "child"
      BY <1>0, <1>2, <2>4, <3>2 DEF Pushed
    <3> QED
      BY <3>1, <3>2
  <2> QED
    BY <2>5, <2>6, <2>7 DEF DepthCounts
<1>3. CASE Popped
  <2>1. stack # <<>> /\ stack' = SubSeq(stack, 1, Len(stack) - 1)
    BY <1>3 DEF Popped
  <2>2. /\ Top \in Frames /\ stack' \in Seq(Frames) /\ stack = Append(stack', Top)
    BY <1>0, <2>1, PopIsInverse DEF Top
  <2>3. PICK s \in Seq(Frames) : s = stack'
    BY <2>2
  <2>4. /\ Cardinality(ChildrenOf(s)) \in Nat
        /\ Cardinality(ChildrenOf(stack)) = IF Top.via = "child" THEN Cardinality(ChildrenOf(s)) + 1
                                            ELSE Cardinality(ChildrenOf(s))
    BY <2>2, <2>3, PushCounts
  <2>5. scope' \in Owners /\ argv' \in Files \cup {Host}
    BY <1>0, <1>3, <2>2 DEF Popped, Restored, Frames
  <2>6. depth' = Cardinality(ChildrenOf(s)) /\ depth' \in 0 .. MaxBridge
    BY <1>0, <1>3, <2>4 DEF Popped, Depth
  <2> QED
    BY <2>2, <2>3, <2>5, <2>6 DEF DepthCounts
<1> QED
  BY <1>0, <1>1, <1>2, <1>3, StepShapes

-----------------------------------------------------------------------------
(* The cache and the counters *)

Rest == /\ CacheOK(cache) /\ dropped \subseteq Files \ Tree /\ aborted \in BOOLEAN
        /\ threw \in Specs \cup {Host} /\ runs \in [Files -> Nat]
        /\ children \in [Files -> Nat] /\ ops \in 0 .. MaxOps

\* A load leaves the cache well-formed and the count of runs a number.
LEMMA LoadKeepsTypes ==
  ASSUME NEW f \in Files, NEW kept, NEW via, CacheOK(kept), runs \in [Files -> Nat],
         LoadFile(f, kept, via)
  PROVE  CacheOK(cache') /\ threw' = Host /\ runs' \in [Files -> Nat]
<1>1. CASE Starts(f, kept, via)
  <2>1. PICK v \in Values : v = Value(f, runs[f] + 1, "placeholder")
    BY ValueFacts
  <2>2. cache' = Put(f, v, kept) /\ threw' = Host /\ runs' = [runs EXCEPT ![f] = @ + 1]
    BY <1>1, <2>1 DEF Starts, Begin
  <2>3. CacheOK(cache')
    BY <2>2, AddingToCache
  <2> QED
    BY <2>2, <2>3
<1>2. CASE Rests(f, kept)
  BY <1>2, AddingToCache DEF Rests
<1> QED
  BY <1>1, <1>2, LoadOutcomes

\* The rest of the type invariant.
LEMMA RestStaysTyped ==
  ASSUME TypeOK, [Next]_vars
  PROVE  Rest'
<1>0. Rest /\ MaxOps \in Nat /\ Inside \subseteq Files
  BY FileAssumption, NameAssumption DEF TypeOK, Rest, CacheOK
<1>a. Op => ops' \in 0 .. MaxOps
  BY <1>0 DEF Op, Rest
<1>1. ASSUME NEW s \in Specs, Require(s)
      PROVE  Rest'
  <2>1. Op /\ Ambient
    BY <1>1 DEF Require
  <2>2. CacheOK(cache') /\ threw' \in Specs \cup {Host} /\ runs' \in [Files -> Nat]
    <3>1. ASSUME NEW f \in Inside, LoadFile(f, cache, "require")
          PROVE  CacheOK(cache') /\ threw' = Host /\ runs' \in [Files -> Nat]
      BY <1>0, <3>1, LoadKeepsTypes DEF Rest
    <3>2. CASE UNCHANGED runs /\ threw' \in {s, Host} /\ cache' = cache
      BY <1>0, <3>2 DEF Rest
    <3>3. CASE UNCHANGED runs /\ threw' \in {s, Host} /\ cache' = Put(s, Stub(s), cache)
      <4>1. Stub(s) \in Values
        BY ValueFacts
      <4>2. CacheOK(Put(s, Stub(s), cache))
        BY <1>0, <4>1, AddingToCache DEF Rest
      <4> QED
        BY <1>0, <3>3, <4>2 DEF Rest
    <3> QED
      BY <1>1, <3>1, <3>2, <3>3, RequireOutcomes
  <2> QED
    BY <1>0, <1>a, <2>1, <2>2 DEF Rest, Ambient, CacheOK
<1>2. ASSUME NEW f \in Files, Child(f)
      PROVE  Rest'
  <2>1. CacheOK(Without(f))
    BY <1>0, WithoutFacts DEF Rest
  <2>2. CacheOK(cache') /\ threw' = Host /\ runs' \in [Files -> Nat]
    BY <1>0, <1>2, <2>1, LoadKeepsTypes DEF Child, Rest
  <2>3. children' \in [Files -> Nat]
    BY <1>0, <1>2 DEF Child, Rest
  <2> QED
    BY <1>0, <1>2, <1>a, <2>2, <2>3 DEF Child, Rest, CacheOK
<1>3. ASSUME NEW f \in Files, InlineChild(f)
      PROVE  Rest'
  BY <1>0, <1>a, <1>3 DEF InlineChild, Rest, CacheOK
<1>4. ASSUME NEW f \in Files, InlineShell(f)
      PROVE  Rest'
  BY <1>0, <1>a, <1>4 DEF InlineShell, Rest, CacheOK
<1>5. ASSUME NEW f \in Files, Fork(f)
      PROVE  Rest'
  <2>1. CacheOK(cache') /\ threw' = Host /\ runs' \in [Files -> Nat]
    BY <1>0, <1>5, LoadKeepsTypes DEF Fork, Rest
  <2> QED
    BY <1>0, <1>5, <1>a, <2>1 DEF Fork, Ambient, Rest, CacheOK
<1>6. ASSUME NEW f \in Files, ShellFile(f)
      PROVE  Rest'
  BY <1>0, <1>a, <1>6 DEF ShellFile, Rest, CacheOK
<1>7. ASSUME NEW f \in Files, Drop(f)
      PROVE  Rest'
  BY <1>0, <1>a, <1>7 DEF Drop, Present, Rest, CacheOK
<1>8. CASE EndModule
  <2>1. stack # <<>> /\ stack \in Seq(Frames)
    BY <1>8 DEF EndModule, InModule, Via, TypeOK
  <2>2. Top \in Frames
    BY <2>1, PopIsInverse DEF Top
  <2>3. PICK v \in Values : v = Value(Top.file, Top.run, "exports")
    BY <2>2, ValueFacts DEF Frames
  <2>4. cache' = cache \/ cache' = Put(Top.file, v, cache)
    BY <1>8, <2>3 DEF EndModule, Keep
  <2>5. CacheOK(cache')
    BY <1>0, <2>2, <2>4, AddingToCache DEF Rest, Frames
  <2> QED
    BY <1>0, <1>8, <2>5 DEF EndModule, Rest, CacheOK
<1>9. CASE EndShell
  BY <1>0, <1>9 DEF EndShell, Rest, CacheOK
<1>10. CASE Abort
  BY <1>0, <1>10 DEF Abort, Rest, CacheOK
<1>11. CASE UNCHANGED vars
  BY <1>0, <1>11 DEF vars, Rest, CacheOK
<1> QED
  BY <1>1, <1>2, <1>3, <1>4, <1>5, <1>6, <1>7, <1>8, <1>9, <1>10, <1>11 DEF Next

\* Types and the depth, as one inductive invariant.
LEMMA TypesAreInductive ==
  /\ Init => TypeOK /\ DepthCounts
  /\ TypeOK /\ DepthCounts /\ [Next]_vars => TypeOK' /\ DepthCounts'
<1>1. ASSUME Init
      PROVE  TypeOK /\ DepthCounts
  <2>1. ChildrenOf(stack) = {} /\ stack \in Seq(Frames)
    BY <1>1 DEF Init, ChildrenOf
  <2>2. Cardinality(ChildrenOf(stack)) = 0
    BY <2>1, FS_EmptySet
  <2>3. MaxBridge \in Nat /\ MaxOps \in Nat
    BY NameAssumption
  <2>4. DOMAIN cache = {}
    BY <1>1 DEF Init
  <2>5. runs \in [Files -> Nat] /\ children \in [Files -> Nat] /\ ops \in 0 .. MaxOps
    BY <1>1, <2>3 DEF Init
  <2>6. depth \in 0 .. MaxBridge /\ depth = 0
    BY <1>1, <2>3 DEF Init
  <2>7. /\ scope \in {Scope[f] : f \in Files} \cup {Host} /\ argv \in Files \cup {Host}
        /\ dropped \subseteq Files \ Tree /\ aborted \in BOOLEAN /\ threw \in Specs \cup {Host}
    BY <1>1 DEF Init
  <2> QED
    BY <2>1, <2>2, <2>4, <2>5, <2>6, <2>7 DEF TypeOK, DepthCounts
<1>2. ASSUME TypeOK, DepthCounts, [Next]_vars
      PROVE  TypeOK' /\ DepthCounts'
  BY <1>2, StackStaysTyped, RestStaysTyped DEF TypeOK, Rest, CacheOK
<1> QED
  BY <1>1, <1>2

\* TypeOK: the cache, the stack and the counters keep their shapes, and the
\* depth of child processes, which counts those in progress, its limit
\* (bridgeNodeChild, builtins.go:733).
THEOREM TypeCorrect == Spec => [](TypeOK /\ DepthCounts)
<1>1. TypeOK /\ DepthCounts /\ [Next]_vars => (TypeOK /\ DepthCounts)'
  BY TypesAreInductive
<1> QED
  BY <1>1, TypesAreInductive, PTL DEF Spec

-----------------------------------------------------------------------------
(* What a step does to the cache, the stack and the counts of runs *)

KeptFor(f, via) == IF via = "child" THEN Without(f) ELSE cache
Counted(f, via) == children' = IF via = "child" THEN [children EXCEPT ![f] = @ + 1] ELSE children
LoadVias == {"require", "fork", "child"}

\* A file is loaded and its body starts, or it is loaded and nothing starts.
LoadStarts(f, via) == Starts(f, KeptFor(f, via), via) /\ Counted(f, via)
LoadRests(f, via) ==
    Rests(f, KeptFor(f, via)) /\ Counted(f, via) /\ (via = "child" => ~aborted)

\* Code that is not in a module starts.
OtherStarts(f, via) ==
    /\ ~aborted /\ stack' = Append(stack, Frame(f, via))
    /\ runs' = [runs EXCEPT ![f] = @ + 1] /\ UNCHANGED <<cache, children>>
    /\ \/ Kind[f] = "inline" /\ via = "child"
       \/ Kind[f] = "inline" /\ via = "eval" /\ InShell
       \/ Kind[f] = "shell" /\ via = "shell" /\ InShell

\* A body ends.
Ends ==
    /\ stack # <<>> /\ stack' = SubSeq(stack, 1, Len(stack) - 1)
    /\ UNCHANGED <<runs, children>>
    /\ IF Top.via = "shell" \/ Kind[Top.file] = "inline" THEN UNCHANGED cache
       ELSE Keep(Value(Top.file, Top.run, "exports"))

Stubs(s) == cache' = Put(s, Stub(s), cache) /\ UNCHANGED <<stack, runs, children>>
Nothing == UNCHANGED <<cache, stack, runs, children>>

Effect ==
    \/ \E f \in Files, via \in LoadVias : LoadStarts(f, via) \/ LoadRests(f, via)
    \/ \E f \in Files, via \in Vias : OtherStarts(f, via)
    \/ Ends \/ (\E s \in Specs : Stubs(s)) \/ Nothing

\* Every step is one of these, and neither the files that are there nor the
\* abort are taken back.
LEMMA StepEffects ==
  ASSUME runs \in [Files -> Nat], [Next]_vars
  PROVE  Effect /\ dropped \subseteq dropped' /\ (aborted => aborted')
<1> DEFINE Onward == dropped \subseteq dropped' /\ (aborted => aborted')
<1>0. Inside \subseteq Files
  BY FileAssumption
<1>1. ASSUME NEW s \in Specs, Require(s)
      PROVE  Effect /\ Onward
  <2>1. UNCHANGED <<children, dropped, aborted>>
    BY <1>1 DEF Require, Ambient
  <2>2. ASSUME NEW f \in Inside, LoadFile(f, cache, "require")
        PROVE  Effect
    <3>1. f \in Files /\ (Starts(f, cache, "require") \/ Rests(f, cache))
      BY <1>0, <2>2, LoadOutcomes
    <3>2. LoadStarts(f, "require") \/ LoadRests(f, "require")
      BY <2>1, <3>1 DEF LoadStarts, LoadRests, KeptFor, Counted
    <3> QED
      BY <3>1, <3>2 DEF Effect, LoadVias
  <2>3. CASE UNCHANGED <<stack, scope, runs>> /\ cache' = cache
    BY <2>1, <2>3 DEF Effect, Nothing
  <2>4. CASE UNCHANGED <<stack, scope, runs>> /\ cache' = Put(s, Stub(s), cache)
    BY <2>1, <2>4 DEF Effect, Stubs
  <2> QED
    BY <1>1, <2>1, <2>2, <2>3, <2>4, RequireOutcomes
<1>2. ASSUME NEW f \in Files, Child(f)
      PROVE  Effect /\ Onward
  <2>1. /\ ~aborted /\ UNCHANGED <<dropped, aborted>> /\ children' = [children EXCEPT ![f] = @ + 1]
        /\ LoadFile(f, Without(f), "child")
    BY <1>2 DEF Child, CanBridge
  <2>2. Starts(f, Without(f), "child") \/ Rests(f, Without(f))
    BY <2>1, LoadOutcomes
  <2>3. LoadStarts(f, "child") \/ LoadRests(f, "child")
    BY <2>1, <2>2 DEF LoadStarts, LoadRests, KeptFor, Counted
  <2> QED
    BY <2>1, <2>3 DEF Effect, LoadVias
<1>3. ASSUME NEW f \in Files, InlineChild(f)
      PROVE  Effect /\ Onward
  <2>1. OtherStarts(f, "child") /\ Onward
    BY <1>3 DEF InlineChild, CanBridge, OtherStarts
  <2> QED
    BY <2>1 DEF Effect, Vias
<1>4. ASSUME NEW f \in Files, InlineShell(f)
      PROVE  Effect /\ Onward
  <2>1. OtherStarts(f, "eval") /\ Onward
    BY <1>4 DEF InlineShell, OtherStarts
  <2> QED
    BY <2>1 DEF Effect, Vias
<1>5. ASSUME NEW f \in Files, Fork(f)
      PROVE  Effect /\ Onward
  <2>1. UNCHANGED <<children, dropped, aborted>> /\ LoadFile(f, cache, "fork")
    BY <1>5 DEF Fork, Ambient
  <2>2. Starts(f, cache, "fork") \/ Rests(f, cache)
    BY <2>1, LoadOutcomes
  <2>3. LoadStarts(f, "fork") \/ LoadRests(f, "fork")
    BY <2>1, <2>2 DEF LoadStarts, LoadRests, KeptFor, Counted
  <2> QED
    BY <2>1, <2>3 DEF Effect, LoadVias
<1>6. ASSUME NEW f \in Files, ShellFile(f)
      PROVE  Effect /\ Onward
  <2>1. OtherStarts(f, "shell") /\ Onward
    BY <1>6 DEF ShellFile, OtherStarts
  <2> QED
    BY <2>1 DEF Effect, Vias
<1>7. ASSUME NEW f \in Files, Drop(f)
      PROVE  Effect /\ Onward
  BY <1>7 DEF Drop, Effect, Nothing
<1>8. CASE EndModule
  <2>1. stack # <<>> /\ Top.via # "shell"
    BY <1>8 DEF EndModule, InModule, Via
  <2>2. Ends /\ Onward
    BY <1>8, <2>1 DEF EndModule, Ends
  <2> QED
    BY <2>2 DEF Effect
<1>9. CASE EndShell
  <2>1. stack # <<>> /\ Top.via = "shell"
    BY <1>9 DEF EndShell, Via
  <2>2. Ends /\ Onward
    BY <1>9, <2>1 DEF EndShell, Ends
  <2> QED
    BY <2>2 DEF Effect
<1>10. CASE Abort \/ UNCHANGED vars
  BY <1>10 DEF Abort, vars, Effect, Nothing
<1> QED
  BY <1>1, <1>2, <1>3, <1>4, <1>5, <1>6, <1>7, <1>8, <1>9, <1>10 DEF Next

-----------------------------------------------------------------------------
(* The two action properties *)

\* NothingStartsAfterAbort: no body starts once the budget is spent, whatever
\* code asks for (runProgram and safeCall, runtime.go:431).
THEOREM AbortIsFinal == Spec => NothingStartsAfterAbort
<1>1. TypeOK /\ [Next]_vars => (aborted => runs' = runs)
  <2>1. SUFFICES ASSUME TypeOK, [Next]_vars, aborted
                 PROVE  runs' = runs
    OBVIOUS
  <2>2. Effect
    BY <2>1, StepEffects DEF TypeOK
  <2> QED
    BY <2>1, <2>2 DEF Effect, LoadStarts, Starts, LoadRests, Rests, OtherStarts, Ends, Stubs, Nothing
<1> QED
  BY <1>1, TypeCorrect, PTL DEF Spec, NothingStartsAfterAbort

\* ChildStartsScript: a child process of a script that is there runs it,
\* loaded already or not (the delete, builtins.go:796).
THEOREM ChildrenRunFresh == Spec => ChildStartsScript
<1> DEFINE Fresh == \A f \in Files :
             children'[f] > children[f] /\ Kind[f] = "script" /\ f \in Present
                => runs'[f] = runs[f] + 1
<1>1. TypeOK /\ [Next]_vars => Fresh
  <2>1. SUFFICES ASSUME TypeOK, [Next]_vars, NEW f \in Files,
                        children'[f] > children[f], Kind[f] = "script", f \in Present
                 PROVE  runs'[f] = runs[f] + 1
    OBVIOUS
  <2>2. Effect /\ runs \in [Files -> Nat] /\ children \in [Files -> Nat]
    BY <2>1, StepEffects DEF TypeOK
  <2>3. children'[f] # children[f]
    BY <2>1, <2>2
  <2>4. ASSUME NEW g \in Files, NEW via \in LoadVias, Counted(g, via)
        PROVE  g = f /\ via = "child"
    BY <2>2, <2>3, <2>4 DEF Counted
  <2>5. ASSUME NEW g \in Files, NEW via \in LoadVias, LoadStarts(g, via)
        PROVE  runs'[f] = runs[f] + 1
    BY <2>2, <2>4, <2>5 DEF LoadStarts, Starts, Begin
  <2>6. ASSUME NEW g \in Files, NEW via \in LoadVias, LoadRests(g, via)
        PROVE  FALSE
    <3>1. g = f /\ via = "child" /\ ~aborted /\ Rests(f, Without(f))
      BY <2>4, <2>6 DEF LoadRests, KeptFor
    <3>2. f \notin DOMAIN Without(f)
      BY DEF Without
    <3> QED
      BY <2>1, <3>1, <3>2 DEF Rests
  <2> QED
    BY <2>2, <2>3, <2>5, <2>6 DEF Effect, OtherStarts, Ends, Stubs, Nothing
<1> QED
  BY <1>1, TypeCorrect, PTL DEF Spec, ChildStartsScript

-----------------------------------------------------------------------------
(* A module runs once *)

\* A script that is not in the cache has run no more often than it was a child.
Uncached == \A f \in Files : Kind[f] = "script" /\ f \notin DOMAIN cache => runs[f] <= children[f]

\* RunsOnce: a module runs once and once more for every child process started
\* on it (the cache of loadFile, require.go:756).
THEOREM ModulesRunOnce == Spec => []RunsOnce
<1>1. Init => RunsOnce /\ Uncached
  BY DEF Init, RunsOnce, Uncached
<1>2. TypeOK /\ RunsOnce /\ Uncached /\ [Next]_vars => (RunsOnce /\ Uncached)'
  <2>1. SUFFICES ASSUME TypeOK, RunsOnce, Uncached, [Next]_vars, NEW f \in Files, Kind[f] = "script"
                 PROVE  runs'[f] <= 1 + children'[f] /\ (f \notin DOMAIN cache' => runs'[f] <= children'[f])
    BY DEF RunsOnce, Uncached
  <2>2. /\ Effect /\ runs \in [Files -> Nat] /\ children \in [Files -> Nat]
        /\ runs[f] \in Nat /\ children[f] \in Nat
    BY <2>1, StepEffects DEF TypeOK
  <2>3. runs[f] <= 1 + children[f] /\ (f \notin DOMAIN cache => runs[f] <= children[f])
    BY <2>1 DEF RunsOnce, Uncached
  <2>4. ASSUME NEW g \in Files, NEW via \in LoadVias, LoadStarts(g, via) \/ LoadRests(g, via)
        PROVE  runs'[f] <= 1 + children'[f] /\ (f \notin DOMAIN cache' => runs'[f] <= children'[f])
    <3>1. /\ children'[f] = IF via = "child" /\ g = f THEN children[f] + 1 ELSE children[f]
          /\ DOMAIN KeptFor(g, via) = IF via = "child" THEN DOMAIN cache \ {g} ELSE DOMAIN cache
      BY <2>2, <2>4 DEF LoadStarts, LoadRests, Counted, KeptFor, Without
    <3>2. CASE LoadStarts(g, via)
      <4>1. /\ g \notin DOMAIN KeptFor(g, via) /\ DOMAIN cache' = {g} \cup DOMAIN KeptFor(g, via)
            /\ runs'[f] = IF g = f THEN runs[f] + 1 ELSE runs[f]
        BY <2>2, <3>2, Adding DEF LoadStarts, Starts, Begin
      <4> QED
        BY <2>2, <2>3, <3>1, <4>1
    <3>3. CASE LoadRests(g, via)
      <4>1. /\ DOMAIN KeptFor(g, via) \subseteq DOMAIN cache' /\ runs'[f] = runs[f]
        <5>1. CASE cache' = KeptFor(g, via)
          BY <3>3, <5>1 DEF LoadRests, Rests
        <5>2. ASSUME NEW v \in Values, cache' = Put(g, v, KeptFor(g, via))
              PROVE  DOMAIN KeptFor(g, via) \subseteq DOMAIN cache'
          <6>1. DOMAIN Put(g, v, KeptFor(g, via)) = {g} \cup DOMAIN KeptFor(g, via)
            BY Adding
          <6> QED
            BY <5>2, <6>1
        <5> QED
          BY <3>3, <5>1, <5>2 DEF LoadRests, Rests
      <4> QED
        BY <2>2, <2>3, <3>1, <4>1
    <3> QED
      BY <2>4, <3>2, <3>3
  <2>5. ASSUME NEW g \in Files, NEW via \in Vias, OtherStarts(g, via)
        PROVE  runs'[f] = runs[f] /\ UNCHANGED <<cache, children>>
    BY <2>1, <2>2, <2>5 DEF OtherStarts
  <2>6. CASE Ends \/ (\E s \in Specs : Stubs(s)) \/ Nothing
    <3>1. ASSUME NEW x, NEW v, cache' = Put(x, v, cache)
          PROVE  DOMAIN cache \subseteq DOMAIN cache'
      <4>1. DOMAIN Put(x, v, cache) = {x} \cup DOMAIN cache
        BY Adding
      <4> QED
        BY <3>1, <4>1
    <3>2. DOMAIN cache \subseteq DOMAIN cache' /\ UNCHANGED <<runs, children>>
      BY <2>6, <3>1 DEF Ends, Keep, Stubs, Nothing
    <3> QED
      BY <2>3, <3>2
  <2> QED
    BY <2>2, <2>3, <2>4, <2>5, <2>6 DEF Effect
<1> QED
  BY <1>1, <1>2, TypeCorrect, PTL DEF Spec

-----------------------------------------------------------------------------
(* What hangs on the stack *)

\* What the three shapes do to the frames.
LEMMA FramesMove ==
  ASSUME TypeOK, [Next]_vars
  PROVE  \/ Still
         \/ \E f \in Files, via \in Vias :
               /\ Pushed(f, via) /\ Len(stack') = Len(stack) + 1
               /\ stack'[Len(stack) + 1] = Frame(f, via)
               /\ \A i \in 1 .. Len(stack) : stack'[i] = stack[i]
         \/ /\ Popped /\ Len(stack) \in Nat \ {0} /\ Len(stack') = Len(stack) - 1
            /\ \A i \in 1 .. Len(stack) - 1 : stack'[i] = stack[i]
<1>0. stack \in Seq(Frames) /\ runs \in [Files -> Nat]
  BY DEF TypeOK
<1>1. ASSUME NEW f \in Files, NEW via \in Vias, Pushed(f, via)
      PROVE  /\ Len(stack') = Len(stack) + 1
             /\ stack'[Len(stack) + 1] = Frame(f, via)
             /\ \A i \in 1 .. Len(stack) : stack'[i] = stack[i]
  <2>1. PICK e \in Frames : e = Frame(f, via)
    BY FrameFacts
  <2>2. stack' = Append(stack, e)
    BY <1>1, <2>1 DEF Pushed
  <2> QED
    BY <1>0, <2>1, <2>2
<1>2. CASE Popped
  <2>1. stack # <<>> /\ stack' = SubSeq(stack, 1, Len(stack) - 1)
    BY <1>2 DEF Popped
  <2> QED
    BY <1>0, <1>2, <2>1, PopIsInverse
<1> QED
  BY <1>0, <1>1, <1>2, StepShapes

\* EscapeBlocked: no require runs a file from outside the package, whatever
\* was dropped there (withinBase, require.go:523).
THEOREM EscapesAreBlocked == Spec => []EscapeBlocked
<1>1. Init => EscapeBlocked
  BY DEF Init, EscapeBlocked
<1>2. TypeOK /\ EscapeBlocked /\ [Next]_vars => EscapeBlocked'
  <2>1. SUFFICES ASSUME TypeOK, EscapeBlocked, [Next]_vars, NEW i \in 1 .. Len(stack'), stack'[i].via = "require"
                 PROVE  stack'[i].file \in Inside
    BY DEF EscapeBlocked
  <2>0. Len(stack) \in Nat
    BY <2>1 DEF TypeOK
  <2>2. CASE Still
    BY <2>1, <2>2 DEF Still, EscapeBlocked
  <2>3. ASSUME NEW f \in Files, NEW via \in Vias, Pushed(f, via), Len(stack') = Len(stack) + 1,
               stack'[Len(stack) + 1] = Frame(f, via),
               \A k \in 1 .. Len(stack) : stack'[k] = stack[k]
        PROVE  stack'[i].file \in Inside
    <3>1. CASE i \in 1 .. Len(stack)
      BY <2>1, <2>3, <3>1 DEF EscapeBlocked
    <3>2. CASE i = Len(stack) + 1
      BY <2>1, <2>3, <3>2 DEF Pushed, Frame
    <3> QED
      BY <2>0, <2>1, <2>3, <3>1, <3>2
  <2>4. CASE /\ Len(stack) \in Nat \ {0} /\ Len(stack') = Len(stack) - 1
             /\ \A k \in 1 .. Len(stack) - 1 : stack'[k] = stack[k]
    BY <2>1, <2>4 DEF EscapeBlocked
  <2> QED
    BY <2>1, <2>2, <2>3, <2>4, FramesMove
<1> QED
  BY <1>1, <1>2, TypeCorrect, PTL DEF Spec

-----------------------------------------------------------------------------
(* The innermost of some bodies.  That a set of them has a last one is kept  *)
(* as an invariant: the stack grows and shrinks by one.                      *)

Last(S) == CHOOSE i \in S : \A j \in S : j <= i
HasLast(S) == S = {} \/ \E i \in S : \A j \in S : j <= i
SubsetsHaveLast == \A S \in SUBSET (1 .. Len(stack)) : HasLast(S)

LEMMA LastFacts ==
  ASSUME NEW n \in Nat, NEW S \in SUBSET (1 .. n)
  PROVE  /\ HasLast(S) /\ S # {} => Last(S) \in S
         /\ Last(S \cup {n + 1}) = n + 1
<1>1. HasLast(S) /\ S # {} => Last(S) \in S
  BY DEF HasLast, Last
<1>2. /\ n + 1 \in S \cup {n + 1} /\ \A j \in S \cup {n + 1} : j <= n + 1
      /\ \A i \in S \cup {n + 1} : (\A j \in S \cup {n + 1} : j <= i) => i = n + 1
  OBVIOUS
<1>3. PICK T : T = S \cup {n + 1}
  OBVIOUS
<1>4. Last(T) = n + 1
  <2>1. n + 1 \in T /\ (\A j \in T : j <= n + 1)
    BY <1>2, <1>3
  <2>2. Last(T) \in T /\ \A j \in T : j <= Last(T)
    BY <2>1 DEF Last
  <2> QED
    BY <1>2, <1>3, <2>2
<1> QED
  BY <1>1, <1>3, <1>4

LEMMA LastsRemain ==
  /\ Init => SubsetsHaveLast
  /\ TypeOK /\ SubsetsHaveLast /\ [Next]_vars => SubsetsHaveLast'
<1>1. ASSUME Init PROVE SubsetsHaveLast
  <2>1. 1 .. Len(stack) = {}
    BY <1>1 DEF Init
  <2> QED
    BY <2>1 DEF SubsetsHaveLast, HasLast
<1>2. ASSUME TypeOK, SubsetsHaveLast, [Next]_vars, NEW S \in SUBSET (1 .. Len(stack'))
      PROVE  HasLast(S)
  <2>0. Len(stack) \in Nat
    BY <1>2 DEF TypeOK
  <2>1. CASE S \subseteq 1 .. Len(stack)
    BY <1>2, <2>1 DEF SubsetsHaveLast
  <2>2. CASE Len(stack') = Len(stack) + 1 /\ Len(stack) + 1 \in S
    <3>1. \A j \in S : j <= Len(stack) + 1
      BY <1>2, <2>0, <2>2
    <3> QED
      BY <2>2, <3>1 DEF HasLast
  <2>3. CASE Len(stack') = Len(stack) + 1 /\ Len(stack) + 1 \notin S
    <3>1. S \subseteq 1 .. Len(stack)
      BY <1>2, <2>0, <2>3
    <3> QED
      BY <2>1, <3>1
  <2>4. CASE Len(stack') = Len(stack) \/ Len(stack') = Len(stack) - 1
    <3>1. S \subseteq 1 .. Len(stack)
      BY <1>2, <2>0, <2>4
    <3> QED
      BY <2>1, <3>1
  <2> QED
    BY <1>2, <2>2, <2>3, <2>4, FramesMove DEF Still
<1> QED
  BY <1>1, <1>2 DEF SubsetsHaveLast

-----------------------------------------------------------------------------
(* process.argv and the scope are those of the innermost body that sets them *)

ChildrenBelow(n) == {i \in 1 .. n : stack[i].via = "child"}
FiledBelow(n) == {i \in 1 .. n : Kind[stack[i].file] # "inline"}
ArgvBelow(n) == IF ChildrenBelow(n) = {} THEN Host ELSE stack[Last(ChildrenBelow(n))].file
ScopeBelow(n) == IF FiledBelow(n) = {} THEN Host ELSE Scope[stack[Last(FiledBelow(n))].file]

Saved == /\ \A i \in 1 .. Len(stack) : stack[i].argv = ArgvBelow(i - 1)
         /\ \A i \in 1 .. Len(stack) : stack[i].scope = ScopeBelow(i - 1)
         /\ argv = ArgvBelow(Len(stack)) /\ scope = ScopeBelow(Len(stack))

\* As long as the first n bodies stay, what they determine stays.
LEMMA BelowStays ==
  ASSUME TypeOK, SubsetsHaveLast, NEW n \in 0 .. Len(stack),
         \A i \in 1 .. n : stack'[i] = stack[i]
  PROVE  ArgvBelow(n)' = ArgvBelow(n) /\ ScopeBelow(n)' = ScopeBelow(n)
<1>0. Len(stack) \in Nat /\ n \in Nat
  BY DEF TypeOK
<1>1. ChildrenBelow(n)' = ChildrenBelow(n) /\ FiledBelow(n)' = FiledBelow(n)
  BY DEF ChildrenBelow, FiledBelow
<1>2. ChildrenBelow(n) \in SUBSET (1 .. n) /\ FiledBelow(n) \in SUBSET (1 .. n)
  BY DEF ChildrenBelow, FiledBelow
<1>3. HasLast(ChildrenBelow(n)) /\ HasLast(FiledBelow(n))
  BY <1>0, <1>2 DEF SubsetsHaveLast
<1>4. /\ ChildrenBelow(n) # {} => Last(ChildrenBelow(n)) \in 1 .. n
      /\ FiledBelow(n) # {} => Last(FiledBelow(n)) \in 1 .. n
  BY <1>0, <1>2, <1>3, LastFacts
<1>5. ArgvBelow(n)' = IF ChildrenBelow(n) = {} THEN Host ELSE stack'[Last(ChildrenBelow(n))].file
  BY <1>1 DEF ArgvBelow
<1>6. ScopeBelow(n)' = IF FiledBelow(n) = {} THEN Host ELSE Scope[stack'[Last(FiledBelow(n))].file]
  BY <1>1 DEF ScopeBelow
<1> QED
  BY <1>4, <1>5, <1>6 DEF ArgvBelow, ScopeBelow

\* A body put on top is the innermost.
LEMMA BelowTop ==
  ASSUME NEW m \in Nat, NEW n \in Nat, n = m + 1, NEW f \in Files, NEW via,
         stack'[n] = Frame(f, via),
         ArgvBelow(m)' = ArgvBelow(m), ScopeBelow(m)' = ScopeBelow(m)
  PROVE  /\ ArgvBelow(n)' = IF via = "child" THEN f ELSE ArgvBelow(m)
         /\ ScopeBelow(n)' = IF Kind[f] # "inline" THEN Scope[f] ELSE ScopeBelow(m)
<1>1. n = m + 1
  OBVIOUS
<1>2. stack'[n].via = via /\ stack'[n].file = f
  BY <1>1 DEF Frame
<1>3. \A i \in 1 .. n : i \in 1 .. m \/ i = n
  BY <1>1
<1>4. ChildrenBelow(n)' = {i \in 1 .. n : stack'[i].via = "child"}
  BY DEF ChildrenBelow
<1>5. ChildrenBelow(m)' = {i \in 1 .. m : stack'[i].via = "child"}
  BY DEF ChildrenBelow
<1>6. FiledBelow(n)' = {i \in 1 .. n : Kind[stack'[i].file] # "inline"}
  BY DEF FiledBelow
<1>7. FiledBelow(m)' = {i \in 1 .. m : Kind[stack'[i].file] # "inline"}
  BY DEF FiledBelow
<1>8. /\ ArgvBelow(n)' = IF ChildrenBelow(n)' = {} THEN Host ELSE stack'[Last(ChildrenBelow(n)')].file
      /\ ArgvBelow(m)' = IF ChildrenBelow(m)' = {} THEN Host ELSE stack'[Last(ChildrenBelow(m)')].file
  BY DEF ArgvBelow, Last
<1>9. /\ ScopeBelow(n)' = IF FiledBelow(n)' = {} THEN Host ELSE Scope[stack'[Last(FiledBelow(n)')].file]
      /\ ScopeBelow(m)' = IF FiledBelow(m)' = {} THEN Host ELSE Scope[stack'[Last(FiledBelow(m)')].file]
  BY DEF ScopeBelow, Last
<1>10. ArgvBelow(m)' = ArgvBelow(m) /\ ScopeBelow(m)' = ScopeBelow(m)
  OBVIOUS
<1>11. ArgvBelow(n)' = IF via = "child" THEN f ELSE ArgvBelow(m)
  <2>1. CASE via = "child"
    <3>1. PICK S \in SUBSET (1 .. m) : S = ChildrenBelow(m)'
      BY <1>5
    <3>2. ChildrenBelow(n)' = S \cup {m + 1}
      BY <1>1, <1>2, <1>3, <1>4, <1>5, <2>1, <3>1
    <3>3. Last(S \cup {m + 1}) = m + 1
      BY <1>1, LastFacts
    <3> QED
      BY <1>1, <1>2, <1>8, <2>1, <3>2, <3>3
  <2>2. CASE via # "child"
    <3>1. ChildrenBelow(n)' = ChildrenBelow(m)'
      BY <1>1, <1>2, <1>3, <1>4, <1>5, <2>2
    <3> QED
      BY <1>8, <1>10, <2>2, <3>1
  <2> QED
    BY <2>1, <2>2
<1>12. ScopeBelow(n)' = IF Kind[f] # "inline" THEN Scope[f] ELSE ScopeBelow(m)
  <2>1. CASE Kind[f] # "inline"
    <3>1. PICK S \in SUBSET (1 .. m) : S = FiledBelow(m)'
      BY <1>7
    <3>2. FiledBelow(n)' = S \cup {m + 1}
      BY <1>1, <1>2, <1>3, <1>6, <1>7, <2>1, <3>1
    <3>3. Last(S \cup {m + 1}) = m + 1
      BY <1>1, LastFacts
    <3> QED
      BY <1>1, <1>2, <1>9, <2>1, <3>2, <3>3
  <2>2. CASE Kind[f] = "inline"
    <3>1. FiledBelow(n)' = FiledBelow(m)'
      BY <1>1, <1>2, <1>3, <1>6, <1>7, <2>2
    <3> QED
      BY <1>9, <1>10, <2>2, <3>1
  <2> QED
    BY <2>1, <2>2
<1> QED
  BY <1>1, <1>11, <1>12

LEMMA SavedRemains ==
  /\ Init => Saved
  /\ TypeOK /\ SubsetsHaveLast /\ Saved /\ [Next]_vars => Saved'
<1>1. ASSUME Init PROVE Saved
  <2>1. /\ Len(stack) = 0 /\ 1 .. Len(stack) = {} /\ argv = Host /\ scope = Host
    BY <1>1 DEF Init
  <2>2. ChildrenBelow(Len(stack)) = {} /\ FiledBelow(Len(stack)) = {}
    BY <2>1 DEF ChildrenBelow, FiledBelow
  <2> QED
    BY <2>1, <2>2 DEF Saved, ArgvBelow, ScopeBelow
<1>2. ASSUME TypeOK, SubsetsHaveLast, Saved, [Next]_vars
      PROVE  Saved'
  <2>0. Len(stack) \in Nat
    BY <1>2 DEF TypeOK
  <2>1. ASSUME NEW n \in 0 .. Len(stack), \A i \in 1 .. n : stack'[i] = stack[i], NEW i \in 1 .. n
        PROVE  stack'[i].argv = ArgvBelow(i - 1)' /\ stack'[i].scope = ScopeBelow(i - 1)'
    <3>1. stack'[i] = stack[i] /\ i \in 1 .. Len(stack)
      BY <2>0, <2>1
    <3>2. stack[i].argv = ArgvBelow(i - 1) /\ stack[i].scope = ScopeBelow(i - 1)
      BY <1>2, <3>1 DEF Saved
    <3>3. i - 1 \in 0 .. Len(stack) /\ \A j \in 1 .. i - 1 : stack'[j] = stack[j]
      BY <2>0, <2>1
    <3>4. PICK k \in 0 .. Len(stack) : k = i - 1
      BY <3>3
    <3>5. ArgvBelow(k)' = ArgvBelow(k) /\ ScopeBelow(k)' = ScopeBelow(k)
      BY <1>2, <3>3, <3>4, BelowStays
    <3> QED
      BY <3>1, <3>2, <3>4, <3>5
  <2>2. CASE Still
    BY <1>2, <2>2 DEF Still, Saved, ArgvBelow, ScopeBelow, ChildrenBelow, FiledBelow
  <2>3. ASSUME NEW f \in Files, NEW via \in Vias, Pushed(f, via), Len(stack') = Len(stack) + 1,
               stack'[Len(stack) + 1] = Frame(f, via),
               \A k \in 1 .. Len(stack) : stack'[k] = stack[k]
        PROVE  Saved'
    <3>1. PICK m \in 0 .. Len(stack) : m = Len(stack)
      BY <2>0
    <3>2. PICK n \in Nat : n = Len(stack) + 1
      BY <2>0
    <3>3. ArgvBelow(m)' = ArgvBelow(m) /\ ScopeBelow(m)' = ScopeBelow(m)
      BY <1>2, <2>3, <3>1, BelowStays
    <3>4. /\ ArgvBelow(n)' = IF via = "child" THEN f ELSE ArgvBelow(m)
          /\ ScopeBelow(n)' = IF Kind[f] # "inline" THEN Scope[f] ELSE ScopeBelow(m)
      BY <1>2, <2>3, <3>1, <3>2, <3>3, BelowTop
    <3>5. argv = ArgvBelow(m) /\ scope = ScopeBelow(m)
      BY <1>2, <3>1 DEF Saved
    <3>6. /\ argv' = ArgvBelow(n)' /\ scope' = ScopeBelow(n)'
      BY <2>3, <3>4, <3>5 DEF Pushed
    <3>7. stack'[n].argv = ArgvBelow(m)' /\ stack'[n].scope = ScopeBelow(m)'
      BY <2>3, <3>2, <3>3, <3>5 DEF Frame
    <3>8. ASSUME NEW i \in 1 .. n
          PROVE  stack'[i].argv = ArgvBelow(i - 1)' /\ stack'[i].scope = ScopeBelow(i - 1)'
      <4>1. CASE i \in 1 .. m
        BY <2>1, <2>3, <3>1, <4>1
      <4>2. CASE i = n
        <5>1. i - 1 = m
          BY <2>0, <3>1, <3>2, <4>2
        <5> QED
          BY <3>7, <4>2, <5>1
      <4> QED
        BY <2>0, <3>1, <3>2, <4>1, <4>2
    <3>9. Len(stack') = n
      BY <2>3, <3>2
    <3> QED
      BY <3>6, <3>8, <3>9 DEF Saved
  <2>4. CASE /\ Popped /\ Len(stack) \in Nat \ {0} /\ Len(stack') = Len(stack) - 1
             /\ \A k \in 1 .. Len(stack) - 1 : stack'[k] = stack[k]
    <3>0. Len(stack) \in Nat \ {0} /\ Len(stack) - 1 \in 0 .. Len(stack)
      BY <2>0, <2>4
    <3>1. PICK m \in 0 .. Len(stack) : m = Len(stack) - 1
      BY <3>0
    <3>2. \A k \in 1 .. m : stack'[k] = stack[k]
      BY <2>4, <3>1
    <3>3. ArgvBelow(m)' = ArgvBelow(m) /\ ScopeBelow(m)' = ScopeBelow(m)
      BY <1>2, <3>2, BelowStays
    <3>4. Top.argv = ArgvBelow(m) /\ Top.scope = ScopeBelow(m)
      BY <1>2, <2>4, <3>1 DEF Saved, Top
    <3>5. argv = IF Top.via = "child" THEN Top.file ELSE ArgvBelow(m)
      <4>0. PICK n \in Nat : n = Len(stack) /\ n = m + 1
        BY <2>4, <3>1
      <4>1. argv = ArgvBelow(n)
        BY <1>2, <4>0 DEF Saved
      <4>2. ChildrenBelow(m) \in SUBSET (1 .. m) /\ m \in Nat
        BY <4>0 DEF ChildrenBelow
      <4>3. CASE Top.via = "child"
        <5>1. ChildrenBelow(n) = ChildrenBelow(m) \cup {m + 1}
          BY <4>0, <4>3 DEF ChildrenBelow, Top
        <5>2. Last(ChildrenBelow(n)) = n
          BY <4>0, <4>2, <5>1, LastFacts
        <5> QED
          BY <4>0, <4>1, <4>3, <5>1, <5>2 DEF ArgvBelow, Top
      <4>4. CASE Top.via # "child"
        <5>1. ChildrenBelow(n) = ChildrenBelow(m)
          BY <4>0, <4>4 DEF ChildrenBelow, Top
        <5> QED
          BY <4>1, <4>4, <5>1 DEF ArgvBelow
      <4> QED
        BY <4>3, <4>4
    <3>6. argv' = ArgvBelow(m)' /\ scope' = ScopeBelow(m)'
      BY <2>4, <3>3, <3>4, <3>5 DEF Popped, Restored
    <3>7. ASSUME NEW i \in 1 .. m
          PROVE  stack'[i].argv = ArgvBelow(i - 1)' /\ stack'[i].scope = ScopeBelow(i - 1)'
      BY <2>1, <3>2
    <3>8. Len(stack') = m
      BY <2>4, <3>1
    <3> QED
      BY <3>6, <3>7, <3>8 DEF Saved
  <2> QED
    BY <1>2, <2>2, <2>3, <2>4, FramesMove
<1> QED
  BY <1>1, <1>2

\* ArgvIsTheChilds and ScopeIsOwner: process.argv is that of the innermost
\* child process, and behaviour is attributed to the package of the innermost
\* file, however bodies nest and end (builtins.go:784, require.go:855).
LEMMA SavedSuffices == TypeOK /\ Saved => ArgvIsTheChilds /\ ScopeIsOwner
<1> SUFFICES ASSUME TypeOK, Saved PROVE ArgvIsTheChilds /\ ScopeIsOwner
  OBVIOUS
<1>1. ChildFrames = ChildrenBelow(Len(stack)) /\ Filed = FiledBelow(Len(stack))
  BY DEF ChildFrames, ChildrenBelow, Filed, FiledBelow
<1>2. argv = ArgvBelow(Len(stack)) /\ scope = ScopeBelow(Len(stack))
  BY DEF Saved
<1> QED
  BY <1>1, <1>2 DEF ArgvIsTheChilds, ScopeIsOwner, ArgvBelow, ScopeBelow, Last

\* ArgvIsTheChilds: process.argv is that of the innermost child process in
\* progress, also when one ends by throwing (builtins.go:784).
THEOREM ArgvIsRestored == Spec => []ArgvIsTheChilds
<1>1. Init => SubsetsHaveLast /\ Saved
  BY LastsRemain, SavedRemains
<1>2. TypeOK /\ SubsetsHaveLast /\ Saved /\ [Next]_vars => (SubsetsHaveLast /\ Saved)'
  BY LastsRemain, SavedRemains
<1> QED
  BY <1>1, <1>2, TypeCorrect, SavedSuffices, PTL DEF Spec

\* ScopeIsOwner: behaviour is attributed to the package of the innermost file
\* in progress, across modules, children and shell scripts (SetScope in
\* loadFile and RunShellFile).
THEOREM ScopeIsRestored == Spec => []ScopeIsOwner
<1>1. Init => SubsetsHaveLast /\ Saved
  BY LastsRemain, SavedRemains
<1>2. TypeOK /\ SubsetsHaveLast /\ Saved /\ [Next]_vars => (SubsetsHaveLast /\ Saved)'
  BY LastsRemain, SavedRemains
<1> QED
  BY <1>1, <1>2, TypeCorrect, SavedSuffices, PTL DEF Spec

-----------------------------------------------------------------------------
(* How many bodies of a file are in progress *)

LEMMA PushMoves ==
  ASSUME TypeOK, NEW f \in Files, NEW via \in Vias, stack' = Append(stack, Frame(f, via))
  PROVE  /\ Len(stack) \in Nat /\ Len(stack') = Len(stack) + 1
         /\ stack'[Len(stack) + 1] = Frame(f, via)
         /\ \A i \in 1 .. Len(stack) : stack'[i] = stack[i]
         /\ \A i \in 1 .. Len(stack') : i \in 1 .. Len(stack) \/ i = Len(stack) + 1
<1>1. PICK e \in Frames : e = Frame(f, via)
  BY FrameFacts
<1>2. stack \in Seq(Frames) /\ stack' = Append(stack, e)
  BY <1>1 DEF TypeOK
<1>3. /\ Len(stack) \in Nat /\ Len(stack') = Len(stack) + 1 /\ stack'[Len(stack) + 1] = e
      /\ \A i \in 1 .. Len(stack) : stack'[i] = stack[i]
  BY <1>2
<1> QED
  BY <1>1, <1>3

LEMMA EndMoves ==
  ASSUME TypeOK, Ends
  PROVE  /\ Top \in Frames /\ Top = stack[Len(stack)] /\ Len(stack) \in Nat \ {0}
         /\ Len(stack') = Len(stack) - 1
         /\ \A i \in 1 .. Len(stack') : i \in 1 .. Len(stack) /\ i # Len(stack) /\ stack'[i] = stack[i]
         /\ \A i \in 1 .. Len(stack) : i \in 1 .. Len(stack') \/ i = Len(stack)
<1>1. stack \in Seq(Frames) /\ stack # <<>> /\ stack' = SubSeq(stack, 1, Len(stack) - 1)
  BY DEF TypeOK, Ends
<1>2. /\ Len(stack) \in Nat \ {0} /\ Top \in Frames /\ Top = stack[Len(stack)]
      /\ Len(stack') = Len(stack) - 1 /\ \A i \in 1 .. Len(stack) - 1 : stack'[i] = stack[i]
  BY <1>1, PopIsInverse DEF Top
<1> QED
  BY <1>2

\* A script in progress is in the cache and its file is there; shells, and the
\* inline code they run, have only shells below them; a file has been entered
\* once by require, by fork or from a shell.
InProgress == \A i \in 1 .. Len(stack) :
    Kind[stack[i].file] = "script" => stack[i].file \in DOMAIN cache /\ stack[i].file \in Present
ShellsBelow == \A i \in 1 .. Len(stack) : stack[i].via \in {"shell", "eval"} =>
    \A j \in 1 .. Len(stack) : j < i => stack[j].via = "shell"
KindsFit == \A i \in 1 .. Len(stack) : stack[i].via \in {"require", "fork"} => Kind[stack[i].file] = "script"
OneEntry == \A i, j \in 1 .. Len(stack) :
    /\ stack[i].via \notin {"shell", "child"} /\ stack[j].via \notin {"shell", "child"}
    /\ stack[i].file = stack[j].file
    => i = j
Nesting == InProgress /\ ShellsBelow /\ KindsFit /\ OneEntry

\* A load in which nothing starts leaves the files in progress in the cache.
LEMMA RestKeepsRunning ==
  ASSUME InProgress, NEW f, NEW via, LoadRests(f, via), NEW i \in 1 .. Len(stack),
         Kind[stack[i].file] = "script"
  PROVE  stack[i].file \in DOMAIN cache'
<1>1. stack[i].file \in DOMAIN cache /\ stack[i].file \in Present
  BY DEF InProgress
<1>2. \/ cache' = KeptFor(f, via) /\ (f \in DOMAIN KeptFor(f, via) \/ f \notin Present)
      \/ \E v \in Values : cache' = Put(f, v, KeptFor(f, via))
  BY DEF LoadRests, Rests
<1>3. DOMAIN KeptFor(f, via) = IF via = "child" THEN DOMAIN cache \ {f} ELSE DOMAIN cache
  BY DEF KeptFor, Without
<1>4. CASE cache' = KeptFor(f, via) /\ (f \in DOMAIN KeptFor(f, via) \/ f \notin Present)
  BY <1>1, <1>3, <1>4
<1>5. ASSUME NEW v \in Values, cache' = Put(f, v, KeptFor(f, via))
      PROVE  stack[i].file \in DOMAIN cache'
  <2>1. DOMAIN Put(f, v, KeptFor(f, via)) = {f} \cup DOMAIN KeptFor(f, via)
    BY Adding
  <2>2. DOMAIN cache' = {f} \cup DOMAIN KeptFor(f, via)
    BY <1>5, <2>1
  <2> QED
    BY <1>1, <1>3, <2>2
<1> QED
  BY <1>2, <1>4, <1>5

LEMMA NestingRemains ==
  /\ Init => Nesting
  /\ TypeOK /\ Nesting /\ [Next]_vars => Nesting'
<1>1. ASSUME Init PROVE Nesting
  <2>1. 1 .. Len(stack) = {}
    BY <1>1 DEF Init
  <2> QED
    BY <2>1 DEF Nesting, InProgress, ShellsBelow, KindsFit, OneEntry
<1>2. ASSUME TypeOK, Nesting, [Next]_vars
      PROVE  Nesting'
  <2>0. /\ Effect /\ Present \subseteq Present' /\ Len(stack) \in Nat /\ runs \in [Files -> Nat]
    BY <1>2, StepEffects DEF TypeOK, Present
  <2>1. ASSUME NEW f \in Files, NEW via \in LoadVias, LoadStarts(f, via)
        PROVE  Nesting'
    <3>1. /\ Kind[f] = "script" /\ f \in Present /\ f \notin DOMAIN KeptFor(f, via)
          /\ stack' = Append(stack, Frame(f, via))
          /\ cache' = Put(f, Value(f, runs[f] + 1, "placeholder"), KeptFor(f, via))
      BY <2>1 DEF LoadStarts, Starts, Begin
    <3>2. via \in Vias /\ via \notin {"shell", "eval"} /\ Frame(f, via).via = via /\ Frame(f, via).file = f
      BY DEF LoadVias, Vias, Frame
    <3>3. /\ Len(stack') = Len(stack) + 1 /\ stack'[Len(stack) + 1] = Frame(f, via)
          /\ \A i \in 1 .. Len(stack) : stack'[i] = stack[i]
          /\ \A i \in 1 .. Len(stack') : i \in 1 .. Len(stack) \/ i = Len(stack) + 1
      BY <1>2, <3>1, <3>2, PushMoves
    <3>4. DOMAIN KeptFor(f, via) = IF via = "child" THEN DOMAIN cache \ {f} ELSE DOMAIN cache
      BY DEF KeptFor, Without
    <3>5. DOMAIN cache' = {f} \cup DOMAIN KeptFor(f, via)
      BY <3>1, Adding
    <3>6. InProgress'
      BY <1>2, <2>0, <3>1, <3>2, <3>3, <3>4, <3>5 DEF Nesting, InProgress
    <3>7. ShellsBelow'
      BY <1>2, <2>0, <3>2, <3>3 DEF Nesting, ShellsBelow
    <3>8. KindsFit'
      BY <1>2, <3>1, <3>2, <3>3 DEF Nesting, KindsFit
    <3>9. OneEntry'
      <4>1. ASSUME NEW i \in 1 .. Len(stack), stack[i].file = f, via # "child"
            PROVE  FALSE
        BY <1>2, <3>1, <3>4, <4>1 DEF Nesting, InProgress
      <4>2. SUFFICES ASSUME NEW i \in 1 .. Len(stack'), NEW j \in 1 .. Len(stack'),
                            stack'[i].via \notin {"shell", "child"}, stack'[j].via \notin {"shell", "child"},
                            stack'[i].file = stack'[j].file
                     PROVE  i = j
        BY DEF OneEntry
      <4>3. CASE i \in 1 .. Len(stack) /\ j \in 1 .. Len(stack)
        BY <1>2, <3>3, <4>2, <4>3 DEF Nesting, OneEntry
      <4>4. CASE i = Len(stack) + 1 /\ j \in 1 .. Len(stack)
        BY <3>2, <3>3, <4>1, <4>2, <4>4
      <4>5. CASE j = Len(stack) + 1 /\ i \in 1 .. Len(stack)
        BY <3>2, <3>3, <4>1, <4>2, <4>5
      <4> QED
        BY <3>3, <4>3, <4>4, <4>5
    <3> QED
      BY <3>6, <3>7, <3>8, <3>9 DEF Nesting
  <2>2. ASSUME NEW f \in Files, NEW via \in LoadVias, LoadRests(f, via)
        PROVE  Nesting'
    <3>1. UNCHANGED stack
      BY <2>2 DEF LoadRests, Rests
    <3>2. InProgress
      BY <1>2 DEF Nesting
    <3>3. \A i \in 1 .. Len(stack) : Kind[stack[i].file] = "script" => stack[i].file \in DOMAIN cache'
      BY <2>2, <3>2, RestKeepsRunning
    <3>4. InProgress'
      BY <2>0, <3>1, <3>2, <3>3 DEF InProgress
    <3> QED
      BY <1>2, <3>1, <3>4 DEF Nesting, ShellsBelow, KindsFit, OneEntry
  <2>3. ASSUME NEW f \in Files, NEW via \in Vias, OtherStarts(f, via)
        PROVE  Nesting'
    <3>1. /\ Kind[f] # "script" /\ stack' = Append(stack, Frame(f, via)) /\ UNCHANGED cache
          /\ via \in {"child", "eval", "shell"}
          /\ via \in {"eval", "shell"} => InShell
      BY <2>3 DEF OtherStarts
    <3>2. Frame(f, via).via = via /\ Frame(f, via).file = f
      BY DEF Frame
    <3>3. /\ Len(stack') = Len(stack) + 1 /\ stack'[Len(stack) + 1] = Frame(f, via)
          /\ \A i \in 1 .. Len(stack) : stack'[i] = stack[i]
          /\ \A i \in 1 .. Len(stack') : i \in 1 .. Len(stack) \/ i = Len(stack) + 1
      BY <1>2, <3>1, PushMoves
    <3>4. ASSUME InShell, NEW i \in 1 .. Len(stack)
          PROVE  stack[i].via = "shell"
      <4>1. /\ Len(stack) \in 1 .. Len(stack) /\ stack # <<>>
        BY <2>0
      <4>2. stack[Len(stack)].via \in Vias
        <5>1. stack \in Seq(Frames)
          BY <1>2 DEF TypeOK
        <5>2. stack[Len(stack)] \in Frames
          BY <4>1, <5>1
        <5> QED
          BY <5>2 DEF Frames, Vias
      <4>3. stack[Len(stack)].via = "shell"
        BY <3>4, <4>1, <4>2 DEF InShell, Via, Top, Vias
      <4>4. i = Len(stack) \/ i < Len(stack)
        BY <2>0
      <4> QED
        BY <1>2, <4>1, <4>3, <4>4 DEF Nesting, ShellsBelow
    <3>5. InProgress'
      BY <1>2, <2>0, <3>1, <3>2, <3>3 DEF Nesting, InProgress
    <3>6. ShellsBelow'
      <4>1. SUFFICES ASSUME NEW i \in 1 .. Len(stack'), stack'[i].via \in {"shell", "eval"},
                            NEW j \in 1 .. Len(stack'), j < i
                     PROVE  stack'[j].via = "shell"
        BY DEF ShellsBelow
      <4>2. j \in 1 .. Len(stack) /\ stack'[j] = stack[j]
        BY <2>0, <3>3, <4>1
      <4>3. CASE i \in 1 .. Len(stack)
        BY <1>2, <3>3, <4>1, <4>2, <4>3 DEF Nesting, ShellsBelow
      <4>4. CASE i = Len(stack) + 1
        BY <3>1, <3>2, <3>3, <3>4, <4>1, <4>2, <4>4
      <4> QED
        BY <3>3, <4>3, <4>4
    <3>7. KindsFit'
      BY <1>2, <3>1, <3>2, <3>3 DEF Nesting, KindsFit
    <3>8. OneEntry'
      <4>1. SUFFICES ASSUME NEW i \in 1 .. Len(stack'), NEW j \in 1 .. Len(stack'),
                            stack'[i].via \notin {"shell", "child"}, stack'[j].via \notin {"shell", "child"},
                            stack'[i].file = stack'[j].file
                     PROVE  i = j
        BY DEF OneEntry
      <4>2. CASE i \in 1 .. Len(stack) /\ j \in 1 .. Len(stack)
        BY <1>2, <3>3, <4>1, <4>2 DEF Nesting, OneEntry
      <4>3. CASE i = Len(stack) + 1 /\ j \in 1 .. Len(stack)
        BY <3>1, <3>2, <3>3, <3>4, <4>1, <4>3
      <4>4. CASE j = Len(stack) + 1 /\ i \in 1 .. Len(stack)
        BY <3>1, <3>2, <3>3, <3>4, <4>1, <4>4
      <4> QED
        BY <3>3, <4>2, <4>3, <4>4
    <3> QED
      BY <3>5, <3>6, <3>7, <3>8 DEF Nesting
  <2>4. CASE Ends
    <3>1. /\ \A i \in 1 .. Len(stack') : i \in 1 .. Len(stack) /\ stack'[i] = stack[i]
      BY <1>2, <2>4, EndMoves
    <3>2. DOMAIN cache \subseteq DOMAIN cache'
      <4>1. ASSUME NEW x, NEW v, cache' = Put(x, v, cache)
            PROVE  DOMAIN cache \subseteq DOMAIN cache'
        <5>1. DOMAIN Put(x, v, cache) = {x} \cup DOMAIN cache
          BY Adding
        <5> QED
          BY <4>1, <5>1
      <4> QED
        BY <2>4, <4>1 DEF Ends, Keep
    <3> QED
      BY <1>2, <2>0, <3>1, <3>2, SMTT(20) DEF Nesting, InProgress, ShellsBelow, KindsFit, OneEntry
  <2>5. ASSUME NEW s \in Specs, Stubs(s)
        PROVE  Nesting'
    <3>1. DOMAIN Put(s, Stub(s), cache) = {s} \cup DOMAIN cache
      BY Adding
    <3>2. DOMAIN cache \subseteq DOMAIN cache' /\ UNCHANGED stack
      BY <2>5, <3>1 DEF Stubs
    <3> QED
      BY <1>2, <2>0, <3>2 DEF Nesting, InProgress, ShellsBelow, KindsFit, OneEntry
  <2>6. CASE Nothing
    BY <1>2, <2>0, <2>6 DEF Nothing, Nesting, InProgress, ShellsBelow, KindsFit, OneEntry
  <2> QED
    BY <2>0, <2>1, <2>2, <2>3, <2>4, <2>5, <2>6 DEF Effect
<1> QED
  BY <1>1, <1>2

\* FramesBounded: recursion is bounded; a file is in progress at most once per
\* level of child processes, of which there are at most MaxBridge
\* (builtins.go:733).
THEOREM RecursionIsBounded == Spec => []FramesBounded
<1>1. TypeOK /\ DepthCounts /\ Nesting => FramesBounded
  <2>1. SUFFICES ASSUME TypeOK, DepthCounts, Nesting
                 PROVE  FramesBounded
    OBVIOUS
  <2>2. ChildFrames = ChildrenOf(stack) /\ stack \in Seq(Frames)
    BY <2>1 DEF ChildFrames, ChildrenOf, TypeOK
  <2>3. /\ IsFiniteSet(ChildFrames) /\ Cardinality(ChildFrames) \in Nat
    <3>1. ChildFrames \subseteq 1 .. Len(stack) /\ Len(stack) \in Nat
      BY <2>2 DEF ChildFrames
    <3>2. IsFiniteSet(1 .. Len(stack))
      BY <3>1, FS_Interval
    <3> QED
      BY <3>1, <3>2, FS_Subset, FS_CardinalityType
  <2>4. depth = Cardinality(ChildFrames) /\ depth <= MaxBridge
    <3>1. depth \in 0 .. MaxBridge /\ MaxBridge \in Nat
      BY <2>1, NameAssumption DEF TypeOK
    <3> QED
      BY <2>1, <2>2, <3>1 DEF DepthCounts
  <2>5. ASSUME NEW f \in Files
        PROVE  Cardinality(FramesOf(f)) <= 1 + depth
    <3>1. CASE FramesOf(f) \subseteq ChildFrames
      <4>1. /\ Cardinality(FramesOf(f)) <= Cardinality(ChildFrames) /\ Cardinality(FramesOf(f)) \in Nat
        BY <2>3, <3>1, FS_Subset, FS_CardinalityType
      <4> QED
        BY <2>3, <2>4, <4>1
    <3>2. ASSUME NEW b \in FramesOf(f), b \notin ChildFrames
          PROVE  Cardinality(FramesOf(f)) <= 1 + depth
      <4>1. FramesOf(f) \subseteq ChildFrames \cup {b}
        BY <2>1, <3>2 DEF FramesOf, ChildFrames, Nesting, OneEntry
      <4>2. /\ IsFiniteSet(ChildFrames \cup {b})
            /\ Cardinality(ChildFrames \cup {b}) = Cardinality(ChildFrames) + 1
        BY <2>3, <3>2, FS_AddElement
      <4>3. /\ Cardinality(FramesOf(f)) <= Cardinality(ChildFrames \cup {b}) /\ Cardinality(FramesOf(f)) \in Nat
        BY <4>1, <4>2, FS_Subset, FS_CardinalityType
      <4> QED
        BY <2>3, <2>4, <4>2, <4>3
    <3> QED
      BY <3>1, <3>2
  <2> QED
    BY <2>4, <2>5 DEF FramesBounded
<1>2. Init => Nesting
  BY NestingRemains
<1>3. TypeOK /\ Nesting /\ [Next]_vars => Nesting'
  BY NestingRemains
<1> QED
  BY <1>1, <1>2, <1>3, TypeCorrect, PTL DEF Spec

-----------------------------------------------------------------------------
(* Placeholders *)

\* What the cache has of a module in progress is told by its innermost body.
Backed(f) == FramesOf(f) # {} /\ stack[Last(FramesOf(f))].run = cache[f].run

LEMMA BackedRemains ==
  ASSUME TypeOK, SubsetsHaveLast, NEW f \in Files, Backed(f), cache'[f] = cache[f],
         FramesOf(f)' = FramesOf(f), \A i \in FramesOf(f) : stack'[i] = stack[i]
  PROVE  Backed(f)'
<1>1. PICK S : S = FramesOf(f)
  OBVIOUS
<1>2. S \in SUBSET (1 .. Len(stack)) /\ Len(stack) \in Nat
  BY <1>1 DEF FramesOf, TypeOK
<1>3. S # {} /\ stack[Last(S)].run = cache[f].run
  BY <1>1 DEF Backed
<1>4. Last(S) \in S
  BY <1>2, <1>3, LastFacts DEF SubsetsHaveLast
<1>5. FramesOf(f)' = S /\ stack'[Last(S)].run = cache'[f].run
  BY <1>1, <1>3, <1>4
<1>6. Backed(f)' <=> (FramesOf(f)' # {} /\ stack'[Last(FramesOf(f)')].run = cache'[f].run)
  BY DEF Backed, Last
<1> QED
  BY <1>3, <1>5, <1>6

Placeholders == \A f \in DOMAIN cache \cap Files :
    cache[f].part = "placeholder" => Kind[f] # "script" \/ aborted \/ Backed(f)

\* PlaceholderOnlyWhileRunning: a placeholder left in the cache by no run is
\* that of a file that did not compile or that the budget kept from running
\* (require.go:791).
THEOREM PlaceholdersAreReplaced == Spec => []PlaceholderOnlyWhileRunning
<1>1. Init => Placeholders /\ SubsetsHaveLast
  BY LastsRemain DEF Init, Placeholders
<1>2. ASSUME TypeOK, SubsetsHaveLast, Placeholders, [Next]_vars
      PROVE  Placeholders'
  <2>1. SUFFICES ASSUME NEW f \in Files, f \in DOMAIN cache', cache'[f].part = "placeholder",
                        Kind[f] = "script", ~aborted'
                 PROVE  Backed(f)'
    BY DEF Placeholders
  <2>2. /\ Effect /\ ~aborted /\ Len(stack) \in Nat /\ runs \in [Files -> Nat]
    BY <1>2, <2>1, StepEffects DEF TypeOK
  <2>3. ASSUME f \in DOMAIN cache, cache'[f] = cache[f], FramesOf(f)' = FramesOf(f),
               \A i \in FramesOf(f) : stack'[i] = stack[i]
        PROVE  Backed(f)'
    <3>1. Backed(f)
      BY <1>2, <2>1, <2>2, <2>3 DEF Placeholders
    <3> QED
      BY <1>2, <2>3, <3>1, BackedRemains
  <2>4. ASSUME NEW g \in Files, NEW via \in Vias, g # f, stack' = Append(stack, Frame(g, via))
        PROVE  FramesOf(f)' = FramesOf(f) /\ \A i \in FramesOf(f) : stack'[i] = stack[i]
    <3>1. Frame(g, via).file = g
      BY DEF Frame
    <3>2. /\ Len(stack') = Len(stack) + 1 /\ stack'[Len(stack) + 1] = Frame(g, via)
          /\ \A i \in 1 .. Len(stack) : stack'[i] = stack[i]
          /\ \A i \in 1 .. Len(stack') : i \in 1 .. Len(stack) \/ i = Len(stack) + 1
      BY <1>2, <2>4, PushMoves
    <3>3. \A i \in 1 .. Len(stack) : i \in 1 .. Len(stack')
      BY <2>2, <3>2
    <3> QED
      BY <2>4, <3>1, <3>2, <3>3 DEF FramesOf
  <2>5. ASSUME NEW g \in Files, NEW via \in LoadVias, LoadStarts(g, via)
        PROVE  Backed(f)'
    <3>1. /\ stack' = Append(stack, Frame(g, via))
          /\ cache' = Put(g, Value(g, runs[g] + 1, "placeholder"), KeptFor(g, via))
      BY <2>5 DEF LoadStarts, Starts, Begin
    <3>2. via \in Vias /\ via # "shell"
      BY DEF LoadVias, Vias
    <3>3. CASE g = f
      <4>1. PICK n \in Nat : n = Len(stack) + 1
        BY <2>2
      <4>2. /\ Len(stack') = n /\ stack'[n] = Frame(f, via)
        BY <1>2, <3>1, <3>2, <3>3, <4>1, PushMoves
      <4>3. stack'[n].file = f /\ stack'[n].via = via /\ stack'[n].run = runs[f] + 1
        BY <4>2 DEF Frame
      <4>4. cache'[f].run = runs[f] + 1
        <5>1. cache'[f] = Value(f, runs[f] + 1, "placeholder")
          <6>1. PICK v : v = Value(f, runs[f] + 1, "placeholder")
            OBVIOUS
          <6>2. Put(f, v, KeptFor(f, via))[f] = v
            BY Adding
          <6> QED
            BY <3>1, <3>3, <6>1, <6>2
        <5> QED
          BY <5>1 DEF Value
      <4>5. FramesOf(f)' = {i \in 1 .. n : stack'[i].file = f /\ stack'[i].via # "shell"}
        BY <4>2 DEF FramesOf
      <4>6. PICK m \in Nat : n = m + 1
        BY <2>2, <4>1
      <4>7. PICK S \in SUBSET (1 .. m) : FramesOf(f)' = S \cup {m + 1}
        <5>1. FramesOf(f)' = {i \in 1 .. m : stack'[i].file = f /\ stack'[i].via # "shell"} \cup {m + 1}
          BY <3>2, <4>3, <4>5, <4>6
        <5> QED
          BY <5>1
      <4>8. Last(FramesOf(f)') = n
        BY <4>6, <4>7, LastFacts
      <4>9. Backed(f)' <=> (FramesOf(f)' # {} /\ stack'[Last(FramesOf(f)')].run = cache'[f].run)
        BY DEF Backed, Last
      <4> QED
        BY <4>3, <4>4, <4>7, <4>8, <4>9
    <3>4. CASE g # f
      <4>1. f \in DOMAIN cache /\ cache'[f] = cache[f]
        <5>1. /\ DOMAIN cache' = {g} \cup DOMAIN KeptFor(g, via)
              /\ \A y \in DOMAIN KeptFor(g, via) \ {g} : cache'[y] = KeptFor(g, via)[y]
          <6>1. PICK c : c = Put(g, Value(g, runs[g] + 1, "placeholder"), KeptFor(g, via))
            OBVIOUS
          <6>2. /\ DOMAIN c = {g} \cup DOMAIN KeptFor(g, via)
                /\ \A y \in DOMAIN KeptFor(g, via) \ {g} : c[y] = KeptFor(g, via)[y]
            BY <6>1 DEF Put
          <6> QED
            BY <3>1, <6>1, <6>2
        <5>2. f \in DOMAIN KeptFor(g, via) /\ cache'[f] = KeptFor(g, via)[f]
          BY <2>1, <3>4, <5>1
        <5> QED
          BY <5>2 DEF KeptFor, Without
      <4> QED
        BY <2>3, <2>4, <3>1, <3>2, <3>4, <4>1
    <3> QED
      BY <3>3, <3>4
  <2>6. ASSUME UNCHANGED stack, f \in DOMAIN cache, cache'[f] = cache[f]
        PROVE  Backed(f)'
    BY <2>3, <2>6 DEF FramesOf
  <2>7. ASSUME NEW g \in Files, NEW via \in LoadVias, LoadRests(g, via)
        PROVE  Backed(f)'
    <3>1. UNCHANGED stack
      BY <2>7 DEF LoadRests, Rests
    <3>2. CASE cache' = KeptFor(g, via)
      <4>1. f \in DOMAIN KeptFor(g, via) /\ cache'[f] = KeptFor(g, via)[f]
        BY <2>1, <3>2
      <4>2. f \in DOMAIN cache /\ cache'[f] = cache[f]
        BY <4>1 DEF KeptFor, Without
      <4> QED
        BY <2>6, <3>1, <4>2
    <3>3. ASSUME NEW v \in Values, cache' = Put(g, v, KeptFor(g, via)), Kind[g] # "script"
          PROVE  Backed(f)'
      <4>1. g # f
        BY <2>1, <3>3
      <4>2. /\ DOMAIN cache' = {g} \cup DOMAIN KeptFor(g, via)
            /\ \A y \in DOMAIN KeptFor(g, via) \ {g} : cache'[y] = KeptFor(g, via)[y]
        <5>1. PICK c : c = Put(g, v, KeptFor(g, via))
          OBVIOUS
        <5>2. /\ DOMAIN c = {g} \cup DOMAIN KeptFor(g, via)
              /\ \A y \in DOMAIN KeptFor(g, via) \ {g} : c[y] = KeptFor(g, via)[y]
          BY <5>1 DEF Put
        <5> QED
          BY <3>3, <5>1, <5>2
      <4>3. f \in DOMAIN KeptFor(g, via) /\ cache'[f] = KeptFor(g, via)[f]
        BY <2>1, <4>1, <4>2
      <4>4. f \in DOMAIN cache /\ cache'[f] = cache[f]
        BY <4>3 DEF KeptFor, Without
      <4> QED
        BY <2>6, <3>1, <4>4
    <3> QED
      BY <2>2, <2>7, <3>2, <3>3 DEF LoadRests, Rests
  <2>8. ASSUME NEW g \in Files, NEW via \in Vias, OtherStarts(g, via)
        PROVE  Backed(f)'
    <3>1. g # f /\ stack' = Append(stack, Frame(g, via)) /\ UNCHANGED cache
      BY <2>1, <2>8 DEF OtherStarts
    <3> QED
      BY <2>1, <2>3, <2>4, <3>1
  <2>9. CASE Ends
    <3>1. /\ Top \in Frames /\ Top = stack[Len(stack)]
          /\ \A i \in 1 .. Len(stack') : i \in 1 .. Len(stack) /\ i # Len(stack) /\ stack'[i] = stack[i]
          /\ \A i \in 1 .. Len(stack) : i \in 1 .. Len(stack') \/ i = Len(stack)
      BY <1>2, <2>9, EndMoves
    <3>2. ASSUME Top.file # f \/ Top.via = "shell"
          PROVE  FramesOf(f)' = FramesOf(f) /\ \A i \in FramesOf(f) : stack'[i] = stack[i]
      BY <3>1, <3>2 DEF FramesOf
    <3>3. CASE Top.via = "shell" \/ Kind[Top.file] = "inline"
      <4>1. UNCHANGED cache /\ (Top.file # f \/ Top.via = "shell")
        BY <2>1, <2>9, <3>3 DEF Ends
      <4> QED
        BY <2>1, <2>3, <3>2, <4>1
    <3>4. CASE ~(Top.via = "shell" \/ Kind[Top.file] = "inline")
      <4>1. PICK v : v = Value(Top.file, Top.run, "exports") /\ cache' = Put(Top.file, v, cache)
        BY <2>9, <3>4 DEF Ends, Keep
      <4>2. /\ DOMAIN cache' = {Top.file} \cup DOMAIN cache /\ cache'[Top.file] = v
            /\ \A y \in DOMAIN cache \ {Top.file} : cache'[y] = cache[y]
        <5>1. PICK c : c = Put(Top.file, v, cache)
          OBVIOUS
        <5>2. /\ DOMAIN c = {Top.file} \cup DOMAIN cache /\ c[Top.file] = v
              /\ \A y \in DOMAIN cache \ {Top.file} : c[y] = cache[y]
          BY <5>1 DEF Put
        <5> QED
          BY <4>1, <5>1, <5>2
      <4>3. v.part = "exports"
        BY <4>1 DEF Value
      <4>4. Top.file # f
        BY <2>1, <4>2, <4>3
      <4> QED
        BY <2>1, <2>3, <3>2, <4>2, <4>4
    <3> QED
      BY <3>3, <3>4
  <2>10. ASSUME NEW s \in Specs, Stubs(s)
         PROVE  Backed(f)'
    <3>1. s # f /\ UNCHANGED stack
      BY <2>10, NameAssumption DEF Stubs
    <3>2. /\ DOMAIN cache' = {s} \cup DOMAIN cache
          /\ \A y \in DOMAIN cache \ {s} : cache'[y] = cache[y]
      <4>1. PICK c : c = Put(s, Stub(s), cache)
        OBVIOUS
      <4>2. /\ DOMAIN c = {s} \cup DOMAIN cache
            /\ \A y \in DOMAIN cache \ {s} : c[y] = cache[y]
        BY <4>1 DEF Put
      <4> QED
        BY <2>10, <4>1, <4>2 DEF Stubs
    <3> QED
      BY <2>1, <2>6, <3>1, <3>2
  <2>11. CASE Nothing
    BY <2>1, <2>6, <2>11 DEF Nothing
  <2> QED
    BY <2>2, <2>5, <2>7, <2>8, <2>9, <2>10, <2>11 DEF Effect
<1>3. TypeOK /\ SubsetsHaveLast /\ Placeholders /\ [Next]_vars => (SubsetsHaveLast /\ Placeholders)'
  BY <1>2, LastsRemain
<1>4. TypeOK /\ Placeholders => PlaceholderOnlyWhileRunning
  BY DEF Placeholders, PlaceholderOnlyWhileRunning, Backed, Innermost, Last
<1> QED
  BY <1>1, <1>3, <1>4, TypeCorrect, PTL DEF Spec
(* Arguments and attribution are back in place after everything that nests,  *)
(* however it ends.                                                          *)
THEOREM AmbientIsRestored == Spec => []AmbientRestored
<1>1. ArgvIsTheChilds /\ ScopeIsOwner => AmbientRestored
  BY DEF AmbientRestored
<1> QED
  BY <1>1, ArgvIsRestored, ScopeIsRestored, PTL

=============================================================================
