--------------------------- MODULE DepTreeProofs ---------------------------
(***************************************************************************)
(* Proofs about DepTree and DepTreeSerial, for every graph, pool size,      *)
(* limit and registry.                                                      *)
(*                                                                          *)
(* The inductive invariant is Core, the types together with the facts that  *)
(* make the shared counter meaningful, and Walk, the facts about which      *)
(* names are where, which rests on Core.  The comparison with a serial walk *)
(* adds Serial, the order of claims while no two fetches overlap.           *)
(***************************************************************************)
EXTENDS DepTreeSerial, FiniteSetTheorems, TLAPS

\* A busy worker holds a job that a claim may take.
Holding == \A w \in Busy : job[w] \in Item /\ job[w].depth <= PeerMaxDepth

\* Nothing runs between and after the two walks.
AtRest == ~Walking => AllExited

Core == TypeOK /\ Holding /\ ActiveCounts /\ AtRest

\* A worker leaves only a finished or capped walk.
Leaving == \A w \in Worker : pc[w] = "exited" => done \/ Capped

\* Every job the root or an installed package contributes is claimed or queued.
Queued ==
  \A i \in root \cup UNION {Children(p) : p \in installed} :
    i.name \in visited \/ \E j \in frontier : j.name = i.name /\ j.depth = i.depth

InstalledFinite == IsFiniteSet(installed)

Walk == ClaimedOnce /\ NoEarlyEnd /\ NoLostWakeup /\ Leaving /\ Queued /\ InstalledFinite

IInv == Core /\ Walk

-----------------------------------------------------------------------------
(* The graph operators *)

\* A package's children are jobs, one level below it, with its taint.
LEMMA ChildrenType ==
  ASSUME NEW p, p.name \in Name, p.depth \in Nat \ {0}, p.dev \in BOOLEAN
  PROVE  Children(p) \subseteq Item
BY GraphAssumption, LimitAssumption DEF Children, Items, Item

\* The seed of a walk is a set of jobs at level 1.
LEMMA SeedType ==
  ASSUME NEW S \in SUBSET Name, NEW T \in SUBSET Name
  PROVE  Seed(S, T) \subseteq Item /\ \A i \in Seed(S, T) : i.depth = 1
<1>1. 1 \in Nat \ {0}
  OBVIOUS
<1>2. Items(S, 1, FALSE) \subseteq Item /\ Items(T \ S, 1, TRUE) \subseteq Item
  BY <1>1 DEF Items, Item
<1>3. \A i \in Items(S, 1, FALSE) \cup Items(T \ S, 1, TRUE) : i.depth = 1
  BY DEF Items
<1> QED
  BY <1>2, <1>3 DEF Seed

\* Push only adds jobs it is given, and loses none.
LEMMA PushBounds ==
  ASSUME NEW front, NEW seen, NEW items
  PROVE  front \subseteq Push(front, seen, items) /\ Push(front, seen, items) \subseteq front \cup items
BY DEF Push

\* After Push every given job is visited or queued at its depth.
LEMMA PushQueues ==
  ASSUME NEW front, NEW seen, NEW items, NEW i \in items
  PROVE  i.name \in seen \/ \E j \in Push(front, seen, items) : j.name = i.name /\ j.depth = i.depth
BY DEF Push

\* Tagging a package for the report keeps its fields.
LEMMA TagType ==
  ASSUME NEW S \in SUBSET Package, NEW b \in BOOLEAN
  PROVE  Tag(S, b) \subseteq Listed
<1> SUFFICES ASSUME NEW p \in S
             PROVE  [name |-> p.name, depth |-> p.depth, dev |-> p.dev,
                     fetched |-> p.fetched, runtime |-> b] \in Listed
    BY DEF Tag
<1> QED
  BY DEF Package, Listed

\* The busy workers are finitely many.
LEMMA BusyFinite == IsFiniteSet(Busy) /\ Cardinality(Busy) \in Nat
BY WorkerAssumption, FS_Subset, FS_CardinalityType DEF Busy

-----------------------------------------------------------------------------
(* Types *)

LEMMA CoreInit == Init => Core
<1> SUFFICES ASSUME Init PROVE Core
    OBVIOUS
<1>1. TypeOK
  BY RootAssumption, EnvironmentAssumption, SeedType DEF Init, TypeOK
<1>2. Busy = {}
  BY DEF Init, Busy
<1>3. ActiveCounts
  BY <1>2, FS_EmptySet DEF ActiveCounts, Init
<1>4. Holding /\ AtRest
  BY <1>2 DEF Holding, AtRest, Walking, Init
<1> QED
  BY <1>1, <1>3, <1>4 DEF Core

LEMMA CoreStep == Core /\ [Next]_vars => Core'
<1> SUFFICES ASSUME Core, [Next]_vars PROVE Core'
    OBVIOUS
<1> USE DEF Core
<1>1. ASSUME NEW w \in Worker, Claim(w) PROVE Core'
  <2>1. PICK i \in frontier : /\ Best(i)
                              /\ frontier' = frontier \ {i}
                              /\ visited' = visited \cup {i.name}
                              /\ job' = [job EXCEPT ![w] = i]
    BY <1>1 DEF Claim
  <2>2. i \in Item /\ i.depth <= PeerMaxDepth
    BY <2>1 DEF TypeOK, Best, Claimable
  <2>3. TypeOK'
    BY <1>1, <2>1, <2>2 DEF Claim, TypeOK, Item
  <2>4. w \notin Busy /\ Busy' = Busy \cup {w}
    BY <1>1 DEF Claim, TypeOK, Busy
  <2>5. Holding'
    BY <2>1, <2>2, <2>4 DEF Holding, TypeOK, Busy
  <2>6. ActiveCounts'
    BY <1>1, <2>4, BusyFinite, FS_AddElement DEF Claim, ActiveCounts
  <2>7. AtRest'
    BY <1>1 DEF Claim, AtRest, Walking
  <2> QED
    BY <2>3, <2>5, <2>6, <2>7
<1>2. ASSUME NEW w \in Worker, EndWalk(w) \/ Sleep(w) \/ Exit(w) PROVE Core'
  <2>1. TypeOK'
    BY <1>2 DEF EndWalk, Sleep, Exit, Awake, walk, TypeOK
  <2>2. Busy' = Busy
    BY <1>2 DEF EndWalk, Sleep, Exit, Awake, TypeOK, Busy
  <2>3. active' = active /\ job' = job /\ stage' = stage /\ Walking
    BY <1>2 DEF EndWalk, Sleep, Exit, walk
  <2> QED
    BY <2>1, <2>2, <2>3 DEF Holding, ActiveCounts, AtRest, Walking
<1>3. ASSUME NEW w \in Worker, Materialize(w) PROVE Core'
  <2>1. w \in Busy /\ job[w] \in Item
    BY <1>3 DEF Materialize, Busy, Holding
  <2>2. TypeOK'
    BY <1>3, <2>1 DEF Materialize, walk, TypeOK, Item
  <2>3. Busy' = Busy
    BY <1>3 DEF Materialize, TypeOK, Busy
  <2>4. Walking
    BY <1>3 DEF Materialize, AtRest, AllExited
  <2> QED
    BY <1>3, <2>2, <2>3, <2>4 DEF Materialize, walk, Holding, ActiveCounts, AtRest, Walking
<1>4. ASSUME NEW w \in Worker, Settle(w) PROVE Core'
  <2>1. w \in Busy /\ job[w] \in Item
    BY <1>4 DEF Settle, Busy, Holding
  <2>2. Busy' = Busy \ {w}
    BY <1>4 DEF Settle, Awake, TypeOK, Busy
  <2>3. Cardinality(Busy') = active - 1 /\ active - 1 \in Nat
    <3>1. IsFiniteSet(Busy \ {w}) /\ Cardinality(Busy \ {w}) = Cardinality(Busy) - 1
      BY <2>1, BusyFinite, FS_RemoveElement
    <3>2. Cardinality(Busy \ {w}) \in Nat
      BY <3>1, FS_CardinalityType
    <3> QED
      BY <2>2, <3>1, <3>2 DEF ActiveCounts
  <2>4. Children(job[w]) \subseteq Item
    BY <2>1, ChildrenType DEF Item
  <2>5. Push(frontier, visited, Children(job[w])) \subseteq Item
    BY <2>4, PushBounds DEF TypeOK
  <2>6. TypeOK'
    <3>1. [name |-> job[w].name, depth |-> job[w].depth, dev |-> job[w].dev,
           fetched |-> got[w] = "fetched"] \in Package /\ job[w].name \in Name
      BY <2>1 DEF Item, Package
    <3> QED
      BY <1>4, <2>3, <2>5, <3>1 DEF Settle, Awake, TypeOK
  <2>7. ActiveCounts'
    BY <1>4, <2>3 DEF Settle, ActiveCounts
  <2>8. Holding'
    BY <1>4, <2>2 DEF Settle, Holding, TypeOK, Busy
  <2>9. AtRest'
    BY <1>4 DEF Settle, AtRest, Walking, AllExited
  <2> QED
    BY <2>6, <2>7, <2>8, <2>9
<1>5. CASE Return \/ Merge
  <2>1. Result \subseteq Package
    BY DEF Result, TypeOK
  <2>2. Tag(Result, FALSE) \subseteq Listed /\ Tag({i \in Result : i.name \notin Names(tree)}, TRUE) \subseteq Listed
    BY <2>1, TagType
  <2>3. TypeOK'
    BY <1>5, <2>2 DEF Return, Merge, TypeOK, walk, workers
  <2> QED
    BY <1>5, <2>3 DEF Return, Merge, walk, workers, Holding, ActiveCounts, AtRest, AllExited, Busy
<1>6. ASSUME NEW T \in Targets, AddPackages(T) PROVE Core'
  <2>1. T \subseteq Name
    BY EnvironmentAssumption DEF Targets
  <2>2. TypeOK'
    BY <1>6, <2>1, SeedType DEF AddPackages, TypeOK
  <2>3. Busy' = {}
    BY <1>6 DEF AddPackages, Busy
  <2> QED
    BY <1>6, <2>2, <2>3, FS_EmptySet DEF AddPackages, Holding, ActiveCounts, AtRest, Walking
<1>7. CASE NoSecondStage
  BY <1>7 DEF NoSecondStage, walk, workers, TypeOK, Holding, ActiveCounts, AtRest, AllExited, Walking, Busy
<1>8. CASE UNCHANGED vars
  BY <1>8 DEF vars, walk, workers, TypeOK, Holding, ActiveCounts, AtRest, AllExited, Walking, Busy
<1> QED
  BY <1>1, <1>2, <1>3, <1>4, <1>5, <1>6, <1>7, <1>8 DEF Next, Step, Driver, Finished

\* The installer's state is well typed, and the counter that decides when the
\* walk is over counts exactly the fetching workers, for every pool and graph.
THEOREM TypeCorrect == Spec => [](TypeOK /\ ActiveCounts)
<1>1. Core => TypeOK /\ ActiveCounts
  BY DEF Core
<1> QED
  BY <1>1, CoreInit, CoreStep, PTL DEF Spec

-----------------------------------------------------------------------------
(* Which names are where *)

\* With types, the counter is zero exactly when nobody is fetching.
LEMMA NobodyFetching == Core => (active = 0 <=> Busy = {})
BY BusyFinite, FS_EmptySet DEF Core, ActiveCounts

\* The names of a package set with one more package.
LEMMA NamesAdd ==
  ASSUME NEW S, NEW p
  PROVE  Names(S \cup {p}) = Names(S) \cup {p.name}
BY DEF Names

\* A step that leaves the walk's variables, the jobs and the set of busy
\* workers alone leaves every name where it is.
LEMMA NamesStay ==
  ASSUME Walk, UNCHANGED <<root, frontier, visited, installed, failed, job>>, Busy' = Busy
  PROVE  ClaimedOnce' /\ Queued' /\ InstalledFinite' /\ Capped' = Capped
<1>1. InFlight' = InFlight /\ Names(installed') = Names(installed)
  BY DEF InFlight, Names
<1>2. ClaimedOnce'
  BY <1>1 DEF Walk, ClaimedOnce
<1>3. Queued'
  BY DEF Walk, Queued
<1> QED
  BY <1>2, <1>3 DEF Walk, InstalledFinite, Capped

LEMMA WalkInit == Init => Walk
<1> SUFFICES ASSUME Init PROVE Walk
    OBVIOUS
<1>1. Busy = {}
  BY DEF Init, Busy
<1>2. ClaimedOnce
  BY <1>1 DEF Init, ClaimedOnce, InFlight, Names
<1>3. NoEarlyEnd /\ NoLostWakeup /\ Leaving /\ Queued
  BY DEF Init, NoEarlyEnd, NoLostWakeup, Leaving, Queued
<1>4. InstalledFinite
  BY FS_EmptySet DEF Init, InstalledFinite
<1> QED
  BY <1>2, <1>3, <1>4 DEF Walk

\* A claim moves one unvisited name into flight.
LEMMA ClaimKeepsWalk ==
  ASSUME Core, Walk, NEW w \in Worker, Claim(w)
  PROVE  Walk'
<1>1. PICK i \in frontier : /\ Best(i)
                            /\ frontier' = frontier \ {i}
                            /\ visited' = visited \cup {i.name}
                            /\ job' = [job EXCEPT ![w] = i]
  BY DEF Claim
<1>2. Claimable(i) /\ i.name \notin visited
  BY <1>1 DEF Best, Claimable
<1>3. w \notin Busy /\ Busy' = Busy \cup {w}
  BY DEF Claim, Core, TypeOK, Busy
<1>4. job'[w] = i /\ \A v \in Busy : job'[v] = job[v]
  BY <1>1, <1>3 DEF Core, TypeOK, Busy
<1>5. InFlight' = InFlight \cup {i.name}
  BY <1>3, <1>4 DEF InFlight
<1>6. installed' = installed /\ failed' = failed /\ root' = root /\ ~done /\ done' = done
  BY DEF Claim
<1>7. Names(installed') = Names(installed)
  BY <1>6 DEF Names
<1>8. ClaimedOnce'
  <2>1. visited' = InFlight' \cup Names(installed') \cup failed'
    BY <1>1, <1>5, <1>6, <1>7 DEF Walk, ClaimedOnce
  <2>2. \A v \in Busy : job[v].name # i.name
    BY <1>2 DEF Walk, ClaimedOnce, InFlight
  <2>3. \A u, v \in Busy' : job'[u].name = job'[v].name => u = v
    BY <1>3, <1>4, <2>2 DEF Walk, ClaimedOnce
  <2>4. InFlight' \cap (Names(installed') \cup failed') = {}
    BY <1>2, <1>5, <1>6, <1>7 DEF Walk, ClaimedOnce
  <2> QED
    BY <1>6, <1>7, <2>1, <2>3, <2>4 DEF Walk, ClaimedOnce
<1>9. \A v \in Worker : pc[v] # "waiting"
  BY <1>1, <1>2 DEF Walk, NoLostWakeup
<1>10. NoEarlyEnd' /\ NoLostWakeup'
  BY <1>6, <1>9 DEF Claim, NoEarlyEnd, NoLostWakeup, Core, TypeOK
<1>11. Leaving' /\ InstalledFinite'
  BY <1>6 DEF Claim, Walk, Leaving, InstalledFinite, Capped, Core, TypeOK
<1>12. Queued'
  BY <1>1, <1>6 DEF Walk, Queued
<1> QED
  BY <1>8, <1>10, <1>11, <1>12 DEF Walk

\* Ending the walk, falling asleep and leaving disturb only the workers.
LEMMA IdleStepsKeepWalk ==
  ASSUME Core, Walk, NEW w \in Worker, EndWalk(w) \/ Sleep(w) \/ Exit(w)
  PROVE  Walk'
<1>1. UNCHANGED <<root, frontier, visited, installed, failed, job>>
  BY DEF EndWalk, Sleep, Exit, walk
<1>2. Busy' = Busy
  BY DEF EndWalk, Sleep, Exit, Awake, Core, TypeOK, Busy
<1>3. ClaimedOnce' /\ Queued' /\ InstalledFinite'
  BY <1>1, <1>2, NamesStay
<1>4. Capped' = Capped /\ \A i \in frontier : Claimable(i)' = Claimable(i)
  BY <1>1 DEF Capped, Claimable
<1>5. CASE EndWalk(w)
  <2>1. Busy = {} /\ \A i \in frontier : ~Claimable(i)
    BY <1>5, NobodyFetching DEF EndWalk
  <2>2. done' /\ \A v \in Worker : pc'[v] # "waiting"
    BY <1>5 DEF EndWalk, Awake, Core, TypeOK
  <2> QED
    BY <1>1, <1>2, <1>3, <1>4, <2>1, <2>2 DEF Walk, NoEarlyEnd, NoLostWakeup, Leaving
<1>6. CASE Sleep(w)
  <2>1. Busy # {} /\ \A i \in frontier : ~Claimable(i)
    BY <1>6, NobodyFetching DEF Sleep
  <2>2. ~done /\ done' = done /\ \A v \in Worker : pc'[v] = "exited" => pc[v] = "exited"
    BY <1>6 DEF Sleep, walk, Core, TypeOK
  <2> QED
    BY <1>1, <1>2, <1>3, <1>4, <2>1, <2>2 DEF Walk, NoEarlyEnd, NoLostWakeup, Leaving
<1>7. CASE Exit(w)
  <2>1. done' = done /\ (done \/ Capped)
    BY <1>7 DEF Exit, walk
  <2>2. \A v \in Worker : /\ pc'[v] = "waiting" => pc[v] = "waiting"
                          /\ pc'[v] = "exited" => pc[v] = "exited" \/ v = w
    BY <1>7 DEF Exit, Core, TypeOK
  <2> QED
    BY <1>1, <1>2, <1>3, <1>4, <2>1, <2>2 DEF Walk, NoEarlyEnd, NoLostWakeup, Leaving
<1> QED
  BY <1>5, <1>6, <1>7

\* A fetch disturbs nothing the workers share under the mutex.
LEMMA MaterializeKeepsWalk ==
  ASSUME Core, Walk, NEW w \in Worker, Materialize(w)
  PROVE  Walk'
<1>1. UNCHANGED <<walk, job>>
  BY DEF Materialize
<1>2. Busy' = Busy /\ \A v \in Worker : /\ pc'[v] = "waiting" => pc[v] = "waiting"
                                        /\ pc'[v] = "exited" => pc[v] = "exited"
  BY DEF Materialize, Core, TypeOK, Busy
<1>3. ClaimedOnce' /\ Queued' /\ InstalledFinite' /\ Capped' = Capped
  BY <1>1, <1>2, NamesStay DEF walk
<1>4. NoEarlyEnd' /\ NoLostWakeup' /\ Leaving'
  BY <1>1, <1>2, <1>3 DEF walk, Walk, NoEarlyEnd, NoLostWakeup, Leaving, Claimable
<1> QED
  BY <1>3, <1>4 DEF Walk

\* A finished fetch moves its name out of flight, into one of two places.
LEMMA SettleKeepsWalk ==
  ASSUME Core, Walk, NEW w \in Worker, Settle(w)
  PROVE  Walk'
<1> DEFINE n == job[w].name
<1> DEFINE p == [name |-> job[w].name, depth |-> job[w].depth, dev |-> job[w].dev,
                 fetched |-> got[w] = "fetched"]
<1>1. w \in Busy /\ Busy' = Busy \ {w}
  BY DEF Settle, Awake, Core, TypeOK, Busy
<1>2. \A v \in Busy' : job'[v] = job[v]
  BY <1>1 DEF Settle, Core, TypeOK, Busy
<1>3. n \in InFlight /\ InFlight' = InFlight \ {n}
  BY <1>1, <1>2 DEF InFlight, Walk, ClaimedOnce
<1>4. visited' = visited /\ root' = root /\ done' = done
  BY DEF Settle
<1>5. \/ /\ failed' = failed \cup {n} /\ installed' = installed /\ frontier' = frontier
      \/ /\ failed' = failed /\ installed' = installed \cup {p}
         /\ frontier' = Push(frontier, visited, Children(job[w]))
  BY DEF Settle
<1>6. \/ failed' = failed \cup {n} /\ Names(installed') = Names(installed)
      \/ failed' = failed /\ Names(installed') = Names(installed) \cup {n}
  <2>1. p.name = n
    OBVIOUS
  <2> HIDE DEF p, n
  <2>2. Names(installed \cup {p}) = Names(installed) \cup {n}
    BY <2>1, NamesAdd
  <2> QED
    BY <1>5, <2>2
<1>7. n \notin Names(installed) /\ n \notin failed
  BY <1>3 DEF Walk, ClaimedOnce
<1>8. ClaimedOnce'
  <2>1. visited' = InFlight' \cup Names(installed') \cup failed'
    BY <1>3, <1>4, <1>6 DEF Walk, ClaimedOnce
  <2>2. \A u, v \in Busy' : job'[u].name = job'[v].name => u = v
    BY <1>1, <1>2 DEF Walk, ClaimedOnce
  <2>3. \A i, j \in installed' : i.name = j.name => i = j
    BY <1>5, <1>7 DEF Walk, ClaimedOnce, Names
  <2>4. InFlight' \cap (Names(installed') \cup failed') = {}
    BY <1>3, <1>6 DEF Walk, ClaimedOnce
  <2>5. Names(installed') \cap failed' = {}
    BY <1>6, <1>7 DEF Walk, ClaimedOnce
  <2> QED
    BY <2>1, <2>2, <2>3, <2>4, <2>5 DEF ClaimedOnce
<1>9. ~done /\ \A v \in Worker : pc'[v] # "waiting"
  BY <1>1 DEF Settle, Awake, Walk, NoEarlyEnd, Core, TypeOK
<1>10. NoEarlyEnd' /\ NoLostWakeup'
  BY <1>4, <1>9 DEF NoEarlyEnd, NoLostWakeup
<1>11. InstalledFinite' /\ (Capped => Capped')
  <2>1. IsFiniteSet(installed) /\ Cardinality(installed) \in Nat
    BY FS_CardinalityType DEF Walk, InstalledFinite
  <2>2. /\ IsFiniteSet(installed \cup {p})
        /\ Cardinality(installed \cup {p}) \in Nat
        /\ Cardinality(installed \cup {p}) >= Cardinality(installed)
    <3> HIDE DEF p
    <3>1. /\ IsFiniteSet(installed \cup {p})
          /\ \/ Cardinality(installed \cup {p}) = Cardinality(installed)
             \/ Cardinality(installed \cup {p}) = Cardinality(installed) + 1
      BY <2>1, FS_AddElement
    <3> QED
      BY <2>1, <3>1
  <2>3. installed' = installed \/ installed' = installed \cup {p}
    BY <1>5
  <2> QED
    BY <2>1, <2>2, <2>3, LimitAssumption, SMTT(20) DEF InstalledFinite, Capped
<1>12. Leaving'
  <2>1. \A v \in Worker : pc'[v] = "exited" => pc[v] = "exited"
    BY DEF Settle, Awake, Core, TypeOK
  <2> QED
    BY <1>4, <1>11, <2>1 DEF Walk, Leaving
<1>13. Queued'
  <2>1. Children(p) = Children(job[w])
    BY DEF Children
  <2>2. frontier \subseteq frontier'
    BY <1>5, PushBounds
  <2>3. CASE installed' = installed
    BY <1>4, <2>2, <2>3 DEF Walk, Queued
  <2>4. CASE /\ installed' = installed \cup {p}
             /\ frontier' = Push(frontier, visited, Children(job[w]))
    <3>1. \A i \in Children(p) :
            i.name \in visited \/ \E j \in frontier' : j.name = i.name /\ j.depth = i.depth
      BY <2>1, <2>4, PushQueues
    <3> QED
      BY <1>4, <2>2, <2>4, <3>1 DEF Walk, Queued
  <2> QED
    BY <1>5, <2>3, <2>4
<1> QED
  BY <1>8, <1>10, <1>11, <1>12, <1>13 DEF Walk

LEMMA WalkStep == Core /\ Walk /\ [Next]_vars => Walk'
<1> SUFFICES ASSUME Core, Walk, [Next]_vars PROVE Walk'
    OBVIOUS
<1>1. ASSUME NEW w \in Worker, Step(w) PROVE Walk'
  BY <1>1, ClaimKeepsWalk, IdleStepsKeepWalk, MaterializeKeepsWalk, SettleKeepsWalk DEF Step
<1>2. CASE UNCHANGED <<walk, workers>>
  <2>1. Busy' = Busy
    BY <1>2 DEF workers, Busy
  <2>2. ClaimedOnce' /\ Queued' /\ InstalledFinite' /\ Capped' = Capped
    BY <1>2, <2>1, NamesStay DEF walk, workers
  <2>3. NoEarlyEnd' /\ NoLostWakeup' /\ Leaving'
    BY <1>2, <2>1, <2>2 DEF walk, workers, Walk, NoEarlyEnd, NoLostWakeup, Leaving, Claimable
  <2> QED
    BY <2>2, <2>3 DEF Walk
<1>3. ASSUME NEW T \in Targets, AddPackages(T) PROVE Walk'
  <2>1. Busy' = {} /\ installed' = {} /\ failed' = {} /\ visited' = {} /\ ~done'
    BY <1>3 DEF AddPackages, Busy
  <2>2. ClaimedOnce'
    BY <2>1 DEF ClaimedOnce, InFlight, Names
  <2>3. NoEarlyEnd' /\ NoLostWakeup' /\ Leaving' /\ Queued'
    BY <1>3, <2>1 DEF AddPackages, NoEarlyEnd, NoLostWakeup, Leaving, Queued
  <2>4. InstalledFinite'
    BY <2>1, FS_EmptySet DEF InstalledFinite
  <2> QED
    BY <2>2, <2>3, <2>4 DEF Walk
<1> QED
  BY <1>1, <1>2, <1>3 DEF Next, Driver, Return, NoSecondStage, Merge, Finished, vars

LEMMA InductiveInvariant == Spec => []IInv
<1>1. Init => IInv
  BY CoreInit, WalkInit DEF IInv
<1>2. IInv /\ [Next]_vars => IInv'
  BY CoreStep, WalkStep DEF IInv
<1> QED
  BY <1>1, <1>2, PTL DEF Spec

\* No package is fetched twice or lost: in every interleaving each claimed name
\* is in flight with one worker, installed once, or reported as failed.
THEOREM ClaimsAreExclusive == Spec => []ClaimedOnce
<1>1. IInv => ClaimedOnce
  BY DEF IInv, Walk
<1> QED
  BY <1>1, InductiveInvariant, PTL

\* Termination detection is sound: done is only set when no fetch can still
\* contribute work and nothing claimable is left.
THEOREM TerminationDetection == Spec => []NoEarlyEnd
<1>1. IInv => NoEarlyEnd
  BY DEF IInv, Walk
<1> QED
  BY <1>1, InductiveInvariant, PTL

\* The condition variable is used soundly: a sleeping worker always has a
\* fetching worker to wake it, and leaves no claimable work behind.
THEOREM WakeupsAreNotLost == Spec => []NoLostWakeup
<1>1. IInv => NoLostWakeup
  BY DEF IInv, Walk
<1> QED
  BY <1>1, InductiveInvariant, PTL

\* A walk whose workers have all left below the cap is closed.
LEMMA ReturnedClosed == IInv => ClosedWalk
<1> SUFFICES ASSUME IInv, Walking, AllExited, ~Capped,
                    NEW i \in root \cup UNION {Children(p) : p \in installed},
                    i.depth <= PeerMaxDepth
             PROVE  i.name \in Names(installed) \cup failed
  BY DEF ClosedWalk
<1>1. done
  BY WorkerAssumption DEF IInv, Walk, Leaving, AllExited
<1>2. Busy = {} /\ \A j \in frontier : ~Claimable(j)
  BY <1>1 DEF IInv, Walk, NoEarlyEnd
<1>3. i.name \in visited
  BY <1>2 DEF IInv, Walk, Queued, Claimable
<1>4. InFlight = {}
  BY <1>2 DEF InFlight
<1> QED
  BY <1>3, <1>4 DEF IInv, Walk, ClaimedOnce

\* A walk that returns below the cap has followed every dependency within its
\* depth limits.
THEOREM ReturnedWalkIsClosed == Spec => []ClosedWalk
BY ReturnedClosed, InductiveInvariant, PTL

-----------------------------------------------------------------------------
(* The cap and the merged tree *)

LEMMA CapStep == IInv /\ IInv' /\ CapOverrun /\ [Next]_vars => CapOverrun'
<1> SUFFICES ASSUME IInv, IInv', CapOverrun, [Next]_vars PROVE CapOverrun'
    OBVIOUS
<1>1. /\ Cardinality(Worker) \in Nat \ {0} /\ MaxPkgs \in Nat /\ active' \in Nat /\ active \in Nat
      /\ active' <= Cardinality(Worker)
      /\ IsFiniteSet(installed) /\ Cardinality(installed) \in Nat
  <2>1. Cardinality(Worker) # 0
    BY WorkerAssumption, FS_EmptySet
  <2>2. Core /\ Core' /\ InstalledFinite
    BY DEF IInv, Walk
  <2>3. active' <= Cardinality(Worker) /\ Cardinality(Worker) \in Nat
    <3>1. Busy' \subseteq Worker
      BY DEF Busy
    <3> QED
      BY <2>2, <3>1, WorkerAssumption, FS_Subset, FS_CardinalityType DEF Core, ActiveCounts
  <2> QED
    BY <2>1, <2>2, <2>3, LimitAssumption, FS_CardinalityType DEF Core, TypeOK, InstalledFinite
<1>2. ASSUME NEW w \in Worker, Claim(w) PROVE CapOverrun'
  <2>1. installed' = installed /\ Cardinality(installed) < MaxPkgs
    BY <1>1, <1>2 DEF Claim, Capped
  <2> QED
    BY <1>1, <2>1 DEF CapOverrun
<1>3. ASSUME NEW w \in Worker, Settle(w) PROVE CapOverrun'
  <2>1. active' = active - 1 /\ (installed' = installed \/ \E p : installed' = installed \cup {p})
    BY <1>3 DEF Settle
  <2>2. ASSUME NEW p
        PROVE  /\ Cardinality(installed \cup {p}) \in Nat
               /\ Cardinality(installed \cup {p}) <= Cardinality(installed) + 1
    BY <1>1, FS_AddElement
  <2>3. CASE installed' = installed
    BY <1>1, <2>1, <2>3 DEF CapOverrun
  <2>4. ASSUME NEW p, installed' = installed \cup {p} PROVE CapOverrun'
    <3>1. /\ Cardinality(installed') \in Nat
          /\ Cardinality(installed') <= Cardinality(installed) + 1
      BY <2>2, <2>4
    <3>2. active' = active - 1
      BY <2>1
    <3> QED
      BY <1>1, <3>1, <3>2 DEF CapOverrun
  <2> QED
    BY <2>1, <2>3, <2>4
<1>4. ASSUME NEW T \in Targets, AddPackages(T) PROVE CapOverrun'
  BY <1>1, <1>4, FS_EmptySet DEF AddPackages, CapOverrun
<1>5. CASE UNCHANGED <<installed, active>>
  BY <1>5 DEF CapOverrun
<1> QED
  BY <1>2, <1>3, <1>4, <1>5
     DEF Next, Step, EndWalk, Sleep, Exit, Materialize, Driver, Return, NoSecondStage, Merge,
         Finished, vars, walk

\* Whatever the schedule, a walk overruns its package cap by less than the
\* number of workers.
THEOREM CapOverrunIsBounded == Spec => []CapOverrun
<1>1. Init => CapOverrun
  <2> SUFFICES ASSUME Init PROVE CapOverrun
    OBVIOUS
  <2>1. Cardinality(Worker) \in Nat \ {0}
    BY WorkerAssumption, FS_EmptySet, FS_CardinalityType
  <2>2. Cardinality(installed) = 0 /\ active = 0
    BY FS_EmptySet DEF Init
  <2> QED
    BY <2>1, <2>2, LimitAssumption DEF CapOverrun
<1> QED
  BY <1>1, CapStep, InductiveInvariant, PTL DEF Spec

LEMMA FlatStep == IInv /\ TreeIsFlat /\ [Next]_vars => TreeIsFlat'
<1> SUFFICES ASSUME IInv, TreeIsFlat, [Next]_vars PROVE TreeIsFlat'
    OBVIOUS
<1>1. \A S : \A b : S \subseteq installed =>
        \A i, j \in Tag(S, b) : i.name = j.name => i = j
  BY DEF Tag, IInv, Walk, ClaimedOnce
<1>2. CASE Return
  BY <1>1, <1>2 DEF Return, Result, TreeIsFlat
<1>3. CASE Merge
  <2> DEFINE S == {i \in Result : i.name \notin Names(tree)}
  <2>1. S \subseteq installed
    BY DEF Result
  <2>2. \A i \in Tag(S, TRUE) : i.name \notin Names(tree)
    <3>1. \A p \in S : p.name \notin Names(tree)
      OBVIOUS
    <3> HIDE DEF S
    <3> QED
      BY <3>1 DEF Tag
  <2>3. tree' = tree \cup Tag(S, TRUE)
    BY <1>3 DEF Merge
  <2>4. \A i, j \in Tag(S, TRUE) : i.name = j.name => i = j
    <3> HIDE DEF S
    <3> QED
      BY <1>1, <2>1
  <2>5. \A i \in tree, j \in Tag(S, TRUE) : i.name # j.name
    BY <2>2 DEF Names
  <2> HIDE DEF S
  <2> QED
    BY <2>3, <2>4, <2>5 DEF TreeIsFlat
<1>4. CASE tree' = tree
  BY <1>4 DEF TreeIsFlat
<1> QED
  BY <1>2, <1>3, <1>4
     DEF Next, Step, Claim, EndWalk, Sleep, Exit, Materialize, Settle, Driver, AddPackages,
         NoSecondStage, Finished, vars

\* The merged result of the two walks lists every package name once.
THEOREM MergedTreeIsFlat == Spec => []TreeIsFlat
<1>1. Init => TreeIsFlat
  BY DEF Init, TreeIsFlat
<1> QED
  BY <1>1, FlatStep, InductiveInvariant, PTL DEF Spec

\* The workers agree, at every step, on who is busy, when to sleep and when the
\* walk is over.
THEOREM PoolAlwaysAgrees == Spec => []PoolAgrees
<1>1. IInv => PoolAgrees
  BY DEF IInv, Core, Walk, PoolAgrees
<1> QED
  BY <1>1, InductiveInvariant, PTL

-----------------------------------------------------------------------------
(* The caps of what the walks return *)

\* The packages a package is sorted after.
Sooner(i) == {j \in installed : Before(j, i)}

\* The order of the final sort is strict and total on what is installed, since
\* no two installed packages share a name.
LEMMA SortIsTotal ==
  ASSUME IInv, NEW i \in installed, NEW k \in installed, i # k
  PROVE  \/ Before(i, k) /\ Sooner(i) \subseteq Sooner(k) \ {i}
         \/ Before(k, i) /\ Sooner(k) \subseteq Sooner(i) \ {k}
<1>1. /\ installed \subseteq Package
      /\ i.name # k.name
  BY DEF IInv, Core, TypeOK, Walk, ClaimedOnce
<1>2. \A j \in installed : j.name \in Nat /\ j.depth \in Nat
  BY <1>1, NameAssumption DEF Package
<1>3. Before(i, k) \/ Before(k, i)
  BY <1>1, <1>2 DEF Before
<1>4. \A p, q, r \in installed : Before(p, q) /\ Before(q, r) => Before(p, r)
  BY <1>2 DEF Before
<1>5. \A p \in installed : ~Before(p, p)
  BY <1>2 DEF Before
<1> QED
  BY <1>3, <1>4, <1>5 DEF Sooner

\* Packages that the sort tells apart have different numbers before them.
LEMMA RanksDiffer ==
  ASSUME IInv, NEW i \in installed, NEW k \in installed,
         Before(i, k), Sooner(i) \subseteq Sooner(k) \ {i}
  PROVE  Cardinality(Sooner(i)) # Cardinality(Sooner(k))
<1>1. IsFiniteSet(Sooner(k)) /\ i \in Sooner(k) /\ Sooner(i) \in SUBSET Sooner(k)
  BY FS_Subset DEF Sooner, IInv, Walk, InstalledFinite
<1> QED
  BY <1>1, FS_Subset

\* The sort and truncation that end a walk leave at most MaxPkgs packages,
\* because the number of packages before each is different.
LEMMA ResultBounded ==
  ASSUME IInv
  PROVE  IsFiniteSet(Result) /\ Cardinality(Result) <= MaxPkgs
<1> DEFINE rank == [i \in Result |-> Cardinality(Sooner(i))]
<1>1. Result = {i \in installed : Cardinality(Sooner(i)) < MaxPkgs}
  BY DEF Result, Sooner
<1>2. \A i \in installed : Cardinality(Sooner(i)) \in Nat
  BY FS_Subset, FS_CardinalityType DEF Sooner, IInv, Walk, InstalledFinite
<1>3. rank \in [Result -> 0..(MaxPkgs - 1)]
  BY <1>1, <1>2, LimitAssumption
<1>4. \A i, k \in Result : i # k => Cardinality(Sooner(i)) # Cardinality(Sooner(k))
  BY <1>1, SortIsTotal, RanksDiffer
<1>5. rank \in Injection(Result, 0..(MaxPkgs - 1))
  BY <1>3, <1>4 DEF Injection, IsInjective
<1>6. IsFiniteSet(0..(MaxPkgs - 1)) /\ Cardinality(0..(MaxPkgs - 1)) = MaxPkgs
  BY LimitAssumption, FS_Interval
<1> QED
  BY <1>5, <1>6, FS_Injection

\* Tagging some of the packages of a walk's result adds none.
LEMMA TagBounded ==
  ASSUME IInv, NEW S \in SUBSET Result, NEW b
  PROVE  /\ IsFiniteSet(Tag(S, b)) /\ Cardinality(Tag(S, b)) \in Nat
         /\ Cardinality(Tag(S, b)) <= MaxPkgs
<1> DEFINE tag == [i \in S |-> [name |-> i.name, depth |-> i.depth, dev |-> i.dev,
                               fetched |-> i.fetched, runtime |-> b]]
<1>1. tag \in Surjection(S, Tag(S, b))
  BY DEF Tag, Surjection
<1>2. /\ IsFiniteSet(S) /\ Cardinality(S) \in Nat /\ Cardinality(Result) \in Nat
      /\ Cardinality(S) <= Cardinality(Result) /\ Cardinality(Result) <= MaxPkgs
  BY ResultBounded, FS_Subset, FS_CardinalityType
<1>3. IsFiniteSet(Tag(S, b)) /\ Cardinality(Tag(S, b)) <= Cardinality(S)
  BY <1>1, <1>2, FS_Surjection
<1>4. Cardinality(Tag(S, b)) \in Nat
  BY <1>3, FS_CardinalityType
<1> QED
  BY <1>2, <1>3, <1>4, LimitAssumption

\* What the tree holds at each stage: nothing before the first walk returns, its
\* result until the second one does.
StagedCaps ==
  /\ IsFiniteSet(tree)
  /\ stage = "build" => tree = {}
  /\ stage \in {"built", "second"} => Cardinality(tree) <= MaxPkgs
  /\ Cardinality(tree) <= 2 * MaxPkgs

LEMMA StagedCapsStep == IInv /\ StagedCaps /\ [Next]_vars => StagedCaps'
<1> SUFFICES ASSUME IInv, StagedCaps, [Next]_vars PROVE StagedCaps'
    OBVIOUS
<1>0. MaxPkgs \in Nat /\ Cardinality(tree) \in Nat
  BY LimitAssumption, FS_CardinalityType DEF StagedCaps
<1>1. CASE Return
  <2>1. tree' = Tag(Result, FALSE) /\ stage' = "built"
    BY <1>1 DEF Return
  <2>2. IsFiniteSet(tree') /\ Cardinality(tree') \in Nat /\ Cardinality(tree') <= MaxPkgs
    BY <2>1, TagBounded
  <2>3. Cardinality(tree') <= 2 * MaxPkgs
    BY <1>0, <2>2
  <2> QED
    BY <2>1, <2>2, <2>3 DEF StagedCaps
<1>2. CASE Merge
  <2> DEFINE more == Tag({i \in Result : i.name \notin Names(tree)}, TRUE)
  <2>1. tree' = tree \cup more /\ stage = "second" /\ stage' = "done"
    BY <1>2 DEF Merge
  <2>2. IsFiniteSet(more) /\ Cardinality(more) \in Nat /\ Cardinality(more) <= MaxPkgs
    BY TagBounded
  <2> HIDE DEF more
  <2>3. /\ IsFiniteSet(tree \cup more)
        /\ Cardinality(tree \cup more) = Cardinality(tree) + Cardinality(more) - Cardinality(tree \cap more)
    BY <2>2, FS_Union DEF StagedCaps
  <2>4. Cardinality(tree \cap more) \in Nat
    BY <2>2, FS_Intersection, FS_CardinalityType DEF StagedCaps
  <2>5. Cardinality(tree) <= MaxPkgs
    BY <2>1 DEF StagedCaps
  <2>6. Cardinality(tree') <= 2 * MaxPkgs
    BY <1>0, <2>1, <2>2, <2>3, <2>4, <2>5
  <2> QED
    BY <2>1, <2>3, <2>6 DEF StagedCaps
<1>3. CASE (\E T \in Targets : AddPackages(T)) \/ NoSecondStage
  BY <1>3 DEF AddPackages, NoSecondStage, StagedCaps
<1>4. CASE UNCHANGED <<stage, tree>>
  BY <1>4 DEF StagedCaps
<1> QED
  BY <1>1, <1>2, <1>3, <1>4
     DEF Next, Step, Claim, EndWalk, Sleep, Exit, Materialize, Settle, Driver, Finished, vars

\* The first walk adds at most MaxPkgs packages to the report and the second as
\* many again, however far the workers overran the cap while fetching.
THEOREM TreeStaysWithinCaps == Spec => []TreeWithinCaps
<1>1. Init => StagedCaps
  <2> SUFFICES ASSUME Init PROVE StagedCaps
    OBVIOUS
  <2> QED
    BY FS_EmptySet, LimitAssumption DEF Init, StagedCaps
<1>2. StagedCaps => TreeWithinCaps
  BY DEF StagedCaps, TreeWithinCaps
<1> QED
  BY <1>1, <1>2, StagedCapsStep, InductiveInvariant, PTL DEF Spec

-----------------------------------------------------------------------------
(* The worker pool implements the abstract walk: DepTree refines FlatInstall *)

\* A package as the abstract walk sees it, and the installed set seen that way.
View(p) == [name |-> p.name, depth |-> p.depth, dev |-> p.dev]
Seen == {View(p) : p \in installed}

\* What the abstract walk is offered, whatever its depth.
Asked == root \cup UNION {Children(g) : g \in Seen}

\* Everything queued or being fetched was asked for by the root or by an
\* installed package.
AskedFor ==
  /\ frontier \subseteq Asked
  /\ \A w \in Busy : job[w] \in Asked
  /\ \A i \in root : i.depth = 1

-----------------------------------------------------------------------------
(* Viewing packages *)

\* The abstract walk and the pool read the graph alike.
LEMMA SameGraph ==
  /\ Flat!Offers = {i \in Asked : i.depth <= PeerMaxDepth}
  /\ Flat!Settled = Names(Seen) \cup failed
BY DEF Flat!Offers, Flat!Settled, Flat!Children, Flat!Items, Flat!Names,
       Asked, Seen, View, Children, Items, Names

\* The view keeps names and children.
LEMMA ViewKeeps ==
  /\ Names(Seen) = Names(installed)
  /\ UNION {Children(g) : g \in Seen} = UNION {Children(p) : p \in installed}
<1>1. \A p : View(p).name = p.name /\ Children(View(p)) = Children(p)
  BY DEF View, Children
<1> QED
  BY <1>1 DEF Seen, Names

\* Installed packages have distinct names, so viewing them loses none.
LEMMA SeenCardinality ==
  ASSUME IInv
  PROVE  Cardinality(Seen) = Cardinality(installed)
<1> DEFINE f == [p \in installed |-> View(p)]
<1>1. f \in Bijection(installed, Seen)
  <2>1. f \in [installed -> Seen] /\ \A g \in Seen : \E p \in installed : f[p] = g
    BY DEF Seen
  <2>2. \A p, q \in installed : f[p] = f[q] => p = q
    BY DEF IInv, Walk, ClaimedOnce, View
  <2> QED
    BY <2>1, <2>2 DEF Bijection, Injection, Surjection, IsInjective
<1>2. ExistsBijection(installed, Seen)
  BY <1>1 DEF ExistsBijection
<1> QED
  BY <1>2, FS_Bijection DEF IInv, Walk, InstalledFinite

-----------------------------------------------------------------------------
(* Everything in flight was asked for *)

LEMMA AskedForInit == Init => AskedFor
BY RootAssumption, SeedType DEF Init, AskedFor, Asked, Busy

LEMMA AskedForStep == IInv /\ AskedFor /\ [Next]_vars => AskedFor'
<1> SUFFICES ASSUME IInv, AskedFor, [Next]_vars PROVE AskedFor'
    OBVIOUS
<1> USE DEF IInv, Core
<1>1. ASSUME NEW w \in Worker, Claim(w) PROVE AskedFor'
  <2>1. PICK i \in frontier : /\ Best(i)
                              /\ frontier' = frontier \ {i}
                              /\ job' = [job EXCEPT ![w] = i]
    BY <1>1 DEF Claim
  <2>2. Asked' = Asked /\ root' = root
    BY <1>1 DEF Claim, Asked, Seen
  <2>3. Busy' = Busy \cup {w} /\ job'[w] = i /\ \A v \in Busy : v # w => job'[v] = job[v]
    BY <1>1, <2>1 DEF Claim, TypeOK, Busy
  <2> QED
    BY <2>1, <2>2, <2>3 DEF AskedFor
<1>2. ASSUME NEW w \in Worker, EndWalk(w) \/ Sleep(w) \/ Exit(w) \/ Materialize(w)
      PROVE  AskedFor'
  <2>1. UNCHANGED <<root, frontier, installed, job>>
    BY <1>2 DEF EndWalk, Sleep, Exit, Materialize, walk
  <2>2. Busy' = Busy
    BY <1>2 DEF EndWalk, Sleep, Exit, Materialize, Awake, TypeOK, Busy
  <2> QED
    BY <2>1, <2>2 DEF AskedFor, Asked, Seen
<1>3. ASSUME NEW w \in Worker, Settle(w) PROVE AskedFor'
  <2>1. Busy' \subseteq Busy /\ root' = root /\ \A v \in Busy' : job'[v] = job[v]
    BY <1>3 DEF Settle, Awake, TypeOK, Busy
  <2>2. CASE frontier' = frontier /\ installed' = installed
    BY <2>1, <2>2 DEF AskedFor, Asked, Seen
  <2>3. ASSUME NEW p, p.name = job[w].name, p.depth = job[w].depth, p.dev = job[w].dev,
               installed' = installed \cup {p},
               frontier' = Push(frontier, visited, Children(job[w]))
        PROVE  AskedFor'
    <3>1. View(p) \in Seen' /\ Seen \subseteq Seen'
      BY <2>3 DEF Seen
    <3>2. Children(View(p)) = Children(job[w])
      BY <2>3 DEF View, Children
    <3>3. Asked \subseteq Asked' /\ Children(job[w]) \subseteq Asked'
      BY <2>1, <3>1, <3>2 DEF Asked
    <3>4. frontier' \subseteq frontier \cup Children(job[w])
      BY <2>3, PushBounds
    <3> QED
      BY <2>1, <3>3, <3>4 DEF AskedFor
  <2> QED
    BY <1>3, <2>2, <2>3 DEF Settle
<1>4. ASSUME NEW T \in Targets, AddPackages(T) PROVE AskedFor'
  <2>1. T \subseteq Name
    BY EnvironmentAssumption DEF Targets
  <2> QED
    BY <1>4, <2>1, SeedType DEF AddPackages, AskedFor, Asked, Busy
<1>5. CASE UNCHANGED <<walk, workers>>
  BY <1>5 DEF walk, workers, AskedFor, Asked, Seen, Busy
<1> QED
  BY <1>1, <1>2, <1>3, <1>4, <1>5 DEF Next, Step, Driver, Return, NoSecondStage, Merge, Finished, vars

-----------------------------------------------------------------------------
(* What is installed was asked for *)

LEMMA JustifiedStep == IInv /\ AskedFor /\ Justified /\ [Next]_vars => Justified'
<1> SUFFICES ASSUME IInv, AskedFor, Justified, [Next]_vars PROVE Justified'
    OBVIOUS
<1> USE DEF IInv, Core
<1>0. Justified <=> \A p \in installed : View(p) \in root \cup UNION {Children(q) : q \in installed}
  BY DEF Justified, View
<1>0a. Justified' <=> \A p \in installed' : View(p) \in root' \cup UNION {Children(q) : q \in installed'}
  BY DEF Justified, View
<1>1. ASSUME NEW w \in Worker, Settle(w) PROVE Justified'
  <2>1. root' = root
    BY <1>1 DEF Settle
  <2>2. CASE installed' = installed
    BY <1>0, <1>0a, <2>1, <2>2
  <2>3. ASSUME NEW p, View(p) = job[w], installed' = installed \cup {p} PROVE Justified'
    <3>1. job[w] \in root \cup UNION {Children(q) : q \in installed}
      BY <1>1, ViewKeeps DEF AskedFor, Asked, Settle, Busy
    <3> QED
      BY <1>0, <1>0a, <2>1, <2>3, <3>1
  <2>4. job[w] = View(job[w])
    BY <1>1 DEF Settle, Busy, Holding, Item, View
  <2> QED
    BY <1>1, <2>2, <2>3, <2>4 DEF Settle, View
<1>2. ASSUME NEW T \in Targets, AddPackages(T) PROVE Justified'
  BY <1>2 DEF AddPackages, Justified
<1>3. CASE UNCHANGED <<root, installed>>
  BY <1>3 DEF Justified
<1> QED
  BY <1>1, <1>2, <1>3
     DEF Next, Step, Claim, EndWalk, Sleep, Exit, Materialize, Driver, Return, NoSecondStage, Merge,
         Finished, vars, walk

\* Every installed package was asked for one level up, the cap is overrun by at
\* most one package for each other worker and never in what is returned, and the
\* merged tree lists a name once.
THEOREM TreesAreJustified == Spec => []TreeOK
<1>1. Init => AskedFor /\ Justified
  BY AskedForInit DEF Init, Justified
<1>2. IInv /\ AskedFor /\ Justified /\ [Next]_vars => AskedFor' /\ Justified'
  BY AskedForStep, JustifiedStep
<1>3. Spec => []Justified
  BY <1>1, <1>2, InductiveInvariant, PTL DEF Spec
<1>4. Justified /\ CapOverrun /\ TreeWithinCaps /\ TreeIsFlat => TreeOK
  BY DEF TreeOK
<1> QED
  BY <1>3, <1>4, CapOverrunIsBounded, TreeStaysWithinCaps, MergedTreeIsFlat, PTL

-----------------------------------------------------------------------------
(* The refinement *)

LEMMA RefinesInit == Init => Flat!Init
BY RootAssumption, SeedType DEF Init, Flat!Init, Flat!Item, Item

\* A settled fetch is an abstract installation or failure.
LEMMA RefinesSettle ==
  ASSUME IInv, AskedFor, NEW w \in Worker, Settle(w)
  PROVE  Flat!Next
<1>0. PICK i : i = job[w]
  OBVIOUS
<1>1. w \in Busy /\ i \in Item /\ i.depth <= PeerMaxDepth /\ i \in Asked
  BY <1>0 DEF Settle, Busy, IInv, Core, Holding, AskedFor
<1>2. i.name \notin Names(Seen) \cup failed
  BY <1>0, <1>1, ViewKeeps DEF IInv, Walk, ClaimedOnce, InFlight
<1>3. i \in Flat!Offers /\ i.name \notin Flat!Settled
  BY <1>1, <1>2, SameGraph
<1>4. stage' = stage /\ stage \notin {"built", "done"}
  BY <1>1 DEF Settle, IInv, Core, AtRest, Walking, AllExited, Busy
<1>5. View(i) = i
  BY <1>1 DEF View, Item
<1>6. \/ Seen' = Seen /\ failed' = failed \cup {i.name}
      \/ Seen' = Seen \cup {i} /\ failed' = failed
  <2>1. CASE installed' = installed /\ failed' = failed \cup {i.name}
    BY <2>1 DEF Seen
  <2>2. ASSUME NEW p, View(p) = View(i), installed' = installed \cup {p}, failed' = failed
        PROVE  Seen' = Seen \cup {i}
    BY <2>2, <1>5 DEF Seen
  <2> QED
    BY <1>0, <2>1, <2>2 DEF Settle, View
<1>7. Flat!Install(i) \/ Flat!GiveUp(i)
  BY <1>3, <1>4, <1>6 DEF Flat!Install, Flat!GiveUp, Seen, View, Settle
<1> QED
  BY <1>3, <1>7 DEF Flat!Next

\* A walk that returns is closed or capped.
LEMMA RefinesReturn ==
  ASSUME IInv, Return \/ Merge
  PROVE  Flat!Next
<1>1. /\ UNCHANGED <<root, installed, failed>>
      /\ stage \notin {"built", "done"} /\ stage' \in {"built", "done"}
      /\ Walking /\ AllExited
  BY DEF Return, Merge, walk, Walking
<1>2. CASE Capped
  <2>1. Flat!Cardinality(Seen) >= MaxPkgs
    BY <1>2, SeenCardinality DEF Capped, Cardinality, Flat!Cardinality
  <2>2. Flat!End
    BY <1>1, <2>1 DEF Flat!End, Seen, View
  <2> QED
    BY <2>2 DEF Flat!Next
<1>3. CASE ~Capped
  <2>1. \A i \in Asked : i.depth <= PeerMaxDepth => i.name \in Names(Seen) \cup failed
    BY <1>1, <1>3, ReturnedClosed, ViewKeeps DEF ClosedWalk, Asked
  <2>2. Flat!Closed
    BY <2>1, SameGraph DEF Flat!Closed
  <2> QED
    BY <1>1, <2>2 DEF Flat!Next, Flat!End
<1> QED
  BY <1>2, <1>3

LEMMA RefinesStep ==
  IInv /\ AskedFor /\ [Next]_vars => [Flat!Next]_(Flat!flatVars)
<1> SUFFICES ASSUME IInv, AskedFor, [Next]_vars
             PROVE  Flat!Next \/ UNCHANGED Flat!flatVars
    OBVIOUS
<1>1. ASSUME NEW w \in Worker,
             Claim(w) \/ EndWalk(w) \/ Sleep(w) \/ Exit(w) \/ Materialize(w)
      PROVE  UNCHANGED Flat!flatVars
  BY <1>1 DEF Claim, EndWalk, Sleep, Exit, Materialize, walk, Flat!flatVars
<1>2. ASSUME NEW T \in Targets, AddPackages(T) PROVE Flat!Next
  <2>1. T \subseteq Name /\ Seed(T, {}) \subseteq Flat!Items(Name, 1, FALSE)
    BY EnvironmentAssumption DEF Targets, Seed, Items, Flat!Items
  <2> QED
    <3>1. stage \in {"built", "done"} /\ (stage \in {"built", "done"})' = FALSE
      BY <1>2 DEF AddPackages
    <3>2. {View(p) : p \in installed}' = {} /\ failed' = {} /\ root' \subseteq Flat!Items(Name, 1, FALSE)
      BY <1>2, <2>1 DEF AddPackages
    <3>3. Flat!Again
      BY <3>1, <3>2 DEF Flat!Again, View
    <3> QED
      BY <3>3 DEF Flat!Next
<1>3. CASE NoSecondStage \/ UNCHANGED vars
  BY <1>3 DEF NoSecondStage, vars, walk, workers, Flat!flatVars
<1> QED
  BY <1>1, <1>2, <1>3, RefinesSettle, RefinesReturn DEF Next, Step, Driver, Finished

\* The concurrent installer, with its mutex, its frontier and its in-flight
\* fetches, is an implementation of the abstract flat walk.
THEOREM Refinement == Spec => ImplementsFlatInstall
<1>1. Init => AskedFor /\ Flat!Init
  BY AskedForInit, RefinesInit
<1>2. IInv /\ AskedFor /\ [Next]_vars => AskedFor'
  BY AskedForStep
<1>3. IInv /\ AskedFor /\ [Next]_vars => [Flat!Next]_(Flat!flatVars)
  BY RefinesStep
<1> QED
  BY <1>1, <1>2, <1>3, InductiveInvariant, PTL DEF Spec, ImplementsFlatInstall, Flat!Spec

-----------------------------------------------------------------------------
(* Induction, stated for sets because a set can be handed to the provers *)

\* A set of natural numbers that is not empty has a least element.
LEMMA LeastOf ==
  ASSUME NEW T \in SUBSET Nat, T # {}
  PROVE  \E m \in T : \A k \in T : m <= k
<1> DEFINE below == {0..n : n \in T}
<1>1. below \subseteq FiniteSubsetsOf(Nat) /\ below # {}
  <2>1. \A n \in T : IsFiniteSet(0..n) /\ 0..n \in SUBSET Nat
    BY FS_Interval
  <2> QED
    BY <2>1 DEF FiniteSubsetsOf
<1>2. PICK x \in below : \A y \in below : <<y, x>> \notin StrictSubsetOrdering(Nat)
  BY <1>1, FS_StrictSubsetOrderingWellFounded, WFMin
<1>3. PICK m \in T : x = 0..m
  BY <1>2
<1>4. ASSUME NEW k \in T, k < m PROVE FALSE
  <2>1. 0..k \in below /\ 0..k \subseteq 0..m /\ m \notin 0..k /\ m \in 0..m
    BY <1>4
  <2>2. <<0..k, 0..m>> \in StrictSubsetOrdering(Nat)
    BY <2>1 DEF StrictSubsetOrdering
  <2> QED
    BY <1>2, <1>3, <2>1, <2>2
<1> QED
  BY <1>4

\* Induction up to n.
LEMMA UpTo ==
  ASSUME NEW S, NEW n \in Nat, 0 \in S, \A i \in 0..(n - 1) : i \in S => i + 1 \in S
  PROVE  0..n \subseteq S
<1> SUFFICES ASSUME ~(0..n \subseteq S) PROVE FALSE
    OBVIOUS
<1> DEFINE T == {i \in 0..n : i \notin S}
<1>1. T \in SUBSET Nat /\ T # {}
  OBVIOUS
<1>2. PICK m \in T : \A k \in T : m <= k
  BY <1>1, LeastOf
<1>3. m # 0 /\ m - 1 \in 0..(n - 1) /\ m - 1 \notin T
  BY <1>2
<1> QED
  BY <1>2, <1>3

-----------------------------------------------------------------------------
(* The levels of the serial walk *)

IsLevels(lost, n, g) ==
  g = [d \in 1..n |-> IF d = 1 THEN FirstLevel(lost) ELSE WithLevel(d, g[d - 1], lost)]

\* The recursion over the levels has a solution.
LEMMA LevelsExist ==
  ASSUME NEW lost, NEW n \in Nat
  PROVE  \E g : IsLevels(lost, n, g)
<1> DEFINE S == {k \in 0..n : \E g : IsLevels(lost, k, g)}
<1>1. 0 \in S
  <2> DEFINE g == [d \in 1..0 |-> {}]
  <2>1. IsLevels(lost, 0, g)
    BY DEF IsLevels
  <2> QED
    BY <2>1
<1>2. ASSUME NEW k \in 0..(n - 1), k \in S PROVE k + 1 \in S
  <2>1. PICK g : IsLevels(lost, k, g)
    BY <1>2
  <2> DEFINE h == [d \in 1..(k + 1) |->
                     IF d <= k THEN g[d] ELSE IF d = 1 THEN FirstLevel(lost) ELSE WithLevel(d, g[d - 1], lost)]
  <2>2. \A d \in 1..(k + 1) : h[d] = IF d = 1 THEN FirstLevel(lost) ELSE WithLevel(d, h[d - 1], lost)
    <3> SUFFICES ASSUME NEW d \in 1..(k + 1)
                 PROVE  h[d] = IF d = 1 THEN FirstLevel(lost) ELSE WithLevel(d, h[d - 1], lost)
        OBVIOUS
    <3>1. \A e \in 1..k : g[e] = IF e = 1 THEN FirstLevel(lost) ELSE WithLevel(e, g[e - 1], lost)
      BY <2>1 DEF IsLevels
    <3>2. d - 1 \in 1..k => h[d - 1] = g[d - 1]
      OBVIOUS
    <3>3. CASE d = k + 1
      BY <3>2, <3>3
    <3>4. CASE d \in 1..k
      BY <3>1, <3>2, <3>4
    <3> QED
      BY <3>3, <3>4
  <2> HIDE DEF h
  <2>3. h = [d \in 1..(k + 1) |-> h[d]]
    BY DEF h
  <2>4. IsLevels(lost, k + 1, h)
    BY <2>2, <2>3 DEF IsLevels
  <2> QED
    BY <2>4
<1>3. 0..n \subseteq S
  <2> HIDE DEF S
  <2> QED
    BY <1>1, <1>2, UpTo
<1> QED
  BY <1>3

LEMMA LevelsAre ==
  ASSUME NEW lost
  PROVE  \E g : IsLevels(lost, PeerMaxDepth, g) /\ Levels(lost) = g[PeerMaxDepth]
<1>1. PeerMaxDepth \in Nat
  BY LimitAssumption
<1>2. \E g : g = [d \in 1..PeerMaxDepth |->
                    IF d = 1 THEN FirstLevel(lost) ELSE WithLevel(d, g[d - 1], lost)]
  BY <1>1, LevelsExist DEF IsLevels
<1> QED
  BY <1>2 DEF Levels, IsLevels

\* What a package asks for.
LEMMA AsksFor ==
  ASSUME NEW p
  PROVE  /\ Names(Children(p)) = (IF p.depth < MaxDepth THEN Deps[p.name] ELSE {}) \cup
                                 (IF p.depth < PeerMaxDepth THEN Peers[p.name] ELSE {})
         /\ \A i \in Children(p) : i.name \in Names(Children(p)) /\ i.depth = p.depth + 1 /\ i.dev = p.dev
         /\ \A n \in Names(Children(p)) : \E i \in Children(p) : i.name = n /\ i.depth = p.depth + 1
<1> DEFINE N == (IF p.depth < MaxDepth THEN Deps[p.name] ELSE {}) \cup
                (IF p.depth < PeerMaxDepth THEN Peers[p.name] ELSE {})
<1>1. Children(p) = [name : N, depth : {p.depth + 1}, dev : {p.dev}]
  BY DEF Children, Items
<1> HIDE DEF N
<1>3. \A i \in Children(p) : i.name \in N /\ i.depth = p.depth + 1 /\ i.dev = p.dev
  BY <1>1
<1>5. ASSUME NEW n \in N PROVE \E i \in Children(p) : i.name = n /\ i.depth = p.depth + 1
  <2>1. PICK i : i = [name |-> n, depth |-> p.depth + 1, dev |-> p.dev]
    OBVIOUS
  <2> QED
    BY <1>1, <2>1
<1>4. Names(Children(p)) = N
  BY <1>3, <1>5 DEF Names
<1>6. /\ \A i \in Children(p) : i.name \in Names(Children(p)) /\ i.depth = p.depth + 1 /\ i.dev = p.dev
      /\ \A n \in Names(Children(p)) : \E i \in Children(p) : i.name = n /\ i.depth = p.depth + 1
  BY <1>3, <1>4, <1>5
<1>7. Names(Children(p)) = (IF p.depth < MaxDepth THEN Deps[p.name] ELSE {}) \cup
                           (IF p.depth < PeerMaxDepth THEN Peers[p.name] ELSE {})
  BY <1>4 DEF N
<1> QED
  BY <1>6, <1>7

\* It asks for finitely many packages.
LEMMA AsksForFew ==
  ASSUME NEW p, p.name \in Name
  PROVE  IsFiniteSet(Names(Children(p))) /\ Names(Children(p)) \subseteq Name
<1>1. /\ IsFiniteSet(Deps[p.name]) /\ IsFiniteSet(Peers[p.name]) /\ IsFiniteSet({})
      /\ Deps[p.name] \subseteq Name /\ Peers[p.name] \subseteq Name
  BY GraphAssumption, FS_EmptySet
<1>2. \A S, T : IsFiniteSet(S) /\ IsFiniteSet(T) => IsFiniteSet(S \cup T)
  BY FS_Union
<1> QED
  BY <1>1, <1>2, AsksFor

\* p is the first package of its level, in the order of claims, to ask for i,
\* which has its taint.
AsksFirst(all, p, i) ==
  /\ p.depth = i.depth - 1 /\ i.name \in Names(Children(p)) /\ i.dev = p.dev
  /\ \A q \in all : q.depth = i.depth - 1 /\ i.name \in Names(Children(q)) => p.name <= q.name

\* The levels 1..d of a serial walk that loses these names.
Layers(all, d, lost) ==
  /\ all \subseteq Item /\ IsFiniteSet(all)
  /\ \A i \in all : i.depth <= d /\ i.name \notin lost
  /\ \A i, j \in all : i.name = j.name => i = j
  /\ \A i \in Seed(RootDeps, RootDevDeps) : i.name \in lost \/ i \in all
  /\ \A p \in all : \A n \in Names(Children(p)) :
       p.depth < d => n \in lost \/ \E j \in all : j.name = n /\ j.depth <= p.depth + 1
  /\ \A i \in all : i.depth = 1 => i \in Seed(RootDeps, RootDevDeps)
  /\ \A i \in all : i.depth # 1 => \E p \in all : AsksFirst(all, p, i)

LEMMA SeedNames ==
  ASSUME NEW S, NEW T, NEW i \in Seed(S, T), NEW j \in Seed(S, T), i.name = j.name
  PROVE  i = j
<1>1. ASSUME NEW N, NEW dev \in BOOLEAN, NEW k \in Items(N, 1, dev)
      PROVE  k = [name |-> k.name, depth |-> 1, dev |-> dev] /\ k.name \in N
  <2>1. k \in [name : N, depth : {1}, dev : {dev}]
    BY <1>1 DEF Items
  <2>2. k.depth = 1 /\ k.dev = dev /\ k.name \in N
    BY <2>1
  <2>3. k = [name |-> k.name, depth |-> k.depth, dev |-> k.dev]
    BY <2>1
  <2> QED
    BY <2>2, <2>3
<1>2. \A k \in Seed(S, T) : \/ k.name \in S /\ k = [name |-> k.name, depth |-> 1, dev |-> FALSE]
                            \/ k.name \notin S /\ k = [name |-> k.name, depth |-> 1, dev |-> TRUE]
  BY <1>1 DEF Seed
<1>3. CASE i.name \in S
  BY <1>2, <1>3
<1>4. CASE i.name \notin S
  BY <1>2, <1>4
<1> QED
  BY <1>3, <1>4

LEMMA SeedFinite == IsFiniteSet(Seed(RootDeps, RootDevDeps))
<1> DEFINE S == Seed(RootDeps, RootDevDeps)
<1> DEFINE f == [i \in S |-> i.name]
<1>1. f \in Injection(S, RootDeps \cup RootDevDeps)
  <2>1. \A i \in S : i.name \in RootDeps \cup RootDevDeps
    BY DEF Seed, Items
  <2>2. \A i, j \in S : i.name = j.name => i = j
    BY SeedNames
  <2> HIDE DEF S
  <2> QED
    BY <2>1, <2>2 DEF Injection, IsInjective
<1>2. IsFiniteSet(RootDeps \cup RootDevDeps)
  BY RootAssumption, FS_Union
<1> QED
  BY <1>1, <1>2, FS_Injection

LEMMA FirstLayer ==
  ASSUME NEW lost
  PROVE  Layers(FirstLevel(lost), 1, lost)
<1> DEFINE S == Seed(RootDeps, RootDevDeps)
<1>1. S \subseteq Item /\ \A i \in S : i.depth = 1
  BY SeedType, RootAssumption
<1>2. FirstLevel(lost) = {i \in S : i.name \notin lost}
  BY DEF FirstLevel
<1>3. IsFiniteSet(FirstLevel(lost))
  BY <1>2, SeedFinite, FS_Subset
<1>4. \A i, j \in S : i.name = j.name => i = j
  BY SeedNames
<1> HIDE DEF S
<1> QED
  BY <1>1, <1>2, <1>3, <1>4 DEF Layers, S

\* Of the packages of a level that ask for n, one has the least name.
LEMMA FirstAskingIs ==
  ASSUME NEW level, \A p \in level : p.name \in Nat,
         NEW n, \E p \in level : n \in Names(Children(p))
  PROVE  /\ FirstAsking(level, n) \in level
         /\ n \in Names(Children(FirstAsking(level, n)))
         /\ \A q \in level : n \in Names(Children(q)) => FirstAsking(level, n).name <= q.name
<1> DEFINE T == {p.name : p \in {q \in level : n \in Names(Children(q))}}
<1>1. T \in SUBSET Nat /\ T # {}
  OBVIOUS
<1>2. PICK m \in T : \A k \in T : m <= k
  BY <1>1, LeastOf
<1>3. PICK p \in level : p.name = m /\ n \in Names(Children(p))
  BY <1>2
<1>4. \A q \in level : n \in Names(Children(q)) => p.name <= q.name
  BY <1>2, <1>3
<1> QED
  BY <1>3, <1>4 DEF FirstAsking

LEMMA NextLayer ==
  ASSUME NEW lost, NEW above, NEW d \in Nat, d >= 2, Layers(above, d - 1, lost)
  PROVE  Layers(WithLevel(d, above, lost), d, lost)
<1> DEFINE last == {p \in above : p.depth = d - 1}
<1> DEFINE wanted == (UNION {Names(Children(p)) : p \in last}) \ (Names(above) \cup lost)
<1> DEFINE I(n) == [name |-> n, depth |-> d, dev |-> FirstAsking(last, n).dev]
<1> DEFINE new == {I(n) : n \in wanted}
<1>1. WithLevel(d, above, lost) = above \cup new
  BY DEF WithLevel
<1>2. /\ above \subseteq Item /\ IsFiniteSet(above)
      /\ \A p \in above : p.name \in Name /\ p.name \in Nat /\ p.depth \in Nat \ {0} /\ p.dev \in BOOLEAN
      /\ \A p \in above : p.depth <= d - 1 /\ p.name \in Names(above)
  BY NameAssumption DEF Layers, Item, Names
<1>3. ASSUME NEW n \in wanted
      PROVE  \E p \in above : /\ n \in Name \ lost /\ n \notin Names(above)
                              /\ I(n) \in Item /\ AsksFirst(above, p, I(n))
  <2>1. PICK p : p = FirstAsking(last, n)
    OBVIOUS
  <2>2. p \in last /\ n \in Names(Children(p)) /\ \A q \in last : n \in Names(Children(q)) => p.name <= q.name
    BY <1>2, <2>1, FirstAskingIs
  <2>3. n \in Name
    BY <1>2, <2>2, AsksForFew
  <2>4. PICK i : i = I(n)
    OBVIOUS
  <2>5. i = [name |-> n, depth |-> d, dev |-> p.dev]
    BY <2>1, <2>4
  <2>6. i \in Item
    BY <1>2, <2>2, <2>3, <2>5 DEF Item
  <2>7. AsksFirst(above, p, i)
    BY <2>2, <2>5 DEF AsksFirst
  <2>8. p \in above /\ n \in Name \ lost /\ n \notin Names(above)
    BY <2>2, <2>3
  <2> HIDE DEF last, wanted, I
  <2> QED
    BY <2>4, <2>6, <2>7, <2>8
<1>4. \A i \in new : /\ i.depth = d /\ i.name \in wanted /\ i = I(i.name)
  <2> TAKE i \in new
  <2> HIDE DEF wanted
  <2>1. PICK n \in wanted : i = I(n)
    OBVIOUS
  <2>2. i.depth = d /\ i.name = n
    BY <2>1
  <2> QED
    BY <2>1, <2>2
<1>5. IsFiniteSet(new)
  <2>1. IsFiniteSet(last)
    BY <1>2, FS_Subset
  <2>2. IsFiniteSet({Names(Children(p)) : p \in last})
    <3> DEFINE f == [p \in last |-> Names(Children(p))]
    <3>1. f \in Surjection(last, {Names(Children(p)) : p \in last})
      BY DEF Surjection
    <3> QED
      BY <2>1, <3>1, FS_Surjection
  <2>3. \A S \in {Names(Children(p)) : p \in last} : IsFiniteSet(S)
    BY <1>2, AsksForFew
  <2>4. IsFiniteSet(UNION {Names(Children(p)) : p \in last})
    BY <2>2, <2>3, FS_UNION
  <2>5. IsFiniteSet(wanted)
    BY <2>4, FS_Subset
  <2> DEFINE g == [n \in wanted |-> I(n)]
  <2>6. g \in Surjection(wanted, new)
    <3> HIDE DEF wanted
    <3> QED
      BY DEF Surjection
  <2> QED
    BY <2>5, <2>6, FS_Surjection
<1>6. \A p \in last : \A n \in Names(Children(p)) : n \in Names(above) \cup lost \cup wanted
  <2> DEFINE U == UNION {Names(Children(p)) : p \in last}
  <2>1. \A p \in last : \A n \in Names(Children(p)) : n \in U
    OBVIOUS
  <2>2. \A n \in U : n \in Names(above) \cup lost \cup wanted
    <3> HIDE DEF U
    <3> QED
      BY DEF wanted, U
  <2> QED
    BY <2>1, <2>2
<1>7. \A n \in wanted : \E i \in new : i.name = n /\ i.depth = d
  <2> TAKE n \in wanted
  <2> HIDE DEF wanted
  <2>1. PICK i : i = I(n)
    OBVIOUS
  <2>2. i \in new /\ i.name = n /\ i.depth = d
    BY <2>1
  <2> HIDE DEF new, I
  <2> QED
    BY <2>2
<1>8. \A n \in Names(above) : \E p \in above : p.name = n
  BY DEF Names
<1> DEFINE all == above \cup new
<1> HIDE DEF last, wanted, I, new
<1>9. all \subseteq Item /\ \A i \in all : i.depth <= d /\ i.name \notin lost
  BY <1>2, <1>3, <1>4 DEF Layers
<1>10. IsFiniteSet(all)
  BY <1>2, <1>5, FS_Union
<1>11. \A i, j \in all : i.name = j.name => i = j
  BY <1>2, <1>3, <1>4 DEF Layers
<1>12. \A i \in Seed(RootDeps, RootDevDeps) : i.name \in lost \/ i \in all
  BY DEF Layers
<1>13. \A p \in all : \A n \in Names(Children(p)) :
         p.depth < d => n \in lost \/ \E j \in all : j.name = n /\ j.depth <= p.depth + 1
  <2> SUFFICES ASSUME NEW p \in all, NEW n \in Names(Children(p)), p.depth < d, n \notin lost
               PROVE  \E j \in all : j.name = n /\ j.depth <= p.depth + 1
      OBVIOUS
  <2>1. p \in above
    BY <1>4
  <2>2. CASE p.depth < d - 1
    BY <2>1, <2>2 DEF Layers
  <2>3. CASE p.depth = d - 1
    <3>1. n \in Names(above) \/ n \in wanted
      BY <1>6, <2>1, <2>3 DEF last
    <3>2. CASE n \in Names(above)
      BY <1>2, <1>8, <2>3, <3>2
    <3>3. CASE n \in wanted
      BY <1>7, <2>3, <3>3
    <3> QED
      BY <3>1, <3>2, <3>3
  <2> QED
    BY <1>2, <2>1, <2>2, <2>3
<1>14. \A i \in all : i.depth = 1 => i \in Seed(RootDeps, RootDevDeps)
  BY <1>4 DEF Layers
<1>15. \A i \in all : i.depth # 1 => \E p \in all : AsksFirst(all, p, i)
  <2> SUFFICES ASSUME NEW i \in all, i.depth # 1 PROVE \E p \in all : AsksFirst(all, p, i)
      OBVIOUS
  <2>1. PICK p \in above : AsksFirst(above, p, i)
    BY <1>3, <1>4 DEF Layers
  <2>2. i.depth <= d /\ i.depth \in Nat
    BY <1>9 DEF Item
  <2>3. \A q \in new : q.depth # i.depth - 1
    BY <1>4, <2>2
  <2>4. AsksFirst(all, p, i)
    BY <2>1, <2>3 DEF AsksFirst
  <2> QED
    BY <2>1, <2>4
<1>16. Layers(all, d, lost)
  <2> HIDE DEF all
  <2> QED
    BY <1>9, <1>10, <1>11, <1>12, <1>13, <1>14, <1>15 DEF Layers
<1> QED
  BY <1>1, <1>16

\* The recursive definition describes a breadth-first walk.
LEMMA LevelsAreLayers ==
  ASSUME NEW lost
  PROVE  Layers(Levels(lost), PeerMaxDepth, lost)
<1>1. PICK g : IsLevels(lost, PeerMaxDepth, g) /\ Levels(lost) = g[PeerMaxDepth]
  BY LevelsAre
<1>2. PeerMaxDepth \in Nat /\ PeerMaxDepth >= 1
  BY LimitAssumption
<1>3. \A d \in 1..PeerMaxDepth :
        g[d] = IF d = 1 THEN FirstLevel(lost) ELSE WithLevel(d, g[d - 1], lost)
  BY <1>1, <1>2 DEF IsLevels
<1> DEFINE S == {k \in 0..PeerMaxDepth : k = 0 \/ Layers(g[k], k, lost)}
<1>4. 0 \in S
  BY <1>2
<1>5. ASSUME NEW k \in 0..(PeerMaxDepth - 1), k \in S PROVE k + 1 \in S
  <2>1. CASE k = 0
    <3>1. g[1] = FirstLevel(lost)
      BY <1>2, <1>3
    <3> QED
      BY <1>2, <2>1, <3>1, FirstLayer
  <2>2. CASE k # 0
    <3>1. k + 1 \in 1..PeerMaxDepth /\ k + 1 # 1 /\ k + 1 >= 2 /\ k + 1 \in Nat /\ k + 1 - 1 = k
      BY <1>2, <2>2
    <3>2. g[k + 1] = WithLevel(k + 1, g[k], lost) /\ Layers(g[k], k, lost)
      BY <1>3, <1>5, <2>2, <3>1
    <3>3. Layers(WithLevel(k + 1, g[k], lost), k + 1, lost)
      BY <3>1, <3>2, NextLayer
    <3> QED
      BY <3>1, <3>2, <3>3
  <2> QED
    BY <2>1, <2>2
<1>6. 0..PeerMaxDepth \subseteq S
  <2> HIDE DEF S
  <2> QED
    BY <1>2, <1>4, <1>5, UpTo
<1> QED
  BY <1>1, <1>2, <1>6

-----------------------------------------------------------------------------
(* Fetches that do not overlap make a serial walk *)

\* At most one worker is fetching.
Lone == \A v, w \in Busy : v = w

\* What is installed comes before what is being fetched, in the order of claims,
\* and what is being fetched before what may be claimed.
InOrder ==
  /\ \A p \in installed :
       /\ \A i \in frontier : Claimable(i) => Before(p, i)
       /\ \A w \in Busy : Before(p, job[w])
  /\ \A w \in Busy : \A i \in frontier : Claimable(i) => Before(job[w], i)

\* Below level 1 a job has the taint of the first package to ask for it.
FirstCome ==
  /\ \A i \in frontier \cup installed : i.depth # 1 => \E q \in installed : AsksFirst(installed, q, i)
  /\ \A w \in Busy : job[w].depth # 1 => \E q \in installed : AsksFirst(installed, q, job[w])

\* Where a name asked for at depth d is: lost, or installed or in flight no
\* deeper than that, or still to be claimed there.
Reached(n, d) ==
  \/ n \in failed
  \/ \E p \in installed : p.name = n /\ p.depth <= d
  \/ \E w \in Busy : job[w].name = n /\ job[w].depth <= d
  \/ \E j \in frontier : Claimable(j) /\ j.name = n /\ j.depth = d

Shallow ==
  \A i \in root \cup UNION {Children(p) : p \in installed} :
    i.depth <= PeerMaxDepth => Reached(i.name, i.depth)

Serial == Lone /\ InOrder /\ FirstCome /\ Shallow

\* Jobs of different names are in order.
LEMMA OrderIsTotal ==
  ASSUME NEW i, NEW j, i.name \in Name, j.name \in Name, i.depth \in Nat, j.depth \in Nat
  PROVE  /\ i.name # j.name => Before(i, j) \/ Before(j, i)
         /\ ~(Before(i, j) /\ Before(j, i)) /\ ~Before(i, i)
         /\ Before(i, j) => i.depth <= j.depth
         /\ i.depth < j.depth => Before(i, j)
<1>1. i.name \in Nat /\ j.name \in Nat
  BY NameAssumption
<1>2. PICK m, n : m = i.name /\ n = j.name
  OBVIOUS
<1>3. PICK d, e : d = i.depth /\ e = j.depth
  OBVIOUS
<1>4. m \in Nat /\ n \in Nat /\ d \in Nat /\ e \in Nat
  BY <1>1, <1>2, <1>3
<1> QED
  BY <1>2, <1>3, <1>4 DEF Before

LEMMA OrderIsTransitive ==
  ASSUME NEW i, NEW j, NEW k, i.name \in Name, j.name \in Name, k.name \in Name,
         i.depth \in Nat, j.depth \in Nat, k.depth \in Nat, Before(i, j), Before(j, k)
  PROVE  Before(i, k)
<1>1. i.name \in Nat /\ j.name \in Nat /\ k.name \in Nat
  BY NameAssumption
<1> QED
  BY <1>1 DEF Before

LEMMA JobsAndPackages ==
  ASSUME IInv
  PROVE  /\ \A i \in frontier \cup installed \cup root : i.name \in Name /\ i.depth \in Nat \ {0} /\ i.dev \in BOOLEAN
         /\ \A w \in Busy : job[w].name \in Name /\ job[w].depth \in Nat \ {0} /\ job[w].dev \in BOOLEAN
         /\ \A p \in installed : p.name \in visited /\ p.name \notin failed
         /\ \A w \in Busy : job[w].name \in visited
         /\ \A i, j \in installed : i.name = j.name => i = j
<1>1. /\ frontier \subseteq Item /\ root \subseteq Item /\ installed \subseteq Package
      /\ \A w \in Busy : job[w] \in Item
  BY DEF IInv, Core, TypeOK, Holding
<1>2. ClaimedOnce
  BY DEF IInv, Walk
<1> QED
  BY <1>1, <1>2 DEF Item, Package, ClaimedOnce, InFlight, Names

LEMMA SerialClaim ==
  ASSUME IInv, Serial, Busy = {}, NEW w \in Worker, Claim(w)
  PROVE  Serial'
<1>1. PICK i \in frontier : /\ Best(i)
                            /\ frontier' = frontier \ {i}
                            /\ visited' = visited \cup {i.name}
                            /\ job' = [job EXCEPT ![w] = i]
  BY DEF Claim
<1>2. UNCHANGED <<root, installed, failed>> /\ job'[w] = i /\ Busy' = {w}
  BY <1>1 DEF Claim, IInv, Core, TypeOK, Busy
<1>3. Claimable(i) /\ \A j \in frontier : Claimable(j) => ~Before(j, i)
  BY <1>1 DEF Best
<1>4. \A j \in frontier' : Claimable(j)' => j \in frontier /\ Claimable(j) /\ j.name # i.name
  BY <1>1 DEF Claimable
<1>5. Lone'
  BY <1>2 DEF Lone
<1>6. InOrder'
  <2>1. \A j \in frontier' : Claimable(j)' => Before(i, j)
    BY <1>3, <1>4, JobsAndPackages, OrderIsTotal
  <2>2. \A p \in installed : Before(p, i) /\ \A j \in frontier' : Claimable(j)' => Before(p, j)
    BY <1>3, <1>4 DEF Serial, InOrder
  <2> QED
    BY <1>2, <2>1, <2>2 DEF InOrder
<1>7. FirstCome'
  <2>1. \A j \in frontier \cup installed : j.depth # 1 => \E q \in installed : AsksFirst(installed, q, j)
    BY DEF Serial, FirstCome
  <2> QED
    BY <1>1, <1>2, <2>1 DEF FirstCome
<1>8. Shallow'
  <2>1. ASSUME NEW n, NEW d, Reached(n, d) PROVE Reached(n, d)'
    <3>1. CASE n \in failed \/ \E p \in installed : p.name = n /\ p.depth <= d
      BY <1>2, <3>1 DEF Reached
    <3>2. ASSUME NEW j \in frontier, Claimable(j), j.name = n, j.depth = d PROVE Reached(n, d)'
      <4>1. CASE j.name = i.name
        <5>1. i.depth <= j.depth
          BY <1>3, <3>2, <4>1, JobsAndPackages, OrderIsTotal
        <5> QED
          BY <1>2, <3>2, <4>1, <5>1 DEF Reached
      <4>2. CASE j.name # i.name
        <5>1. j \in frontier' /\ Claimable(j)'
          BY <1>1, <3>2, <4>2 DEF Claimable
        <5> QED
          BY <3>2, <5>1 DEF Reached
      <4> QED
        BY <4>1, <4>2
    <3> QED
      BY <2>1, <3>1, <3>2 DEF Reached
  <2> QED
    BY <1>2, <2>1 DEF Serial, Shallow
<1> QED
  BY <1>5, <1>6, <1>7, <1>8 DEF Serial

\* A failed fetch leaves the order alone.
LEMMA SerialFails ==
  ASSUME IInv, Serial, NEW w \in Busy, Busy' = {}, failed' = failed \cup {job[w].name},
         UNCHANGED <<root, frontier, visited, installed>>
  PROVE  Serial'
<1>1. \A v \in Busy : v = w
  BY DEF Serial, Lone
<1>2. \A j \in frontier : Claimable(j)' <=> Claimable(j)
  BY DEF Claimable
<1>3. Lone' /\ InOrder' /\ FirstCome'
  BY <1>2 DEF Serial, Lone, InOrder, FirstCome
<1>4. ASSUME NEW n, NEW d, Reached(n, d) PROVE Reached(n, d)'
  BY <1>1, <1>2, <1>4 DEF Reached
<1>5. Shallow'
  BY <1>4 DEF Serial, Shallow
<1> QED
  BY <1>3, <1>5 DEF Serial

\* An installed package comes first of those that ask for what it asks for and
\* is not visited or queued yet.
LEMMA SerialInstalls ==
  ASSUME IInv, Serial, NEW w \in Busy, Busy' = {},
         NEW p, p.name = job[w].name, p.depth = job[w].depth, p.dev = job[w].dev,
         installed' = installed \cup {p}, frontier' = Push(frontier, visited, Children(p)),
         UNCHANGED <<root, visited, failed>>
  PROVE  Serial'
<1>0. PICK i : i = job[w]
  OBVIOUS
<1>1. /\ \A v \in Busy : v = w
      /\ p.name = i.name /\ p.depth = i.depth /\ p.dev = i.dev
      /\ p.name \in Name /\ p.depth \in Nat \ {0} /\ p.dev \in BOOLEAN /\ p.name \in visited
  BY <1>0, JobsAndPackages DEF Serial, Lone
<1>2. \A j \in frontier : Claimable(j)' <=> Claimable(j)
  BY PushBounds DEF Claimable
<1>3. \A j \in frontier' : j \in frontier \/ j \in Children(p)
  BY PushBounds
<1>4. \A j \in Children(p) : /\ j.name \in Name /\ j.depth = p.depth + 1 /\ j.depth \in Nat /\ j.dev = p.dev
                             /\ j.name \in Names(Children(p))
  BY <1>1, AsksFor, AsksForFew
<1>5. \A q \in installed : Before(q, p) /\ q.depth <= p.depth
  <2> TAKE q \in installed
  <2>1. Before(q, i)
    BY <1>0 DEF Serial, InOrder
  <2>2. Before(q, p)
    BY <1>1, <2>1 DEF Before
  <2> QED
    BY <1>1, <2>2, JobsAndPackages, OrderIsTotal
<1>6. Lone'
  BY DEF Lone
<1>7. InOrder'
  <2> SUFFICES ASSUME NEW q \in installed', NEW j \in frontier', Claimable(j)'
               PROVE  Before(q, j)
    BY DEF InOrder
  <2>1. CASE j \in frontier
    <3>1. Claimable(j)
      BY <1>2, <2>1
    <3>2. Before(i, j) /\ \A r \in installed : Before(r, j)
      BY <1>0, <2>1, <3>1 DEF Serial, InOrder
    <3>3. Before(p, j)
      BY <1>1, <3>2 DEF Before
    <3> QED
      BY <3>2, <3>3
  <2>2. CASE j \in Children(p)
    <3>1. q.depth \in Nat /\ q.depth <= p.depth /\ q.name \in Name
      BY <1>1, <1>5, JobsAndPackages
    <3>2. q.depth < j.depth
      BY <1>1, <1>4, <2>2, <3>1
    <3> QED
      BY <1>4, <2>2, <3>1, <3>2, OrderIsTotal
  <2> QED
    BY <1>3, <2>1, <2>2
<1>8. FirstCome'
  <2>1. ASSUME NEW j, NEW q \in installed, AsksFirst(installed, q, j) PROVE AsksFirst(installed', q, j)
    <3>1. p.depth = q.depth => q.name <= p.name
      <4>1. /\ Before(q, p) /\ q.name \in Nat /\ p.name \in Nat
            /\ q.depth \in Nat /\ p.depth \in Nat
        BY <1>1, <1>5, JobsAndPackages, NameAssumption
      <4> QED
        BY <4>1 DEF Before
    <3> QED
      BY <2>1, <3>1 DEF AsksFirst
  <2>2. \A j \in frontier \cup installed : j.depth # 1 => \E q \in installed' : AsksFirst(installed', q, j)
    BY <2>1 DEF Serial, FirstCome
  <2>3. p.depth # 1 => \E q \in installed' : AsksFirst(installed', q, p)
    <3> HAVE p.depth # 1
    <3>1. PICK q \in installed : AsksFirst(installed, q, i)
      BY <1>0, <1>1 DEF Serial, FirstCome
    <3>2. AsksFirst(installed, q, p)
      BY <1>1, <3>1 DEF AsksFirst
    <3> QED
      BY <2>1, <3>2
  <2>4. ASSUME NEW j \in frontier', j \notin frontier PROVE AsksFirst(installed', p, j)
    <3>1. j \in Children(p) /\ j.name \notin visited /\ \A k \in frontier : ~(k.name = j.name /\ k.depth = j.depth)
      BY <2>4 DEF Push
    <3>2. ASSUME NEW q \in installed, q.depth = j.depth - 1, j.name \in Names(Children(q)) PROVE FALSE
      <4>1. PICK k \in Children(q) : k.name = j.name /\ k.depth = q.depth + 1
        BY <3>2, AsksFor
      <4>2. k.depth = j.depth
        BY <1>4, <3>1, <3>2, <4>1
      <4>3. k.name \in visited \/ \E m \in frontier : m.name = k.name /\ m.depth = k.depth
        BY <4>1 DEF IInv, Walk, Queued
      <4> QED
        BY <3>1, <4>1, <4>2, <4>3
    <3>3. p.depth = j.depth - 1 /\ j.name \in Names(Children(p)) /\ j.dev = p.dev /\ p.name <= p.name
      <4>1. p.name \in Nat /\ p.depth \in Nat
        BY <1>1, NameAssumption
      <4>2. j.depth = p.depth + 1 /\ j.name \in Names(Children(p)) /\ j.dev = p.dev
        BY <1>4, <3>1
      <4> QED
        BY <4>1, <4>2
    <3> QED
      BY <3>2, <3>3 DEF AsksFirst
  <2>5. p \in installed'
    OBVIOUS
  <2>6. \A j \in frontier' \cup installed' : j.depth # 1 => \E q \in installed' : AsksFirst(installed', q, j)
    <3> TAKE j \in frontier' \cup installed'
    <3>1. CASE j \in frontier \cup installed
      BY <2>2, <3>1
    <3>2. CASE j = p
      BY <2>3, <3>2
    <3>3. CASE j \in frontier' /\ j \notin frontier
      BY <2>4, <2>5, <3>3
    <3> QED
      BY <3>1, <3>2, <3>3
  <2> QED
    BY <2>6 DEF FirstCome
<1>9. Shallow'
  <2>1. ASSUME NEW n, NEW d, Reached(n, d) PROVE Reached(n, d)'
    <3>1. ASSUME NEW v \in Busy, job[v].name = n, job[v].depth <= d PROVE Reached(n, d)'
      BY <1>0, <1>1, <3>1 DEF Reached
    <3>2. ASSUME NEW j \in frontier, Claimable(j), j.name = n, j.depth = d PROVE Reached(n, d)'
      <4>1. j \in frontier' /\ Claimable(j)'
        BY <1>2, <3>2, PushBounds
      <4> QED
        BY <3>2, <4>1 DEF Reached
    <3> QED
      BY <2>1, <3>1, <3>2 DEF Reached
  <2>2. ASSUME NEW j \in Children(p), j.depth <= PeerMaxDepth PROVE Reached(j.name, j.depth)'
    <3>1. CASE j.name \in visited
      <4>1. \/ j.name = i.name \/ j.name \in failed \/ \E q \in installed : q.name = j.name
        BY <1>0, <1>1, <3>1 DEF IInv, Walk, ClaimedOnce, InFlight, Names
      <4>2. i.depth <= j.depth /\ \A q \in installed : q.depth <= j.depth
        BY <1>1, <1>4, <1>5, <2>2, JobsAndPackages
      <4>3. CASE j.name = i.name
        BY <1>1, <4>2, <4>3 DEF Reached
      <4>4. CASE j.name \in failed
        BY <4>4 DEF Reached
      <4>5. ASSUME NEW q \in installed, q.name = j.name PROVE Reached(j.name, j.depth)'
        BY <4>2, <4>5 DEF Reached
      <4> QED
        BY <4>1, <4>3, <4>4, <4>5
    <3>2. CASE j.name \notin visited
      <4>1. PICK k \in frontier' : k.name = j.name /\ k.depth = j.depth
        BY <3>2, PushQueues
      <4>2. Claimable(k)'
        BY <2>2, <3>2, <4>1 DEF Claimable
      <4> QED
        BY <4>1, <4>2 DEF Reached
    <3> QED
      BY <3>1, <3>2
  <2>3. \A j \in root' \cup UNION {Children(q) : q \in installed'} :
          j \in root \cup UNION {Children(q) : q \in installed} \/ j \in Children(p)
    OBVIOUS
  <2> QED
    BY <2>1, <2>2, <2>3 DEF Serial, Shallow
<1> QED
  BY <1>6, <1>7, <1>8, <1>9 DEF Serial

LEMMA SerialSettle ==
  ASSUME IInv, Serial, NEW w \in Worker, Settle(w)
  PROVE  Serial'
<1>1. w \in Busy /\ Busy' = Busy \ {w}
  BY DEF Settle, Awake, IInv, Core, TypeOK, Busy
<1>2. Busy' = {}
  BY <1>1 DEF Serial, Lone
<1>3. PICK p : p = [name |-> job[w].name, depth |-> job[w].depth, dev |-> job[w].dev,
                    fetched |-> got[w] = "fetched"]
  OBVIOUS
<1>4. p.name = job[w].name /\ p.depth = job[w].depth /\ p.dev = job[w].dev
  BY <1>3
<1>5. Children(job[w]) = Children(p)
  BY <1>4 DEF Children
<1>6. UNCHANGED <<root, visited>>
  BY DEF Settle
<1>7. \/ failed' = failed \cup {job[w].name} /\ UNCHANGED <<frontier, installed>>
      \/ /\ installed' = installed \cup {p} /\ frontier' = Push(frontier, visited, Children(p))
         /\ failed' = failed
  BY <1>3, <1>5 DEF Settle
<1> QED
  BY <1>1, <1>2, <1>4, <1>6, <1>7, SerialFails, SerialInstalls

\* Nothing else moves a name.
LEMMA SerialStays ==
  ASSUME Serial, UNCHANGED <<root, frontier, visited, installed, failed, job>>, Busy' = Busy
  PROVE  Serial'
<1>1. \A j \in frontier : Claimable(j)' <=> Claimable(j)
  BY DEF Claimable
<1>2. Lone' /\ InOrder' /\ FirstCome'
  BY <1>1 DEF Serial, Lone, InOrder, FirstCome
<1>3. ASSUME NEW n, NEW d, Reached(n, d) PROVE Reached(n, d)'
  BY <1>1, <1>3 DEF Reached
<1>4. Shallow'
  BY <1>3 DEF Serial, Shallow
<1> QED
  BY <1>2, <1>4 DEF Serial

\* A walk begins with its root's jobs queued.
LEMMA SerialBegins ==
  ASSUME Busy = {}, frontier = root, visited = {}, installed = {}, \A i \in root : i.depth = 1
  PROVE  Serial
<1>1. \A i \in root : i.depth <= PeerMaxDepth => Claimable(i)
  BY DEF Claimable
<1>2. Shallow
  BY <1>1 DEF Shallow, Reached
<1> QED
  BY <1>2 DEF Serial, Lone, InOrder, FirstCome

LEMMA SerialStep ==
  ASSUME IInv, Serial, AskedFor, [Next]_vars, Cardinality(Busy') <= 1
  PROVE  Serial'
<1>1. ASSUME NEW w \in Worker, Claim(w) PROVE Serial'
  <2>1. w \notin Busy /\ Busy' = Busy \cup {w}
    BY <1>1 DEF Claim, IInv, Core, TypeOK, Busy
  <2>2. Cardinality(Busy') = Cardinality(Busy) + 1 /\ Cardinality(Busy) \in Nat
    BY <2>1, BusyFinite, FS_AddElement
  <2>3. Cardinality(Busy) = 0
    BY <2>2
  <2>4. Busy = {}
    BY <2>3, BusyFinite, FS_EmptySet
  <2> QED
    BY <1>1, <2>4, SerialClaim
<1>2. ASSUME NEW w \in Worker, EndWalk(w) \/ Sleep(w) \/ Exit(w) \/ Materialize(w) PROVE Serial'
  <2>1. UNCHANGED <<root, frontier, visited, installed, failed, job>>
    BY <1>2 DEF EndWalk, Sleep, Exit, Materialize, walk
  <2>2. Busy' = Busy
    BY <1>2 DEF EndWalk, Sleep, Exit, Materialize, Awake, IInv, Core, TypeOK, Busy
  <2> QED
    BY <2>1, <2>2, SerialStays
<1>3. ASSUME NEW T \in Targets, AddPackages(T) PROVE Serial'
  <2>1. T \subseteq Name
    BY EnvironmentAssumption DEF Targets
  <2>2. Busy' = {} /\ frontier' = root' /\ visited' = {} /\ installed' = {} /\ \A i \in root' : i.depth = 1
    BY <1>3, <2>1, SeedType DEF AddPackages, Busy
  <2>3. \A i \in root' : i.depth <= PeerMaxDepth => Claimable(i)'
    BY <2>2 DEF Claimable
  <2>4. Shallow'
    BY <2>2, <2>3 DEF Shallow, Reached
  <2> QED
    BY <2>2, <2>4 DEF Serial, Lone, InOrder, FirstCome
<1>4. CASE UNCHANGED <<walk, workers>>
  BY <1>4, SerialStays DEF walk, workers, Busy
<1> QED
  BY <1>1, <1>2, <1>3, <1>4, SerialSettle DEF Next, Step, Driver, Return, NoSecondStage, Merge, Finished, vars

-----------------------------------------------------------------------------
(* What Build returns *)

\* Until the first walk has returned, its root is the package's own, and then
\* the tree is what it returned.
FirstWalk ==
  /\ stage \in {"build", "built"} => root = Seed(RootDeps, RootDevDeps)
  /\ stage = "built" => tree = Tag(Result, FALSE)

InReach == \A p \in installed : p.depth <= PeerMaxDepth

BuildInv ==
  /\ IInv /\ AskedFor /\ Justified /\ FirstWalk /\ InReach
  /\ overlapped \in BOOLEAN /\ (~overlapped => Serial)

LEMMA InReachStep == IInv /\ InReach /\ [Next]_vars => InReach'
<1> SUFFICES ASSUME IInv, InReach, [Next]_vars PROVE InReach'
    OBVIOUS
<1>1. ASSUME NEW w \in Worker, Settle(w) PROVE InReach'
  <2>1. job[w].depth <= PeerMaxDepth
    BY <1>1 DEF Settle, Busy, IInv, Core, Holding
  <2>2. ASSUME NEW p, p.depth = job[w].depth, installed' = installed \cup {p} PROVE InReach'
    BY <2>1, <2>2 DEF InReach
  <2>3. CASE installed' = installed
    BY <2>3 DEF InReach
  <2> QED
    BY <1>1, <2>2, <2>3 DEF Settle
<1>2. ASSUME NEW T \in Targets, AddPackages(T) PROVE InReach'
  BY <1>2 DEF AddPackages, InReach
<1>3. CASE UNCHANGED installed
  BY <1>3 DEF InReach
<1> QED
  BY <1>1, <1>2, <1>3
     DEF Next, Step, Claim, EndWalk, Sleep, Exit, Materialize, Driver, Return, NoSecondStage, Merge,
         Finished, vars, walk

LEMMA FirstWalkStep == IInv /\ FirstWalk /\ [Next]_vars => FirstWalk'
<1> SUFFICES ASSUME IInv, FirstWalk, [Next]_vars PROVE FirstWalk'
    OBVIOUS
<1>1. ASSUME NEW w \in Worker, Step(w) PROVE FirstWalk'
  <2>1. Walking
    BY <1>1 DEF Step, Claim, EndWalk, Sleep, Exit, Materialize, Settle, IInv, Core, AtRest, AllExited
  <2>2. UNCHANGED <<stage, root>>
    BY <1>1 DEF Step, Claim, EndWalk, Sleep, Exit, Materialize, Settle, walk
  <2> QED
    BY <2>1, <2>2 DEF FirstWalk, Walking
<1>2. CASE Return
  BY <1>2 DEF Return, walk, FirstWalk, Result
<1>3. CASE Merge \/ NoSecondStage \/ \E T \in Targets : AddPackages(T)
  BY <1>3 DEF Merge, NoSecondStage, AddPackages, FirstWalk
<1>4. CASE UNCHANGED vars
  BY <1>4 DEF vars, walk, FirstWalk, Result
<1> QED
  BY <1>1, <1>2, <1>3, <1>4 DEF Next, Driver, Finished

LEMMA BuildInvInit == WatchedInit => BuildInv
<1> SUFFICES ASSUME WatchedInit PROVE BuildInv
    OBVIOUS
<1>1. Init /\ overlapped = FALSE
  BY DEF WatchedInit
<1>2. IInv /\ AskedFor /\ Justified
  BY <1>1, CoreInit, WalkInit, AskedForInit DEF IInv, Init, Justified
<1>3. Busy = {} /\ \A i \in root : i.depth = 1
  BY <1>1, RootAssumption, SeedType DEF Init, Busy
<1>4. Serial
  BY <1>1, <1>3, SerialBegins DEF Init
<1>5. FirstWalk /\ InReach
  BY <1>1 DEF Init, FirstWalk, InReach
<1> QED
  BY <1>1, <1>2, <1>4, <1>5 DEF BuildInv

LEMMA BuildInvStep == BuildInv /\ [WatchedNext]_<<vars, overlapped>> => BuildInv'
<1> SUFFICES ASSUME BuildInv, [WatchedNext]_<<vars, overlapped>> PROVE BuildInv'
    OBVIOUS
<1> USE DEF BuildInv
<1>1. [Next]_vars
  BY DEF WatchedNext
<1>2. IInv' /\ AskedFor' /\ Justified' /\ FirstWalk' /\ InReach'
  BY <1>1, CoreStep, WalkStep, AskedForStep, JustifiedStep, FirstWalkStep, InReachStep DEF IInv
<1>3. overlapped' \in BOOLEAN
  BY DEF WatchedNext
<1>4. ASSUME ~overlapped' PROVE Serial'
  <2>1. CASE WatchedNext
    <3>1. ~overlapped /\ ~(Cardinality(Busy') > 1)
      BY <1>4, <2>1 DEF WatchedNext
    <3>2. Cardinality(Busy') \in Nat
      <4>1. Busy' \subseteq Worker
        BY DEF Busy
      <4> QED
        BY <4>1, WorkerAssumption, FS_Subset, FS_CardinalityType
    <3>3. Cardinality(Busy') <= 1
      BY <3>1, <3>2
    <3> QED
      BY <1>1, <3>1, <3>3, SerialStep
  <2>2. CASE UNCHANGED <<vars, overlapped>>
    <3>1. Serial /\ UNCHANGED <<root, frontier, visited, installed, failed, job>> /\ Busy' = Busy
      BY <1>4, <2>2 DEF vars, walk, workers, Busy
    <3> QED
      BY <3>1, SerialStays
  <2> QED
    BY <2>1, <2>2
<1> QED
  BY <1>2, <1>3, <1>4

\* A set of jobs or packages has a first one in the order of claims.
LEMMA FirstExists ==
  ASSUME NEW S, S # {}, \A i \in S : i.name \in Name /\ i.depth \in Nat
  PROVE  \E m \in S : \A k \in S : ~Before(k, m)
<1> DEFINE depths == {i.depth : i \in S}
<1>1. depths \in SUBSET Nat /\ depths # {}
  OBVIOUS
<1>2. PICK d \in depths : \A e \in depths : d <= e
  BY <1>1, LeastOf
<1> DEFINE names == {i.name : i \in {j \in S : j.depth = d}}
<1>3. names \in SUBSET Nat /\ names # {}
  BY <1>2, NameAssumption
<1>4. PICK n \in names : \A e \in names : n <= e
  BY <1>3, LeastOf
<1>5. PICK m \in S : m.depth = d /\ m.name = n
  BY <1>4
<1>6. ASSUME NEW k \in S, Before(k, m) PROVE FALSE
  <2>1. d <= k.depth /\ k.depth \in Nat /\ d \in Nat
    BY <1>1, <1>2
  <2>2. k.depth = d /\ k.name < n
    BY <1>5, <1>6, <2>1 DEF Before
  <2>3. n <= k.name /\ k.name \in Nat /\ n \in Nat
    BY <1>3, <1>4, <2>2
  <2> QED
    BY <2>2, <2>3
<1> QED
  BY <1>5, <1>6

\* The first MaxPkgs of a set of jobs.
First(S) == {i \in S : Cardinality({j \in S : Before(j, i)}) < MaxPkgs}

\* What comes before one of the first is one of the first.
LEMMA FirstIsLower ==
  ASSUME NEW S, IsFiniteSet(S), \A i \in S : i.name \in Name /\ i.depth \in Nat,
         NEW i \in First(S), NEW j \in S, Before(j, i)
  PROVE  j \in First(S)
<1> DEFINE under(k) == {h \in S : Before(h, k)}
<1>1. under(j) \subseteq under(i)
  BY OrderIsTransitive DEF First
<1>2. IsFiniteSet(under(i)) /\ Cardinality(under(i)) < MaxPkgs
  BY FS_Subset DEF First
<1> HIDE DEF under
<1>3. /\ Cardinality(under(j)) <= Cardinality(under(i))
      /\ Cardinality(under(j)) \in Nat /\ Cardinality(under(i)) \in Nat
  BY <1>1, <1>2, FS_Subset, FS_CardinalityType
<1>4. Cardinality(under(j)) < MaxPkgs
  BY <1>2, <1>3, LimitAssumption
<1> QED
  BY <1>4 DEF First, under

\* If there are fewer than MaxPkgs first ones, there are no others.
LEMMA FirstAreAll ==
  ASSUME NEW S, IsFiniteSet(S), \A i \in S : i.name \in Name /\ i.depth \in Nat,
         Cardinality(First(S)) < MaxPkgs
  PROVE  First(S) = S
<1> SUFFICES ASSUME First(S) # S PROVE FALSE
    OBVIOUS
<1>1. S \ First(S) # {} /\ First(S) \subseteq S
  BY DEF First
<1>2. PICK m \in S \ First(S) : \A k \in S \ First(S) : ~Before(k, m)
  BY <1>1, FirstExists
<1> DEFINE under == {h \in S : Before(h, m)}
<1>3. under \subseteq First(S)
  BY <1>2
<1>4. IsFiniteSet(First(S))
  BY <1>1, FS_Subset
<1>5. ~(Cardinality(under) < MaxPkgs)
  BY <1>2 DEF First
<1> HIDE DEF under
<1>6. Cardinality(under) <= Cardinality(First(S)) /\ Cardinality(under) \in Nat /\ Cardinality(First(S)) \in Nat
  BY <1>3, <1>4, FS_Subset, FS_CardinalityType
<1> QED
  BY <1>5, <1>6, LimitAssumption

\* Where a walk that has returned stands.
LEMMA BuiltFacts ==
  ASSUME BuildInv, stage = "built"
  PROVE  /\ Busy = {} /\ root = Seed(RootDeps, RootDevDeps) /\ tree = Tag(Result, FALSE)
         /\ ~Capped => \A j \in frontier : ~Claimable(j)
         /\ ~Capped => \A i \in root \cup UNION {Children(p) : p \in installed} :
                         i.depth <= PeerMaxDepth => i.name \in Names(installed) \cup failed
<1> USE DEF BuildInv
<1>1. AllExited /\ Busy = {}
  BY DEF IInv, Core, AtRest, Walking, AllExited, Busy
<1>2. ~Capped => done
  BY <1>1, WorkerAssumption DEF IInv, Walk, Leaving, AllExited
<1>3. ~Capped => \A j \in frontier : ~Claimable(j)
  BY <1>2 DEF IInv, Walk, NoEarlyEnd
<1>4. visited = Names(installed) \cup failed
  BY <1>1 DEF IInv, Walk, ClaimedOnce, InFlight
<1>5. ASSUME ~Capped, NEW i \in root \cup UNION {Children(p) : p \in installed}, i.depth <= PeerMaxDepth
      PROVE  i.name \in visited
  BY <1>3, <1>5 DEF IInv, Walk, Queued, Claimable
<1> QED
  BY <1>1, <1>3, <1>4, <1>5 DEF FirstWalk

\* The levels of the serial walk that loses what this walk has lost.
LEMMA SerialFacts ==
  LET all == Levels(failed)
  IN  /\ Layers(all, PeerMaxDepth, failed) /\ IsFiniteSet(all)
      /\ \A i \in all : /\ i.name \in Name \ failed /\ i.depth \in Nat \ {0} /\ i.dev \in BOOLEAN
                        /\ i.depth <= PeerMaxDepth /\ i = View(i)
<1> DEFINE all == Levels(failed)
<1>1. Layers(all, PeerMaxDepth, failed)
  BY LevelsAreLayers
<1> HIDE DEF all
<1>2. \A i \in all : i \in Item /\ i.depth <= PeerMaxDepth /\ i.name \notin failed
  BY <1>1 DEF Layers
<1>3. \A i \in Item : i.name \in Name /\ i.depth \in Nat \ {0} /\ i.dev \in BOOLEAN /\ i = View(i)
  BY DEF Item, View
<1> QED
  BY <1>1, <1>2, <1>3 DEF Layers, all

\* An installed package is one of the serial walk's, which has it no deeper.
LEMMA InstalledIsSerial ==
  ASSUME BuildInv, stage = "built"
  PROVE  \A p \in installed : \E j \in Levels(failed) : j.name = p.name /\ j.depth <= p.depth
<1> DEFINE all == Levels(failed)
<1>1. /\ Layers(all, PeerMaxDepth, failed)
      /\ \A i \in all : i.depth \in Nat \ {0} /\ i.depth <= PeerMaxDepth
  BY SerialFacts
<1> HIDE DEF all
<1>2. root = Seed(RootDeps, RootDevDeps) /\ IInv /\ InReach
  BY BuiltFacts DEF BuildInv
<1> DEFINE Has(p) == \E j \in all : j.name = p.name /\ j.depth <= p.depth
<1> DEFINE S == {d \in 0..PeerMaxDepth : \A p \in installed : p.depth <= d => Has(p)}
<1>3. PeerMaxDepth \in Nat
  BY LimitAssumption
<1>4. 0 \in S
  BY <1>2, <1>3, JobsAndPackages
<1>5. ASSUME NEW d \in 0..(PeerMaxDepth - 1), d \in S PROVE d + 1 \in S
  <2> SUFFICES ASSUME NEW p \in installed, p.depth <= d + 1 PROVE Has(p)
      BY <1>3
  <2>1. p.name \in Name /\ p.depth \in Nat \ {0} /\ p.name \notin failed
    BY <1>2, JobsAndPackages
  <2>2. PICK i \in root \cup UNION {Children(q) : q \in installed} :
          i.name = p.name /\ i.depth = p.depth
    BY DEF BuildInv, Justified
  <2>3. CASE i \in root
    BY <1>1, <1>2, <2>1, <2>2, <2>3 DEF Layers
  <2>4. ASSUME NEW q \in installed, i \in Children(q) PROVE Has(p)
    <3>1. q.depth \in Nat \ {0} /\ p.depth = q.depth + 1 /\ p.name \in Names(Children(q))
      BY <1>2, <2>2, <2>4, AsksFor, JobsAndPackages
    <3>2. q.depth <= d /\ p.depth <= PeerMaxDepth
      BY <1>2, <1>3, <3>1 DEF InReach
    <3>3. PICK j \in all : j.name = q.name /\ j.depth <= q.depth
      BY <1>5, <3>2
    <3>4. j.depth \in Nat \ {0} /\ j.depth < PeerMaxDepth
      BY <1>1, <1>3, <3>1, <3>2, <3>3
    <3>5. p.name \in Names(Children(j))
      BY <3>1, <3>3, <3>4, AsksFor, LimitAssumption
    <3>6. PICK k \in all : k.name = p.name /\ k.depth <= j.depth + 1
      BY <1>1, <2>1, <3>4, <3>5 DEF Layers
    <3>7. k.depth <= p.depth
      BY <1>1, <3>1, <3>3, <3>4, <3>6
    <3> QED
      BY <3>6, <3>7
  <2> QED
    BY <2>2, <2>3, <2>4
<1>6. 0..PeerMaxDepth \subseteq S
  <2> HIDE DEF S
  <2> QED
    BY <1>3, <1>4, <1>5, UpTo
<1>7. \A p \in installed : Has(p)
  BY <1>2, <1>3, <1>6 DEF InReach
<1> QED
  BY <1>7 DEF all

\* A package of the serial walk is installed, unless one above it was claimed
\* so deep that its dependencies were not followed.
LEMMA SerialIsInstalled ==
  ASSUME BuildInv, stage = "built", ~Capped,
         \A q \in installed : Belated(q) => q.depth < MaxDepth /\ q.depth < PeerMaxDepth
  PROVE  \A i \in SerialWalk(failed) : i.name \in Names(installed)
<1> DEFINE all == Levels(failed)
<1>1. /\ Layers(all, PeerMaxDepth, failed) /\ IsFiniteSet(all)
      /\ \A i \in all : /\ i.depth \in Nat \ {0} /\ i.depth <= PeerMaxDepth
                        /\ i.name \in Name /\ i.name \notin failed
  BY SerialFacts
<1>2. SerialWalk(failed) = First(all) /\ First(all) \subseteq all
  BY DEF SerialWalk, First
<1> HIDE DEF all
<1>3. /\ root = Seed(RootDeps, RootDevDeps) /\ IInv
      /\ \A i \in root \cup UNION {Children(p) : p \in installed} :
           i.depth <= PeerMaxDepth => i.name \in Names(installed) \cup failed
  BY BuiltFacts DEF BuildInv
<1>4. PeerMaxDepth \in Nat /\ PeerMaxDepth >= 1
  BY LimitAssumption
<1> DEFINE S == {d \in 0..PeerMaxDepth : \A i \in First(all) : i.depth <= d => i.name \in Names(installed)}
<1>5. 0 \in S
  BY <1>1, <1>2, <1>4
<1>6. ASSUME NEW d \in 0..(PeerMaxDepth - 1), d \in S PROVE d + 1 \in S
  <2> SUFFICES ASSUME NEW i \in First(all), i.depth <= d + 1 PROVE i.name \in Names(installed)
      BY <1>4
  <2>0. i \in all /\ i.depth \in Nat \ {0} /\ i.depth <= PeerMaxDepth /\ i.name \notin failed
    BY <1>1, <1>2
  <2>1. CASE i.depth = 1
    <3>1. i \in root
      BY <1>1, <1>3, <2>0, <2>1 DEF Layers
    <3> QED
      BY <1>3, <2>0, <3>1
  <2>2. CASE i.depth # 1
    <3>1. PICK p \in all : p.depth = i.depth - 1 /\ i.name \in Names(Children(p))
      BY <1>1, <2>0, <2>2 DEF Layers, AsksFirst
    <3>2. p.depth < i.depth /\ p.depth <= d /\ p.depth \in Nat \ {0}
      BY <1>1, <2>0, <3>1
    <3>3. Before(p, i)
      BY <1>1, <2>0, <3>2 DEF Before
    <3>4. p \in First(all)
      BY <1>1, <3>3, FirstIsLower
    <3>5. PICK q \in installed : q.name = p.name
      BY <1>6, <3>2, <3>4 DEF Names
    <3>6. q.depth \in Nat \ {0}
      BY <1>3, JobsAndPackages
    <3>7. i.name \in Names(Children(q)) /\ q.depth + 1 <= PeerMaxDepth
      <4>1. CASE q.depth <= p.depth
        <5>1. q.depth + 1 <= i.depth
          BY <2>0, <3>1, <3>6, <4>1
        <5>2. /\ p.depth < MaxDepth => q.depth < MaxDepth
              /\ p.depth < PeerMaxDepth => q.depth < PeerMaxDepth
          BY <3>2, <3>6, <4>1, LimitAssumption
        <5>3. i.name \in Names(Children(q))
          BY <3>1, <3>5, <5>2, AsksFor
        <5> QED
          BY <1>4, <2>0, <3>6, <5>1, <5>3
      <4>2. CASE ~(q.depth <= p.depth)
        <5>1. Belated(q)
          BY <1>2, <3>2, <3>4, <3>5, <3>6, <4>2 DEF Belated
        <5>2. q.depth < MaxDepth /\ q.depth < PeerMaxDepth
          BY <5>1
        <5>3. i.name \in Names(Children(q))
          BY <3>1, <3>5, <5>2, AsksFor
        <5> QED
          BY <1>4, <3>6, <5>2, <5>3
      <4> QED
        BY <4>1, <4>2
    <3>8. PICK k \in Children(q) : k.name = i.name /\ k.depth = q.depth + 1
      BY <3>7, AsksFor
    <3> QED
      BY <1>3, <2>0, <3>7, <3>8
  <2> QED
    BY <2>1, <2>2
<1>7. 0..PeerMaxDepth \subseteq S
  <2> HIDE DEF S
  <2> QED
    BY <1>4, <1>5, <1>6, UpTo
<1>8. \A i \in First(all) : i.name \in Names(installed)
  BY <1>1, <1>2, <1>4, <1>7
<1> QED
  BY <1>2, <1>8

\* Tagging keeps names, and below the cap nothing is truncated.
LEMMA TreeIsInstalled ==
  ASSUME BuildInv, stage = "built"
  PROVE  /\ \A q \in Result : \E i \in tree : View(i) = View(q) /\ i.name = q.name /\ i.depth = q.depth
         /\ \A i \in tree : \E q \in Result : View(i) = View(q) /\ i.name = q.name /\ i.depth = q.depth
         /\ Cardinality(installed) < MaxPkgs => Result = installed
<1>1. tree = Tag(Result, FALSE) /\ IsFiniteSet(installed) /\ Cardinality(installed) \in Nat
  BY BuiltFacts, FS_CardinalityType DEF BuildInv, IInv, Walk, InstalledFinite
<1> DEFINE T(q) == [name |-> q.name, depth |-> q.depth, dev |-> q.dev,
                    fetched |-> q.fetched, runtime |-> FALSE]
<1>2. tree = {T(q) : q \in Result}
  BY <1>1 DEF Tag
<1>3. \A q : T(q).name = q.name /\ T(q).depth = q.depth /\ View(T(q)) = View(q)
  BY DEF View
<1> HIDE DEF T
<1>4. ASSUME NEW i \in installed, Cardinality(installed) < MaxPkgs
      PROVE  Cardinality({j \in installed : Before(j, i)}) < MaxPkgs
  <2> DEFINE under == {j \in installed : Before(j, i)}
  <2>1. under \subseteq installed
    OBVIOUS
  <2> HIDE DEF under
  <2>2. Cardinality(under) \in Nat /\ Cardinality(under) <= Cardinality(installed)
    BY <1>1, <2>1, FS_Subset, FS_CardinalityType
  <2>3. Cardinality(under) < MaxPkgs
    BY <1>1, <1>4, <2>2, LimitAssumption
  <2> QED
    BY <2>3 DEF under
<1>5. Cardinality(installed) < MaxPkgs => Result = installed
  BY <1>4 DEF Result
<1>6. \A q \in Result : \E i \in tree : View(i) = View(q) /\ i.name = q.name /\ i.depth = q.depth
  <2> TAKE q \in Result
  <2>1. T(q) \in tree
    BY <1>2
  <2> QED
    BY <1>3, <2>1
<1>7. \A i \in tree : \E q \in Result : View(i) = View(q) /\ i.name = q.name /\ i.depth = q.depth
  <2> TAKE i \in tree
  <2>1. PICK q \in Result : i = T(q)
    BY <1>2
  <2> QED
    BY <1>3, <2>1
<1> QED
  BY <1>5, <1>6, <1>7

LEMMA NamesAgree == BuildInv => SameNamesUnlessBelated
<1> SUFFICES ASSUME BuildInv, stage = "built", Cardinality(installed) < MaxPkgs,
                    \A i \in tree : Belated(i) => i.depth < MaxDepth /\ i.depth < PeerMaxDepth
             PROVE  Names(tree) = Names(SerialWalk(failed))
    BY DEF SameNamesUnlessBelated
<1> DEFINE all == Levels(failed)
<1>1. IsFiniteSet(all) /\ Layers(all, PeerMaxDepth, failed) /\ \A i \in all : i.name \in Name /\ i.depth \in Nat
  BY SerialFacts
<1>2. SerialWalk(failed) = First(all) /\ First(all) \subseteq all
  BY DEF SerialWalk, First
<1> HIDE DEF all
<1>3. IsFiniteSet(installed) /\ Cardinality(installed) \in Nat /\ MaxPkgs \in Nat
  BY LimitAssumption, FS_CardinalityType DEF BuildInv, IInv, Walk, InstalledFinite
<1>4. ~Capped
  BY <1>3 DEF Capped
<1>5. Names(tree) = Names(installed)
  BY TreeIsInstalled DEF Names
<1>6. \A q \in installed : Belated(q) => q.depth < MaxDepth /\ q.depth < PeerMaxDepth
  <2> TAKE q \in installed
  <2>1. PICK i \in tree : i.name = q.name /\ i.depth = q.depth
    BY TreeIsInstalled
  <2> QED
    BY <2>1 DEF Belated
<1>7. \A i \in First(all) : i.name \in Names(installed)
  BY <1>2, <1>4, <1>6, SerialIsInstalled
<1>8. First(all) = all
  <2> DEFINE f == [i \in First(all) |-> CHOOSE q \in installed : q.name = i.name]
  <2>1. \A i \in First(all) : f[i] \in installed /\ f[i].name = i.name
    BY <1>7 DEF Names
  <2>2. \A i, j \in First(all) : i.name = j.name => i = j
    BY <1>1, <1>2 DEF Layers
  <2>3. f \in [First(all) -> installed]
    BY <2>1
  <2> HIDE DEF f
  <2>4. f \in Injection(First(all), installed)
    BY <2>1, <2>2, <2>3 DEF Injection, IsInjective
  <2>5. Cardinality(First(all)) <= Cardinality(installed) /\ IsFiniteSet(First(all))
    BY <1>3, <2>4, FS_Injection
  <2>6. Cardinality(First(all)) < MaxPkgs
    BY <1>3, <2>5, FS_CardinalityType
  <2> QED
    BY <1>1, <2>6, FirstAreAll
<1>9. Names(installed) \subseteq Names(First(all))
  BY <1>8, InstalledIsSerial DEF Names, all
<1> QED
  BY <1>2, <1>5, <1>7, <1>9 DEF Names

\* What the cap leaves of the serial walk when fetches do not overlap.
Due(i) == ~Capped \/ \E p \in installed : Before(i, p)

\* One level more of the two walks agrees: first what is installed is serial,
\* then what is due is installed.
LEMMA InstalledAtLevel ==
  ASSUME BuildInv, stage = "built", Serial, NEW p \in installed,
         \A q \in installed : q.depth < p.depth => View(q) \in Levels(failed),
         \A i \in Levels(failed) : i.depth < p.depth /\ Due(i) => \E q \in installed : View(q) = i
  PROVE  View(p) \in Levels(failed)
<1> DEFINE all == Levels(failed)
<1>1. /\ Layers(all, PeerMaxDepth, failed)
      /\ \A i \in all : /\ i.depth \in Nat \ {0} /\ i.depth <= PeerMaxDepth
                        /\ i.name \in Name /\ i.name \notin failed /\ i = View(i)
  BY SerialFacts
<1> HIDE DEF all
<1>2. /\ root = Seed(RootDeps, RootDevDeps) /\ IInv
      /\ p.name \in Name /\ p.depth \in Nat \ {0} /\ p.name \notin failed /\ p.depth <= PeerMaxDepth
  BY BuiltFacts, JobsAndPackages DEF BuildInv, InReach
<1>3. CASE p.depth = 1
  <2>1. PICK i \in root \cup UNION {Children(q) : q \in installed} : i = View(p)
    BY DEF BuildInv, Justified, View
  <2>2. i.depth = 1 /\ i.name = p.name
    BY <1>3, <2>1 DEF View
  <2>3. i \in root
    <3> SUFFICES ASSUME NEW q \in installed, i \in Children(q) PROVE FALSE
      BY <2>1
    <3>1. i.depth = q.depth + 1 /\ q.depth \in Nat \ {0}
      BY <1>2, AsksFor, JobsAndPackages
    <3> QED
      BY <2>2, <3>1
  <2>4. i \in all
    BY <1>1, <1>2, <2>2, <2>3 DEF Layers
  <2> QED
    BY <2>1, <2>4 DEF all
<1>4. CASE p.depth # 1
  <2>1. PICK q \in installed : AsksFirst(installed, q, p)
    BY <1>4 DEF Serial, FirstCome
  <2>2. /\ q.depth \in Nat \ {0} /\ q.depth = p.depth - 1 /\ q.depth < p.depth /\ q.name \in Nat
        /\ p.name \in Names(Children(q)) /\ p.dev = q.dev
    <3>1. q.depth \in Nat \ {0} /\ q.name \in Nat
      BY <1>2, JobsAndPackages, NameAssumption
    <3>2. q.depth = p.depth - 1 /\ p.name \in Names(Children(q)) /\ p.dev = q.dev
      BY <2>1 DEF AsksFirst
    <3> QED
      BY <1>2, <3>1, <3>2
  <2>3. View(q) \in all /\ View(q).name = q.name /\ View(q).depth = q.depth /\ View(q).dev = q.dev
    BY <2>2 DEF View, all
  <2>4. p.name \in Names(Children(View(q)))
    BY <2>2, <2>3, AsksFor
  <2>5. PICK k \in all : k.name = p.name /\ k.depth <= p.depth
    <3>1. q.depth < PeerMaxDepth
      BY <1>2, <2>2, LimitAssumption
    <3>2. \E k \in all : k.name = p.name /\ k.depth <= q.depth + 1
      BY <1>1, <1>2, <2>3, <2>4, <3>1 DEF Layers
    <3> QED
      BY <1>2, <2>2, <3>2
  <2>6. k.depth = p.depth
    <3> SUFFICES ASSUME k.depth < p.depth PROVE FALSE
      BY <1>1, <1>2, <2>5
    <3>1. Before(k, p)
      BY <1>1, <1>2, OrderIsTotal
    <3>2. PICK r \in installed : View(r) = k
      BY <3>1 DEF Due, all
    <3>3. r.name = p.name /\ r.depth = k.depth
      BY <2>5, <3>2 DEF View
    <3>4. r = p
      BY <1>2, <3>3, JobsAndPackages
    <3> QED
      BY <1>2, <3>3, <3>4
  <2>7. PICK f \in all : AsksFirst(all, f, k)
    BY <1>1, <1>4, <2>6 DEF Layers
  <2>8. f.depth = p.depth - 1 /\ f.depth < p.depth /\ p.name \in Names(Children(f)) /\ k.dev = f.dev
    BY <1>2, <2>5, <2>6, <2>7 DEF AsksFirst
  <2>9. PICK r \in installed : View(r) = f
    <3>1. Before(f, p)
      BY <1>1, <1>2, <2>8, OrderIsTotal
    <3> QED
      BY <2>8, <3>1 DEF Due, all
  <2>10. r.name = f.name /\ r.depth = f.depth /\ r.dev = f.dev
    BY <2>9 DEF View
  <2>11. p.name \in Names(Children(r))
    BY <2>8, <2>10, AsksFor
  <2>12. q.name <= r.name
    BY <2>1, <2>8, <2>10, <2>11 DEF AsksFirst
  <2>13. f.name <= q.name
    <3>1. View(q).depth = k.depth - 1 /\ k.name \in Names(Children(View(q)))
      BY <2>2, <2>3, <2>4, <2>5, <2>6
    <3> QED
      BY <2>3, <2>7, <3>1 DEF AsksFirst
  <2>14. q = r
    <3>1. r.name \in Nat
      BY <1>2, JobsAndPackages, NameAssumption
    <3>2. q.name = r.name
      BY <2>2, <2>10, <2>12, <2>13, <3>1
    <3> QED
      BY <1>2, <3>2, JobsAndPackages
  <2>15. k.dev = p.dev
    BY <2>2, <2>8, <2>10, <2>14
  <2>16. View(p) = View(k)
    BY <2>5, <2>6, <2>15 DEF View
  <2> QED
    BY <1>1, <2>16 DEF all
<1> QED
  BY <1>3, <1>4

LEMMA DueAtLevel ==
  ASSUME BuildInv, stage = "built", Serial, NEW i \in Levels(failed), Due(i),
         \A q \in installed : q.depth <= i.depth => View(q) \in Levels(failed),
         \A k \in Levels(failed) : k.depth < i.depth /\ Due(k) => \E q \in installed : View(q) = k
  PROVE  \E q \in installed : View(q) = i
<1> DEFINE all == Levels(failed)
<1>1. /\ Layers(all, PeerMaxDepth, failed)
      /\ \A k \in all : /\ k.depth \in Nat \ {0} /\ k.depth <= PeerMaxDepth
                        /\ k.name \in Name /\ k.name \notin failed /\ k = View(k)
  BY SerialFacts
<1>2. i \in all
  OBVIOUS
<1>3. \A q \in installed : q.depth <= i.depth => View(q) \in all
  OBVIOUS
<1>4. \A k \in all : k.depth < i.depth /\ Due(k) => \E q \in installed : View(q) = k
  OBVIOUS
<1> HIDE DEF all
<1>5. /\ root = Seed(RootDeps, RootDevDeps) /\ IInv /\ Busy = {}
      /\ ~Capped => \A j \in frontier : ~Claimable(j)
  BY BuiltFacts DEF BuildInv
<1>6. \E j \in root \cup UNION {Children(q) : q \in installed} : j.name = i.name /\ j.depth = i.depth
  <2>1. CASE i.depth = 1
    <3>1. i \in root
      BY <1>1, <1>2, <1>5, <2>1 DEF Layers
    <3> QED
      BY <3>1
  <2>2. CASE i.depth # 1
    <3>1. PICK f \in all : f.depth = i.depth - 1 /\ i.name \in Names(Children(f))
      BY <1>1, <1>2, <2>2 DEF Layers, AsksFirst
    <3>2. f.depth < i.depth
      BY <1>1, <1>2, <3>1
    <3>3. Due(f)
      <4>1. ASSUME NEW p \in installed, Before(i, p) PROVE Before(f, p)
        <5>1. i.depth <= p.depth /\ p.depth \in Nat /\ p.name \in Name
          BY <1>1, <1>2, <1>5, <4>1, JobsAndPackages, OrderIsTotal
        <5>2. f.depth < p.depth
          BY <1>1, <1>2, <3>2, <5>1
        <5> QED
          BY <1>1, <5>1, <5>2, OrderIsTotal
      <4> QED
        BY <4>1 DEF Due
    <3>4. PICK q \in installed : View(q) = f
      BY <1>4, <3>2, <3>3
    <3>5. q.name = f.name /\ q.depth = f.depth
      BY <3>4 DEF View
    <3>6. i.name \in Names(Children(q))
      BY <3>1, <3>5, AsksFor
    <3>7. PICK j \in Children(q) : j.name = i.name /\ j.depth = q.depth + 1
      BY <3>6, AsksFor
    <3>8. j.depth = i.depth
      BY <1>1, <1>2, <3>1, <3>5, <3>7
    <3> QED
      BY <3>7, <3>8
  <2> QED
    BY <2>1, <2>2
<1>7. Reached(i.name, i.depth)
  BY <1>1, <1>2, <1>6 DEF Serial, Shallow
<1>8. i.name \notin failed
  BY <1>1, <1>2
<1>9. ASSUME NEW j \in frontier, Claimable(j), j.name = i.name, j.depth = i.depth PROVE FALSE
  <2>1. ASSUME NEW p \in installed, Before(i, p) PROVE FALSE
    <3>1. Before(p, j)
      BY <1>9 DEF Serial, InOrder
    <3>2. Before(p, i)
      BY <1>9, <3>1 DEF Before
    <3>3. p.name \in Name /\ p.depth \in Nat
      BY <1>5, JobsAndPackages
    <3> QED
      BY <1>1, <1>2, <2>1, <3>2, <3>3, OrderIsTotal
  <2> QED
    BY <1>5, <1>9, <2>1 DEF Due
<1>10. PICK q \in installed : q.name = i.name /\ q.depth <= i.depth
  BY <1>5, <1>7, <1>8, <1>9 DEF Reached
<1>11. View(q) \in all /\ View(q).name = i.name
  BY <1>3, <1>10 DEF View
<1> QED
  BY <1>1, <1>2, <1>11 DEF Layers

\* As far as the cap lets it get, an unoverlapped walk is the serial one.
LEMMA WalksAgree ==
  ASSUME BuildInv, stage = "built", Serial
  PROVE  /\ \A p \in installed : View(p) \in Levels(failed)
         /\ \A i \in Levels(failed) : Due(i) => \E q \in installed : View(q) = i
<1> DEFINE all == Levels(failed)
<1>1. \A i \in all : i.depth \in Nat \ {0} /\ i.depth <= PeerMaxDepth
  BY SerialFacts
<1>2. \A p \in installed : p.depth \in Nat \ {0} /\ p.depth <= PeerMaxDepth
  BY JobsAndPackages DEF BuildInv, InReach
<1> DEFINE A(d) == \A p \in installed : p.depth <= d => View(p) \in all
<1> DEFINE B(d) == \A i \in all : i.depth <= d /\ Due(i) => \E q \in installed : View(q) = i
<1> DEFINE S == {d \in 0..PeerMaxDepth : A(d) /\ B(d)}
<1>3. PeerMaxDepth \in Nat
  BY LimitAssumption
<1>4. 0 \in S
  <2> HIDE DEF all
  <2> QED
    BY <1>1, <1>2, <1>3
<1>5. ASSUME NEW d \in 0..(PeerMaxDepth - 1), d \in S PROVE d + 1 \in S
  <2>0. d \in Nat /\ A(d) /\ B(d)
    BY <1>3, <1>5
  <2>1. A(d + 1)
    <3> SUFFICES ASSUME NEW p \in installed, p.depth <= d + 1 PROVE View(p) \in all
      OBVIOUS
    <3>1. \A e \in Nat : e < p.depth => e <= d
      BY <1>2, <2>0
    <3>2. \A q \in installed : q.depth < p.depth => View(q) \in all
      BY <1>2, <2>0, <3>1
    <3>3. \A i \in all : i.depth < p.depth /\ Due(i) => \E q \in installed : View(q) = i
      <4> HIDE DEF all
      <4> QED
        BY <1>1, <2>0, <3>1
    <3> QED
      BY <3>2, <3>3, InstalledAtLevel
  <2>2. B(d + 1)
    <3> SUFFICES ASSUME NEW i \in all, i.depth <= d + 1, Due(i) PROVE \E q \in installed : View(q) = i
      OBVIOUS
    <3>1. i.depth \in Nat
      BY <1>1
    <3>2. \A e \in Nat : /\ e < i.depth => e <= d
                         /\ e <= i.depth => e <= d + 1
      <4> HIDE DEF all
      <4> QED
        BY <2>0, <3>1
    <3>3. \A q \in installed : q.depth <= i.depth => View(q) \in all
      BY <1>2, <2>1, <3>2
    <3>4. \A k \in all : k.depth < i.depth /\ Due(k) => \E q \in installed : View(q) = k
      <4> HIDE DEF all
      <4> QED
        BY <1>1, <2>0, <3>2
    <3> QED
      BY <3>3, <3>4, DueAtLevel
  <2> QED
    BY <1>3, <2>1, <2>2
<1>6. 0..PeerMaxDepth \subseteq S
  <2> HIDE DEF S
  <2> QED
    BY <1>3, <1>4, <1>5, UpTo
<1>7. A(PeerMaxDepth) /\ B(PeerMaxDepth)
  BY <1>3, <1>6
<1> HIDE DEF all
<1>8. \A p \in installed : View(p) \in all
  BY <1>2, <1>7
<1>9. \A i \in all : Due(i) => \E q \in installed : View(q) = i
  BY <1>1, <1>7
<1> QED
  BY <1>8, <1>9 DEF all

\* Viewing packages loses none, so it bounds how many they are.
LEMMA ViewBounds ==
  ASSUME IInv, NEW S \in SUBSET installed, NEW T, IsFiniteSet(T), \A q \in S : View(q) \in T
  PROVE  /\ Cardinality(S) <= Cardinality(T)
         /\ IsFiniteSet(S) /\ Cardinality(S) \in Nat /\ Cardinality(T) \in Nat
<1> DEFINE f == [q \in S |-> View(q)]
<1>1. f \in [S -> T] /\ \A q \in S : f[q] = View(q)
  OBVIOUS
<1>2. \A q, r \in S : View(q) = View(r) => q = r
  BY JobsAndPackages DEF View
<1> HIDE DEF f
<1>3. f \in Injection(S, T)
  BY <1>1, <1>2 DEF Injection, IsInjective
<1> QED
  BY <1>3, FS_Injection, FS_CardinalityType

LEMMA ResultAgrees ==
  ASSUME BuildInv, stage = "built", Serial
  PROVE  /\ \A q \in Result : View(q) \in SerialWalk(failed)
         /\ \A i \in SerialWalk(failed) : \E q \in Result : View(q) = i
<1> DEFINE all == Levels(failed)
<1>1. /\ Layers(all, PeerMaxDepth, failed) /\ IsFiniteSet(all)
      /\ \A k \in all : k.depth \in Nat /\ k.name \in Name
  BY SerialFacts
<1>2. SerialWalk(failed) = First(all) /\ First(all) \subseteq all
  BY DEF SerialWalk, First
<1>3. /\ \A p \in installed : View(p) \in all
      /\ \A i \in all : Due(i) => \E q \in installed : View(q) = i
  BY WalksAgree
<1> HIDE DEF all
<1>4. /\ IInv /\ IsFiniteSet(installed) /\ MaxPkgs \in Nat
      /\ \A p \in installed : p.depth \in Nat /\ p.name \in Name
  BY JobsAndPackages, LimitAssumption DEF BuildInv, IInv, Walk, InstalledFinite
<1>5. \A p : View(p).name = p.name /\ View(p).depth = p.depth
  BY DEF View
<1> DEFINE Under(i) == {j \in all : Before(j, i)}
<1>6. \A i : IsFiniteSet(Under(i)) /\ Cardinality(Under(i)) \in Nat
  BY <1>1, FS_Subset, FS_CardinalityType
<1>7. \A q \in installed : IsFiniteSet(Sooner(q)) /\ Cardinality(Sooner(q)) \in Nat
  BY <1>4, FS_Subset, FS_CardinalityType DEF Sooner
<1>8. ASSUME NEW q \in installed
      PROVE  Cardinality(Under(View(q))) = Cardinality(Sooner(q))
  <2>1. \A r \in Sooner(q) : View(r) \in Under(View(q))
    BY <1>3, <1>5 DEF Sooner, Before
  <2>2. Sooner(q) \subseteq installed
    BY DEF Sooner
  <2>3. Cardinality(Sooner(q)) <= Cardinality(Under(View(q)))
    <3> HIDE DEF Under
    <3> QED
      BY <1>4, <1>6, <2>1, <2>2, ViewBounds
  <2> DEFINE f == [j \in Under(View(q)) |-> CHOOSE r \in Sooner(q) : View(r) = j]
  <2>4. ASSUME NEW j \in Under(View(q)) PROVE \E r \in Sooner(q) : View(r) = j
    <3>1. Before(j, q)
      BY <1>5 DEF Before
    <3>2. PICK r \in installed : View(r) = j
      BY <1>3, <3>1 DEF Due
    <3>3. Before(r, q)
      BY <1>5, <3>1, <3>2 DEF Before
    <3> QED
      BY <3>2, <3>3 DEF Sooner
  <2>5. \A j \in Under(View(q)) : f[j] \in Sooner(q) /\ View(f[j]) = j
    <3> HIDE DEF Under
    <3> QED
      BY <2>4
  <2>6. f \in Injection(Under(View(q)), Sooner(q))
    <3> DEFINE U == Under(View(q))
    <3>1. f \in [U -> Sooner(q)]
      <4> HIDE DEF Under
      <4> QED
        BY <2>5
    <3>2. \A j, k \in U : f[j] = f[k] => j = k
      <4> HIDE DEF Under, f
      <4> QED
        BY <2>5
    <3> HIDE DEF Under, f
    <3> QED
      BY <3>1, <3>2 DEF Injection, IsInjective
  <2>7. Cardinality(Under(View(q))) <= Cardinality(Sooner(q))
    <3> HIDE DEF Under, f
    <3> QED
      BY <1>7, <2>6, FS_Injection
  <2>8. Cardinality(Under(View(q))) \in Nat /\ Cardinality(Sooner(q)) \in Nat
    BY <1>6, <1>7
  <2> QED
    BY <2>3, <2>7, <2>8
<1>9. \A q \in installed : q \in Result <=> View(q) \in First(all)
  BY <1>3, <1>8 DEF Result, Sooner, First
<1>10. ASSUME NEW i \in First(all) PROVE \E q \in installed : View(q) = i
  <2> SUFFICES ASSUME ~\E q \in installed : View(q) = i PROVE FALSE
      OBVIOUS
  <2>1. i \in all /\ Cardinality(Under(i)) < MaxPkgs
    BY DEF First
  <2>2. Capped /\ \A p \in installed : ~Before(i, p)
    BY <1>3, <2>1 DEF Due
  <2>3. \A p \in installed : View(p) \in Under(i)
    <3> TAKE p \in installed
    <3>1. p.name # i.name
      BY <1>1, <1>3, <1>5, <2>1 DEF Layers
    <3>2. Before(p, i)
      BY <1>1, <1>4, <2>1, <2>2, <3>1, OrderIsTotal
    <3>3. Before(View(p), i)
      BY <1>5, <3>2 DEF Before
    <3> QED
      BY <1>3, <3>3
  <2>4. Cardinality(installed) <= Cardinality(Under(i)) /\ Cardinality(installed) \in Nat
    <3> HIDE DEF Under
    <3> QED
      BY <1>4, <1>6, <2>3, ViewBounds
  <2>5. Cardinality(installed) >= MaxPkgs /\ Cardinality(Under(i)) \in Nat
    BY <1>6, <2>2 DEF Capped
  <2> QED
    BY <1>4, <2>1, <2>4, <2>5
<1>11. Result \subseteq installed
  BY DEF Result
<1> QED
  BY <1>2, <1>9, <1>10, <1>11

LEMMA SerialIsBuilt == BuildInv => MatchesSerialWalk
<1> SUFFICES ASSUME BuildInv, stage = "built", ~overlapped PROVE Built = SerialWalk(failed)
    BY DEF MatchesSerialWalk
<1>1. Serial
  BY DEF BuildInv
<1>2. Built = {View(i) : i \in tree}
  BY DEF Built, View
<1>3. \A x : x \in Built <=> \E q \in Result : View(q) = x
  BY <1>2, TreeIsInstalled
<1>4. \A x : x \in SerialWalk(failed) <=> \E q \in Result : View(q) = x
  BY <1>1, ResultAgrees
<1> QED
  BY <1>3, <1>4

\* Build returns the names of the serial walk when the cap is not reached and no
\* package was claimed so late that its dependencies were dropped, and exactly
\* the serial walk, truncated at the cap, when fetches do not overlap.
THEOREM BuildIsSerial == WatchedSpec => []BuildResult
<1>1. BuildInv => BuildResult
  BY NamesAgree, SerialIsBuilt DEF BuildResult
<1> QED
  BY <1>1, BuildInvInit, BuildInvStep, PTL DEF WatchedSpec

=============================================================================
