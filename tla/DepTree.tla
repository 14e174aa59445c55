------------------------------ MODULE DepTree ------------------------------
(***************************************************************************)
(* The dependency-tree installer: internal/npm/tree.go, Installer.Build and *)
(* Installer.AddPackages, as main.go's materialize drives them.             *)
(*                                                                          *)
(* A fixed pool of workers shares one mutex and one condition variable.     *)
(* Every action below is one critical section of that mutex, except         *)
(* Materialize, which is the unlocked fetch.  A fetch that may fail fails   *)
(* or not by choice.                                                        *)
(***************************************************************************)
EXTENDS DepGraph, FiniteSets

CONSTANTS
  Worker,        \* the goroutines of the pool (Installer.Concurrency)
  MaxTargets,    \* scanRuntimeInstallTargets' const maxRuntimeTargets
  RootDeps,      \* the root's runtime, optional and peer dependencies
  RootDevDeps,   \* the root's devDependencies; {} unless IncludeDev
  Shipped,       \* names whose package.json is in the FS before Build
  Online,        \* Installer.Reg # nil
  MayFail,       \* names whose Resolve, Download or extraction may fail
  BadManifest,   \* names whose package.json does not parse
  Mentioned      \* install targets the root's own source mentions

ASSUME WorkerAssumption == IsFiniteSet(Worker) /\ Worker # {}
ASSUME RootAssumption ==
  /\ RootDeps \subseteq Name /\ RootDevDeps \subseteq Name
  /\ IsFiniteSet(RootDeps) /\ IsFiniteSet(RootDevDeps)
ASSUME EnvironmentAssumption ==
  /\ Shipped \subseteq Name /\ Mentioned \subseteq Name
  /\ MayFail \subseteq Name /\ BadManifest \subseteq Name
  /\ Online \in BOOLEAN /\ MaxTargets \in Nat

VARIABLES
  stage,      \* where main.go's materialize is
  root,       \* the jobs of the root package of the current walk
  frontier,   \* discovered-but-unclaimed jobs
  visited,    \* names claimed by the current walk
  installed,  \* what the current walk has installed
  failed,     \* names the current walk gave up on (the dep-resolve-failed notes)
  active,     \* workers currently fetching
  done,       \* no further work will appear
  pc,         \* where each worker is
  job,        \* the job each busy worker claimed
  got,        \* what materialize returned to it
  fs,         \* names with node_modules/<name>/package.json
  tree        \* the installed packages materialize has accumulated

walk == <<root, frontier, visited, installed, failed, active, done>>
workers == <<pc, job, got>>
vars == <<stage, walk, workers, fs, tree>>

-----------------------------------------------------------------------------
(* Jobs and the frontier *)

Package == [name : Name, depth : Nat \ {0}, dev : BOOLEAN, fetched : BOOLEAN]
Listed == [name : Name, depth : Nat \ {0}, dev : BOOLEAN, fetched : BOOLEAN,
           runtime : BOOLEAN]
NoItem == [name |-> 0, depth |-> 0, dev |-> FALSE]

\* push: unvisited names are appended.  Two jobs for one name at one depth are
\* indistinguishable to claim, which takes the first: only that one is kept.
Push(front, seen, items) ==
  front \cup {i \in items :
                /\ i.name \notin seen
                /\ \A j \in front : ~(j.name = i.name /\ j.depth = i.depth)}

\* Variant: claim without the visited check.
ClaimableAgain(i) == i \in frontier /\ i.depth <= PeerMaxDepth

Claimable(i) == i \in frontier /\ i.name \notin visited /\ i.depth <= PeerMaxDepth

\* Variant: the lexically first job, whatever its depth.
BestByName(i) == Claimable(i) /\ \A j \in frontier : Claimable(j) => i.name <= j.name

Best(i) == Claimable(i) /\ \A j \in frontier : Claimable(j) => ~Before(j, i)

-----------------------------------------------------------------------------
(* Workers *)

Busy == {w \in Worker : pc[w] \in {"fetching", "settling"}}
\* Variant: the cap off by one.
CappedLate == Cardinality(installed) > MaxPkgs

Capped == Cardinality(installed) >= MaxPkgs

\* Variant: no broadcast.
AsleepStill(p) == p

\* cond.Broadcast: every waiting worker goes back to contend for the mutex.
Awake(p) == [v \in Worker |-> IF p[v] = "waiting" THEN "top" ELSE p[v]]

Walking == stage \in {"build", "second"}

Claim(w) ==
  /\ Walking /\ pc[w] = "top" /\ ~done /\ ~Capped
  /\ \E i \in frontier :
       /\ Best(i)
       /\ frontier' = frontier \ {i}
       /\ visited' = visited \cup {i.name}
       /\ job' = [job EXCEPT ![w] = i]
  /\ active' = active + 1
  /\ pc' = [pc EXCEPT ![w] = "fetching"]
  /\ UNCHANGED <<stage, root, installed, failed, done, got, fs, tree>>

\* The worker that finds nothing claimable and nobody fetching ends the walk.
EndWalk(w) ==
  /\ Walking /\ pc[w] = "top" /\ ~done /\ ~Capped
  /\ \A i \in frontier : ~Claimable(i)
  /\ active = 0
  /\ done' = TRUE
  /\ pc' = [Awake(pc) EXCEPT ![w] = "exited"]
  /\ UNCHANGED <<stage, root, frontier, visited, installed, failed, active, job, got, fs, tree>>

Sleep(w) ==
  /\ Walking /\ pc[w] = "top" /\ ~done /\ ~Capped
  /\ \A i \in frontier : ~Claimable(i)
  /\ active # 0
  /\ pc' = [pc EXCEPT ![w] = "waiting"]
  /\ UNCHANGED <<stage, walk, job, got, fs, tree>>

Exit(w) ==
  /\ Walking /\ pc[w] = "top"
  /\ done \/ Capped
  /\ pc' = [pc EXCEPT ![w] = "exited"]
  /\ UNCHANGED <<stage, walk, job, got, fs, tree>>

\* Installer.materialize, outside the mutex: what is in the FS is read, the
\* rest is resolved, downloaded and extracted whole (extraction is staged).
Materialize(w) ==
  LET n == job[w].name
      parsed(how) == IF n \in BadManifest THEN "error" ELSE how
  IN
  /\ pc[w] = "fetching"
  /\ \/ /\ n \in fs
        /\ got' = [got EXCEPT ![w] = parsed("present")]
        /\ UNCHANGED fs
     \/ /\ n \notin fs
        /\ ~Online \/ n \in MayFail
        /\ got' = [got EXCEPT ![w] = "error"]
        /\ UNCHANGED fs
     \/ /\ n \notin fs
        /\ Online
        /\ got' = [got EXCEPT ![w] = parsed("fetched")]
        /\ fs' = fs \cup {n}
  /\ pc' = [pc EXCEPT ![w] = "settling"]
  /\ UNCHANGED <<stage, walk, job, tree>>

\* Variant: a package already on disk is not descended into.
SettleSkipsPresent(w) ==
  LET i == job[w]
      p == [name |-> i.name, depth |-> i.depth, dev |-> i.dev,
            fetched |-> got[w] = "fetched"]
  IN
  /\ pc[w] = "settling"
  /\ active' = active - 1
  /\ \/ /\ got[w] = "error"
        /\ failed' = failed \cup {i.name}
        /\ UNCHANGED <<frontier, installed>>
     \/ /\ got[w] # "error"
        /\ installed' = installed \cup {p}
        /\ frontier' = IF got[w] = "present" THEN frontier
                       ELSE Push(frontier, visited, Children(i))
        /\ UNCHANGED failed
  /\ pc' = [Awake(pc) EXCEPT ![w] = "top"]
  /\ job' = [job EXCEPT ![w] = NoItem]
  /\ got' = [got EXCEPT ![w] = "none"]
  /\ UNCHANGED <<stage, root, visited, done, fs, tree>>

\* Variant: a failed package is put back to be tried again.
SettleRetries(w) ==
  LET i == job[w]
      p == [name |-> i.name, depth |-> i.depth, dev |-> i.dev,
            fetched |-> got[w] = "fetched"]
  IN
  /\ pc[w] = "settling"
  /\ active' = active - 1
  /\ \/ /\ got[w] = "error"
        /\ visited' = visited \ {i.name}
        /\ frontier' = frontier \cup {i}
        /\ UNCHANGED installed
     \/ /\ got[w] # "error"
        /\ installed' = installed \cup {p}
        /\ frontier' = Push(frontier, visited, Children(i))
        /\ UNCHANGED visited
  /\ pc' = [Awake(pc) EXCEPT ![w] = "top"]
  /\ job' = [job EXCEPT ![w] = NoItem]
  /\ got' = [got EXCEPT ![w] = "none"]
  /\ UNCHANGED <<stage, root, failed, done, fs, tree>>

\* Back under the mutex: record the package and push its children, or note
\* the failure; either way wake everyone.
Settle(w) ==
  LET i == job[w]
      p == [name |-> i.name, depth |-> i.depth, dev |-> i.dev,
            fetched |-> got[w] = "fetched"]
  IN
  /\ pc[w] = "settling"
  /\ active' = active - 1
  /\ \/ /\ got[w] = "error"
        /\ failed' = failed \cup {i.name}
        /\ UNCHANGED <<frontier, installed>>
     \/ /\ got[w] # "error"
        /\ installed' = installed \cup {p}
        /\ frontier' = Push(frontier, visited, Children(i))
        /\ UNCHANGED failed
  /\ pc' = [Awake(pc) EXCEPT ![w] = "top"]
  /\ job' = [job EXCEPT ![w] = NoItem]
  /\ got' = [got EXCEPT ![w] = "none"]
  /\ UNCHANGED <<stage, root, visited, done, fs, tree>>

-----------------------------------------------------------------------------
(* The two walks of main.go's materialize *)

\* wg.Wait has returned.
AllExited == \A w \in Worker : pc[w] = "exited"

\* The sort and the truncation that end Build: the MaxPkgs first packages.
Result ==
  {i \in installed : Cardinality({j \in installed : Before(j, i)}) < MaxPkgs}

Tag(items, atRuntime) ==
  {[name |-> i.name, depth |-> i.depth, dev |-> i.dev, fetched |-> i.fetched,
    runtime |-> atRuntime] : i \in items}

Return ==
  /\ stage = "build" /\ AllExited
  /\ tree' = Tag(Result, FALSE)
  /\ stage' = "built"
  /\ UNCHANGED <<walk, workers, fs>>

\* scanRuntimeInstallTargets: mentioned, not present, at most MaxTargets of them.
Targets ==
  LET wanted == Mentioned \ Names(tree)
  IN {T \in SUBSET wanted :
        \/ T = wanted /\ Cardinality(T) <= MaxTargets
        \/ Cardinality(wanted) > MaxTargets /\ Cardinality(T) = MaxTargets}

\* AddPackages runs Build again over a synthetic root, with fresh walk state.
AddPackages(T) ==
  /\ stage = "built" /\ Online /\ T # {}
  /\ stage' = "second"
  /\ root' = Seed(T, {}) /\ frontier' = root'
  /\ visited' = {} /\ installed' = {} /\ failed' = {}
  /\ active' = 0 /\ done' = FALSE
  /\ pc' = [w \in Worker |-> "top"]
  /\ UNCHANGED <<job, got, fs, tree>>

NoSecondStage ==
  /\ stage = "built"
  /\ ~Online \/ {} \in Targets
  /\ stage' = "done"
  /\ UNCHANGED <<walk, workers, fs, tree>>

\* materialize keeps what AddPackages returns and the tree does not have yet.
Merge ==
  /\ stage = "second" /\ AllExited
  /\ tree' = tree \cup Tag({i \in Result : i.name \notin Names(tree)}, TRUE)
  /\ stage' = "done"
  /\ UNCHANGED <<walk, workers, fs>>

Init ==
  /\ stage = "build"
  /\ root = Seed(RootDeps, RootDevDeps) /\ frontier = root
  /\ visited = {} /\ installed = {} /\ failed = {}
  /\ active = 0 /\ done = FALSE
  /\ pc = [w \in Worker |-> "top"]
  /\ job = [w \in Worker |-> NoItem]
  /\ got = [w \in Worker |-> "none"]
  /\ fs = Shipped
  /\ tree = {}

Step(w) == Claim(w) \/ EndWalk(w) \/ Sleep(w) \/ Exit(w) \/ Materialize(w) \/ Settle(w)

Driver == Return \/ (\E T \in Targets : AddPackages(T)) \/ NoSecondStage \/ Merge

\* The program has returned the tree: nothing runs any more.
Finished == stage = "done" /\ UNCHANGED vars

Next == (\E w \in Worker : Step(w)) \/ Driver \/ Finished

Spec == Init /\ [][Next]_vars

\* Every goroutine is scheduled and every fetch returns (the HTTP client has an
\* overall timeout); sleeping is up to the code, so it needs no fairness.
Fairness == (\A w \in Worker : WF_vars(Step(w))) /\ WF_vars(Driver)

FairSpec == Spec /\ Fairness

-----------------------------------------------------------------------------
(* Properties *)

\* Type invariant of the installer's state.
TypeOK ==
  /\ stage \in {"build", "built", "second", "done"}
  /\ root \subseteq Item /\ frontier \subseteq Item
  /\ visited \subseteq Name
  /\ installed \subseteq Package
  /\ failed \subseteq Name
  /\ active \in Nat
  /\ done \in BOOLEAN
  /\ pc \in [Worker -> {"top", "waiting", "fetching", "settling", "exited"}]
  /\ job \in [Worker -> Item \cup {NoItem}]
  /\ got \in [Worker -> {"none", "error", "present", "fetched"}]
  /\ fs \subseteq Name
  /\ tree \subseteq Listed

InFlight == {job[w].name : w \in Busy}

\* A claimed name is held by exactly one busy worker, or has been installed
\* once, or was given up on - never two of these, whatever the interleaving of
\* claims and fetches: no two workers fetch one package.
ClaimedOnce ==
  /\ visited = InFlight \cup Names(installed) \cup failed
  /\ \A v, w \in Busy : job[v].name = job[w].name => v = w
  /\ \A i, j \in installed : i.name = j.name => i = j
  /\ InFlight \cap (Names(installed) \cup failed) = {}
  /\ Names(installed) \cap failed = {}

\* The shared counter that decides termination counts the fetching workers.
ActiveCounts == active = Cardinality(Busy)

\* The walk is never declared over while a fetch that could still discover
\* packages is running or a discovered package is waiting to be claimed.
NoEarlyEnd == done => Busy = {} /\ \A i \in frontier : ~Claimable(i)

\* A worker only sleeps while some other worker is fetching (which will wake
\* it) and nothing is claimable: no wakeup is lost and no work sits unclaimed
\* beside a sleeping worker.
NoLostWakeup ==
  \A w \in Worker : pc[w] = "waiting" =>
    Busy # {} /\ \A i \in frontier : ~Claimable(i)

\* A finished walk that did not stop at the package cap is closed: every
\* dependency within the depth limits of every package it installed was itself
\* installed or reported as failed.
ClosedWalk ==
  Walking /\ AllExited /\ ~Capped =>
    \A i \in root \cup UNION {Children(p) : p \in installed} :
      i.depth <= PeerMaxDepth => i.name \in Names(installed) \cup failed

\* Every installed package is there because the root, or an installed package
\* one level above it with the same dev taint, depends on it by an edge that its
\* depth limit allows.
Justified ==
  \A p \in installed : \E i \in root \cup UNION {Children(q) : q \in installed} :
    i = [name |-> p.name, depth |-> p.depth, dev |-> p.dev]

\* The package cap can be overrun only by the fetches in flight when it is
\* reached: at most one for each of the other workers.
CapOverrun == Cardinality(installed) + active <= MaxPkgs + Cardinality(Worker) - 1

\* Each of the two walks contributes at most MaxPkgs packages to what the report
\* lists, however far its workers overran the cap.
TreeWithinCaps ==
  /\ stage = "built" => Cardinality(tree) <= MaxPkgs
  /\ Cardinality(tree) <= 2 * MaxPkgs

\* The tree handed to the detonation lists each package name once, although two
\* independent walks contribute to it and the second may install a name again.
TreeIsFlat == \A i, j \in tree : i.name = j.name => i = j

\* The workers agree on who is busy, when to sleep and when the walk is over
\* (tree.go:147-170): the state is well-typed, the shared counter is right, no
\* wakeup is lost and no walk ends early, in any interleaving.
PoolAgrees == TypeOK /\ ActiveCounts /\ NoEarlyEnd /\ NoLostWakeup

\* What the walks gather and materialize merges is what was asked for, once each,
\* with at most one package for each other worker over the cap, and no package
\* over it in what they return.
TreeOK == Justified /\ CapOverrun /\ TreeWithinCaps /\ TreeIsFlat

\* Forgetting workers, the frontier and the fetches, each walk is a FlatInstall.
Flat == INSTANCE FlatInstall WITH
  got <- {[name |-> p.name, depth |-> p.depth, dev |-> p.dev] : p \in installed},
  lost <- failed,
  over <- stage \in {"built", "done"}

\* The pool implements the abstract walk.
ImplementsFlatInstall == Flat!Spec

\* The materialization ends: every worker of both walks exits.
Returns == <>(stage = "done")

=============================================================================
