# SCBoX in TLA+

TLA+ specifications of SCBoX, the sandbox that detonates npm packages before
they are installed, with the TLC configurations that check them on small
instances and the TLAPS proofs that hold for every instance. The specifications
are written from the Go source; where a comment, the README or a flag text of
SCBoX promises something else, *Findings* says so.

Line numbers are those of the commit these files sit beside. `PROJECT.json`
lists, for every definition, the lines it stands for.

- [1. The system](#1-the-system)
- [2. The modules](#2-the-modules)
- [3. The runs](#3-the-runs)
- [4. Fairness](#4-fairness)
- [5. The proofs](#5-the-proofs)
- [6. Findings](#6-findings)
- [7. What is not modelled](#7-what-is-not-modelled)
- [8. Plan](#8-plan)
- [9. Running it](#9-running-it)

## 1. The system

SCBoX is some 14,000 lines of Go of its own over vendored libraries (goja,
esbuild, regexp2, pprof, a shell parser). It has no Go tests, only sample
packages under `testdata`, so what it promises is in its comments and README.

```
 npm-guard.sh ──► scbox npm|pnpm|yarn ... ─ gateScan ─┐   (goroutine pool)
                                                      ▼
 scbox <target> ──────────────────────────────────►  run
                                                      │ loadInput, materialize
                        registry client ◄── Installer.Build / AddPackages
                                                      │        (worker pool)
                                                      ▼
                        runJailed ══ pipes ══► runWorker (child process)
                                                      │
                                                      ▼
                                              detonate ── Runtime (goja)
                                                │            timers, fake Node,
                                                │            fake shell, loader
                                                ▼
                                              Tracer ──► verdict, report
```

| Component | State | Operations | What is hard | What makes it correct | Module |
|---|---|---|---|---|---|
| **Dependency installer** `internal/npm/tree.go`, `materialize` in `main.go` | frontier, visited, installed, active, done under one mutex; the in-memory FS | Build, AddPackages; claim, fetch, push, wait, end | goroutines and a condition variable; fetches end in any order and may fail; a cap tested while fetches are in flight; a second walk over the FS of the first | one fetch per name; the walk ends, and only when nothing is left; the tree is closed under dependencies; the result is that of a serial walk | DepTree |
| **Deadlines** `internal/sandbox/runtime.go`, `explore.go` | the interrupt flag of goja, `aborted`, one timer per call and one for the run | safeCall, runProgram, pumpMicrotasks, tryConstruct, guarded reads, Close | timer goroutines race the interpreter; calls nest; goja clears the flag by itself | no sample code outlives its own timeout or the total budget | VMGuard |
| **Detonation** `detonate` in `main.go`, `explore.go`, `runtime.go`, `tracer.go` | module cache, timer queue, exit handlers, virtual clock; ambient scope, muted, quiet | lifecycle scripts, RunEntry, ExploreFiles, ForceExecute, RequireDeps, DrainTimers, FireExitHandlers | ambient state is saved and restored around code that re-enters the host; deferred code runs after its context is gone; the budget may strike anywhere | an indicator is filed under the package that caused it and scores unless the sweep or a dev dependency provoked it | Detonation |
| **Jailed worker** `worker.go` | two pipes, a child process, a context, an encoder goroutine | encode, decode, kill, wait, read the encoder's error | both sides block on bounded pipes; crashes and the deadline at any point | a report is never taken for complete that is not; the call returns; no child is left | JailPipe |
| **Install gate** `runPMGate`, `gateScan` in `main.go` | the specs, a pool over two unbuffered channels, counters | classify, scan, count, block, override, run the package manager | pool and closer; failures of single analyses; the registry moves between scan and install | fails closed; everything asked for is scanned; a decision is always reached | InstallGate |
| **Parallel exploration** `exploreParallel`, `Tracer.Fork`, `Absorb` | one runtime and tracer per worker, merged by time | fork, sweep a share, absorb | recording at the same time; a merge by time stamps; values only one worker has watched | the verdict and the timeline are those of one runtime | Scoring, Tracer |
| **Module loader** `require.go`, child bridge in `builtins.go`, `shell.go` | module cache, bodies in progress, ambient scope and `process.argv`, child depth, overlay of dropped files | require, loadFile, child process, `-e`, fork, shell script, drop | cycles; modules that fail half way; code dropped and then required; children inside the same machine | a module runs once per process; nothing from outside loads; what is set for a child is put back | ModuleLoader |
| **Registry client** `internal/registry` | the cache directory | Resolve, Download, semver ranges | ranges that do not parse; two processes and crashes around one cache file | the highest version of the range; what loads is whole and what was asked for | Fetch |
| **Package ingestion** `internal/npm/package.go`, `internal/vfs` | the file set, the byte and entry counts | extract, find the root, read the manifest, ingest a directory | running caps; entries that repeat, climb or are links | nothing is cut silently; the tree is closed; ordinary archives load | Fetch |
| **In-memory FS** overlay in `runtime.go`, `builtins.go`, `evasion.go`, `shell.go` | overlay, descriptors, a shell's redirection | read, write, append, copy, link, rename, delete, open, probe | three layers asked in different orders; calls that are recorded and not done | what is written reads back; probes agree with reads; secrets follow their copies | OverlayFS |
| **Stubs** the recording part of `builtins.go`, `globals.go`, `eval.go`, `process.go`, `shell.go` | none | one call of the tracer per stub | what is recorded depends on the sweep | see the next row | Stubs |
| **Verdict and taint rules** `internal/trace/verdict.go`, `signatures.go`, `ioc.go`, `tracer.go`, `internal/rules` | indicators by sink, watched and tainted values | Record, Add, AddDecoded, Absorb, Verdict | which sinks count for which of some seventy reasons; gates between reasons; a capped set | muting neither adds to nor hides from the verdict; a lone capability is no malice; evidence never lowers the score | Signatures, Tracer, Scoring |
| Transpilation, static recovery, reports, flags, shim, vendored code | none | text to text | — | — | not modelled (section 7) |

### How the parts interact

- `run` loads the target, calls `materialize` and then `runJailed`, so the
  worker sees a finished tree; the installer and the worker never run at the
  same time for one target. `gateScan` calls `run` from several goroutines.
- `detonate` is one goroutine. What interrupts it are the timers of *VMGuard*,
  which act through `aborted` and the interrupt flag alone. *Detonation*
  therefore has the budget as one environment step, which sets `aborted` at any
  point, and *VMGuard* says when code in progress really stops.
- The parent's deadline for a child is the total budget plus 15 s. *JailPipe*
  leaves it unrelated to what the child does: the child may be slow, crash or
  answer at any point relative to it.
- The loader, the overlay and the stubs are three views of one sample running in
  one virtual machine. *Detonation* says when which piece of code runs and under
  which ambient state; *ModuleLoader* which file's code that is; *OverlayFS* what
  its file calls see; *Stubs* what they tell the tracer; *Scoring* what becomes of
  it, across the forked tracers of parallel workers.
- *Fetch* is what `materialize` calls for each package and what `loadInput` calls
  for the target; *DepTree* has it as one step that fails or not.
- The gate reads of an analysis only its level or its error; *InstallGate* has
  one analysis as one step with any outcome, which covers what *JailPipe* shows
  `runJailed` can return.

`PROJECT.json` lists the hazards of this code, each at its line, with the
properties that would catch it.

## 2. The modules

### DepGraph, FlatInstall, DepTree, DepTreeSerial — the installer

`DepGraph` has the pure part: names as ranks in the byte order (the order `claim` and the
final sort use), the edges of a package, the two depth limits. `FlatInstall` is
the abstract promise: each name installed or given up at most once, only when
the root or an installed package one level up asks for it, ending closed under
dependencies or at the cap. `DepTree` is the code:

| TLA+ | Code |
|---|---|
| `frontier`, `visited`, `installed`, `active`, `done` | the variables `Build` and `AddPackages` close over, guarded by `mu` |
| `Best` | `claim`: lowest depth, then name, within peerMaxDepth, unvisited |
| one critical section = one action | claim and `active++`, `cond.Wait`, end with broadcast, settle with `active--` and broadcast |
| `Materialize` | the fetch outside the mutex: in the FS already, or resolved and extracted, or failed by choice |
| `stage`, `tree` | `materialize` in `main.go`: Build, scan for install targets, AddPackages, merge |

Version ranges, tarballs and files are abstracted: a fetch is one step that
fails (`MayFail`) or not; `BadManifest` names extract well but do not parse, so their
files stay. `Shipped` names are on disk before the walk. Two queued jobs of one name and
one depth are kept as one: `claim` only takes the first of them. A woken worker
re-tests in the step it wakes in; the model wakes all sleepers on a broadcast.

`DepTreeSerial` defines the serial breadth-first walk that the comment above `Build`
compares the pool with, one level after the other, given the set of lost
names (`Levels`), its first `MaxPkgs` packages (`SerialWalk`), and the
properties that compare the pool's result with it.

### VMGuard — deadlines

`stack` holds the calls into the virtual machine that are in progress, each
with a phase: running, returned, clearing (between the abort test and
`ClearInterrupt`), closing. `flag` is goja's interrupt; like the code it has no
owner, so whoever clears it clears what any timer has set. Timers are armed, firing
(their goroutine has started and `Stop` no longer helps), fired, stopped.
`Budget*` is the total budget: `aborted` first, `Interrupt` second.
`Unwind` is goja's own handling of an interrupt, including `leaveAbrupt`, which
clears the flag when the stack of goja is empty. Four kinds of call differ in
whether they refuse when aborted, arm a timer, and test before clearing.

A Go host function that is called while goja's stack is empty is not a frame of
the model, and natives that do not return to the interpreter loop are taken to end.

### Detonation — sequence and attribution

`Plan` is the host's fixed sequence, one for each role (the only runtime, the main one
beside workers, a worker), and `todo` what is left of it; `Roles` names the plans a
behaviour may start with. `code` is the stack of running sample code; each
frame has its kind (a module's or script's body, an export called by the sweep, a
timer, an exit handler), the ambient state to restore and, beside it, what is really
true: whose code it is, whether the sweep provoked it, and whether it stems from an
exit handler. Code acts by recording an indicator,
deleting a file, requiring a module, scheduling a timer, registering an exit
handler or returning. `last` is what the step recorded (an ordinary indicator, a
deletion, a decoded payload) and where the tracer filed it: among the scored ones
(`main`), muted, dev or nowhere. The properties compare truth and sink.

Abstractions: indicators have no content; `Date.now` advancing by itself
(`evasion.go:350`) is left out; a function of another package called directly
runs under its caller's scope in the code and is not distinguished; shell
scripts of the sweep are left out; the recovery in `safeCall` is total; the
queue of exit handlers is cut at `MaxExits + 1`, one more than is ever run.
Muted indicators do count for intrinsic signatures later (`verdict.go:167`);
"scored" here means filed among the scored ones by the tracer.

### JailPipe — the child process

A message is a number of chunks, a pipe holds `Capacity` of them, so either
side can block on the other. The child may crash at any point, the request may
fail to encode after part of it was written, and the context expires at any point
and kills. `parent` goes through decoding, failed or reaping, asking for the encoder's
error, returned, and `outcome` names the return statement taken.

### InstallGate — the gate

`Begin` is everything before the pool starts: the verb, the specs of the command line or of
`package.json`, the classification of remote ones, the override. The feeder,
the goroutines and the closer work on two unbuffered channels: a hand-over is one
step of both sides. `found` is what an analysis found. `excuses` is history: why something may
pass unscanned. The registry publishes between any two steps: `latest` numbers what a spec has
meant there, in the order it came to mean it. An analysis is of what the spec means at
that time, unless SCBoX resolves it otherwise (`Divergent`: ranges `Resolve` reads unlike npm or
falls back from, aliases, specs that name an existing path); then it is of any version or of none
of the package's. The package manager's own choice of what to install (`Closure`, `Resolved`) is
external and marked so: the newest version at that time, or any earlier one that
a lockfile or the tree pins (`Locked`, as for `npm ci`).

### ModuleLoader — modules, children and shell scripts

| TLA+ | Code |
|---|---|
| `cache` | `loader.cache`, with the placeholder `loadFile` leaves for cycles |
| `stack` | the Go call stack: bodies started by a require, as a child, by fork, by a shell, by `-e` |
| `scope`, `argv`, `depth` | `Tracer.scope`, `process.argv`, `bridgeDepth`, saved in a frame and put back when it ends |
| `Require` and its four branches | `require` by the form of the name; `withinBase` where the code asks it |
| `LoadFile` | `loadFile`: cached, absent, a stub, what does not compile or is refused, a body that starts |
| `Child`, `InlineChild`, `InlineShell`, `Fork`, `ShellFile` | `bridgeNodeChild`, `-e`, `forkModule`, `RunShellFile` |
| `EndModule`, `EndShell` | the code after the call, and the deferred functions |

What a body does is left open: it requires any name, starts any child, drops a
file and ends at any point, by returning or throwing. A name is a member of a set with a
syntactic form and the sequence of files that resolution would try
(`Candidates`); how package exports, imports, index files and extensions
make that sequence is a parameter. `runs` and `children` are history.

### OverlayFS — what the sample's files look like to it

`vfs` is the overlay by the spelling the sample used, `fds` the descriptors,
`redirect` the file a shell is writing. Reads ask the rule's bait, the overlay, the package and invention
in the order of the code (`ReadFake`, `ReadFakeContent`), probes in theirs
(`PathExists`). Two lists of names are kept apart, as in the code: `Bait` gives each name that
`fakeFileContent` has a case for the secret it serves, and `Sensitive` are those `readFake` follows.
`/.gnupg/secring.gpg` is in the first list alone, so is `/proc/self/environ`; the secrets the
environment holds (`EnvBait`) are followed from the start. Contents under twelve bytes
(`Brief`) are never followed. `disk` is the specification: a real machine given the same
calls. The properties list every way in which the two may part; whatever
else parts them is a violation. A content is a short sequence of pieces, told apart by origin.

### Fetch — resolve, download, extract

A worker resolves, looks into the cache, downloads, saves in three steps and loads; it may be
killed between any two, and others share the cache directory. Names and the texts of versions are
sequences of characters, because the name of the cache file is made from them: `CacheSlug` is
`cacheSlug` character by character, and `CacheName` joins two slugs with a dash. Ranges are sets of
alternatives of comparators, `Satisfies` as in `semver.go`; the property compares with npm's
intervals (`Floor`, `Meets`) where the two are meant to agree (`Agreed`). An
archive is a sequence of entries, folded as `extractTarGzToFS` does it, then
re-rooted and its manifest read.

### Stubs, Tracer, Signatures, Scoring — from behaviour to verdict

`Stubs` has one operator for each recording stub: the events, indicators, decoded
blobs and watched values it tells the tracer, and what the quiet of the sweep leaves
out. `Tracer` files them (`Take`): muted, dev or scored, under the
cap, and `Absorb` folds the workers' tracers into the main one: a slot is an event of one of
them, the slots are ranked as the stable sort orders them, and the event of
rank k gets the number k. `Signatures` is
`Verdict`: each reason with its weight, its condition and the view it is drawn
from (`scored` leaves muted indicators out, `intrinsic` takes them in). A string is an
item with traits, the names of the predicates and expressions that match it; their text is not
modelled. `Scoring` runs a plan: before the fork, in two workers at the same
time, after the merge. `told` is history, and `Replay` of it through one tracer is what the
properties compare with.

### Composition

`DepTree` runs before `JailPipe` and `Detonation` and shares no state with
them; `JailPipe` takes the work of `Detonation` as one step (`Detonated`);
`InstallGate` takes a whole analysis as one step. `VMGuard` and `Detonation` share
`aborted`, which `Detonation` and `ModuleLoader` have as an environment step at any point, the
weakest assumption about it. `Scoring` composes `Stubs`, `Tracer` and
`Signatures`; `DepTreeSerial` composes the pool with the serial walk, `DepTreeProofs` with the abstract one.

The `MC*` modules hold the graphs and sequences of the instances. Definitions
that a comment calls a *variant* are what the code would be with a plausible
bug, as are those beside a definition with a similar name (`KeepNothing` and
`Keep`); no behaviour uses them, and each checked property has one that violates it.

## 3. The runs

Each row is one configuration and one question. Deadlock is checked in the first
five: a finished behaviour stutters through an explicit `Done` (`Finished` in `DepTree`), so a deadlock
that TLC reports is a real one. The others have `CHECK_DEADLOCK FALSE`: they
stop when the operations, names or plan of the instance are used up, and the code they
model is sequential or, in `Fetch`, never waits for another process.

| Run | Distinct states | Instance | Properties, and what they show |
|---|---|---|---|
| `deps_pool` | 50,593 | 10 names, 3 workers, depth 4 (5 for peers), cap 7, fair | `PoolAgrees` (types, the shared counter, no early end, no lost wakeup), `ClaimedOnce`, `ClosedWalk`, `TreeOK` (every package asked for, the cap and its overrun, merge), `BuildResult` (the serial walk exactly, or its names), `Returns`, `ImplementsFlatInstall` |
| `guard_calls` | 98,286 | 4 calls of all kinds, depth 3, fair | `BudgetHolds`, `TimeoutHolds`, `GuardedCallsReturn`: the budget and the call's own timer hold and calls end, two races apart |
| `det_plan` | 1,597,905 | 2 files, 2 dependencies (one dev), all three roles, fair | `AmbientOK` (types, scopes, no silence left behind), `GenuineIsHeard` (what the sweep did not provoke is recorded), `ExclusionsHold` (what it provoked, and what dev modules do, is not scored), `Ends` |
| `jail_calls` | 532 | messages of 3 chunks, pipes of 1, fair | `ReportIsComplete`, `ChildIsReaped`, `BothEnd` (the call and the encoder) |
| `gate_scan` | 543,612 | 8 command lines of up to 2 specs or a `package.json`; a plain spec, one from git, one pinned, one resolved otherwise; pool of 2, 2 versions, fair | `DecisionIsJustified` (fails closed, refuses with reason), `ScanIsComplete` (all that was asked for, each result once), `LandedWasScanned`, `Decides` |
| `loader` | 129,729 | 8 files of all kinds, 11 names of all forms, 4 operations, children 2 deep | `RunsOnce`, `FramesBounded`, `PlaceholderOnlyWhileRunning`, `AmbientRestored` (arguments and scope), `ChildStartsScript` |
| `overlay` | 318,008 | 10 names in 6 sets, one descriptor, contents of 2 pieces | `LooksAgree` (types, probes against reads), `SecretsFollowCopies`, `ReadsBack`, `ProbesTruthfully` |
| `fetch` | 399,168 | 9 versions, 57 ranges, archives of up to 4 of 8 entries, 2 workers on one cache, names and versions that collide in it in three ways | `LoadedIsAsked`, `ResolvesToHighest`, `ExtractionIsExact` (types, nothing cut, closed tree, ordinary archives load) |
| `scoring` | 127,245 | plans over 33 stubs and 5 modes, 2 workers, sets of 3 | `MergeIsSound` (types, timeline), `ParallelIsSerial`, `MutedDoesNotInflate`, `MutingHidesNothing`, `DevDoesNotScore`, `LoneCapability`, `ScoreOnlyRises` |
| `guard_v_getter`, `loader_v_absolute`, `verdict_v_dev` | — | small instances | `EntryReturns`, `AbsoluteLoads`, `DevNeverScores`: one property each that fails; see *Findings* |

Most invariants are conjunctions of named parts, each with its own comment in the
module. Some parts state an exception where the code departs
from what it promises, and are then the sharpest true form of the promise that TLC confirmed:
`SameNamesUnlessBelated` (a package claimed deeper than necessary, at either depth limit),
`BudgetHolds` and `GuardedCallsReturn` (`raced`, a budget lost to a nested
clear, and `HostReads`, a getter read by the host), `TimeoutHolds` (a call that
made no other), `SweepScoresOnlyFromExits` (exit handlers),
`DeletionsRecordedOutsideTimers`, `DevModulesNeverScored` (bodies only),
`LandedWasScanned` (only what was asked for, git specs and those resolved otherwise apart; of what
is pinned, some version), `SecretsFollowCopies` (a bait that a name in use serves without being
sensitive),
`ReadsBack`, `ProbesTruthfully` and `ProbesAgree` (each exception is a disjunct),
`ResolvesToHighest` (`Agreed` comparators, no pre-release), `LoadedIsAsked` (a cache file
of the same name; never for a plain name and version), `ParallelIsSerial` and the properties of muting (`NothingDropped`: no
set was full) and `LoneCapability` (what scores by itself is left out, and deletions of files that are
a sandbox probe as well). What happens in the exception is under *Findings*.

### Bounds, and why they are enough

- *deps*. The graph has each shape the walk distinguishes: a cycle (2 ↔ 5),
  packages on paths of two lengths (1 and 10), a peer edge that leaves below `MaxDepth`,
  one reachable through dev only and one through both, one on disk (6), two
  the source mentions of which the second walk may add one (`MaxTargets`), one
  whose manifest is broken (3), four that may fail. Belated packages occur both above
  and at `MaxDepth`, and names are lost. Three workers are the fewest for which one
  sleeps, one fetches and one ends. The cap of 7 is reached in some behaviours
  and not in others, so the capped and the closed walk are both seen.
- *guard*. A stray interrupt needs two calls, the race of a nested clear two
  levels; a third level lets a call be both inside and around another, and four
  calls let a late timer meet a call at each level.
- *det*. One exit handler, two callbacks per drain and two pending timers make every
  cap of the code reachable; two delays make the drain reorder. One act per
  frame, with frames nested through requires, reaches each pair of an act and an
  ambient state. Two files let the sweep load what a later probe wants.
- *jail*. A request and a report are longer than a pipe, so both sides block;
  an error answer is shorter than a report.
- *loader*. Two files that require each other, one that does not compile, one that
  drops what shadows another (`gen` before `lib`), one outside the package: four
  operations close a cycle through a child and end it by a throw, and reach the
  depth limit of two and the refusal beyond it. The proofs need no bound.
- *overlay*. Names interact only when they denote one file or one is copied to
  the other, so pairs are enough: two spellings of a package file, a secret and
  a staging file, two names that serve one secret of which one is followed, the environment as a
  file and an artifact that is sensitive, a name under a rule, one of those a staging file. Two pieces tell an append from an overwrite.
- *fetch*. Versions and comparators lie on both sides of each boundary (0.0.x,
  0.x, x); four entries repeat a path, cross the cap of 4 bytes inside and exactly at the end of an entry
  and pass the cap of 3 entries. Two workers with two requests each meet in every step of a save. In the cache, two scoped names
  have one slug, two versions have one (`+r` and `-r`), and `a` at `1.0.0-2.0.0` meets `a-1.0.0` at
  `2.0.0`; plain pairs beside them never meet another.
- *scoring*. Each pair of stubs that chain, one in each worker, in all modes of
  one; each other stub alone and with a request; 13 longer chains cut in three
  ways over the phases, as long as the longest reason needs. Sets of three fill up.
- *gate*. Two goroutines: they end in either order, and the closer and the feeder
  see them do so. Two versions are enough for one that was not scanned, later or
  earlier than the one that was. Each kind of spec comes with a plain one, the git spec before and
  after it.

## 4. Fairness

- **Installer**: weak fairness of each worker's step and of the driver. A
  fetch ends because the HTTP client has an overall timeout; the rest is the Go
  scheduler.
- **VMGuard**: weak fairness of unwinding, of the abort test and the clear, of `Stop` and
  of the timers. None for making a call or returning from one: the code under
  analysis is under no obligation, and only the deadlines end it.
- **Detonation**: weak fairness of the host's next step and of the
  return of a piece of code, the latter because *VMGuard* shows when the
  deadlines end it. It is an assumption here, and `guard_v_getter` is where it fails.
- **JailPipe**: weak fairness of the encoder, the child's reading and writing, the
  parent and the deadline. None for finishing the detonation, crashing or
  failing to encode.
- **ModuleLoader, OverlayFS, Fetch, Scoring**: none; only safety is claimed. That a
  sample's code ends is *VMGuard*'s, that a fetch ends is the HTTP timeout's.
- **InstallGate**: weak fairness of the gate, the pool, the feeder and the closer. None
  for the registry or the operator, who may never answer the prompt: `Decides`
  says that a decision or the prompt is reached.

## 5. The proofs

All theorems are checked by TLAPS 1.4.5 with Z3, Zenon and LS4 and hold for every value
of the constants under the named assumptions of the modules, which TLC
evaluates in the runs.

**Installer** (`DepTreeProofs`). `IInv == Core /\ Walk`. `Core` says that
the types are right, each busy worker holds a legal job, the counter `active`
counts exactly the busy workers and nobody works between walks; the counter is
what the end of a walk is decided on, so nothing else can be shown without it.
`Walk` adds where names are: claimed once, everything asked for queued or
claimed (`Queued`), nobody leaves before the end, nobody sleeps with work to
do. `NoEarlyEnd` needs `NoLostWakeup` and both need `Queued` for the closure of a
returned walk. From it: `ClaimsAreExclusive`, `TerminationDetection`,
`WakeupsAreNotLost` (together `PoolAlwaysAgrees`), `ReturnedWalkIsClosed`, `CapOverrunIsBounded`, `MergedTreeIsFlat`,
`TreeStaysWithinCaps` (the places of packages in the order of the final sort are distinct and below the cap).
`AskedFor` (every queued or claimed job was asked for) makes
`Justified` inductive (`TreesAreJustified`, all of `TreeOK`); `Refinement` shows that the
pool, through the view that forgets whether a package was downloaded, implements `FlatInstall`.

`BuildIsSerial` compares with the serial walk. While no two fetches overlap,
claims happen in the order of the walk, a job carries the taint of the first
package that asks for its name, and a name that is asked for is lost, claimed no deeper, or
queued; the package claimed last separates what is finished from what is not. For the
names alone, whatever overlaps, it is enough that each claimed package is no
shallower than the walk puts it, and that its dependencies are followed. The
levels of the recursive definition are compared with the claimed packages depth
by depth: an induction over the depth that takes a least counterexample (`LeastOf`),
as the library's induction theorems need an operator for an argument. `Refinement` and `BuildIsSerial`
assume that a manifest lists finitely many dependencies.

**Deadlines** (`DeadlineProofs`, first half, about `VMGuard`). `IInv` is the shape of the stack (only
the innermost call is past running, and a nested call is of a kind that tests before it
clears), `AbortsFirst`, `NoLateClear` (after the budget has struck no
nested call is about to clear, the race apart) and `BudgetHolds`. `BudgetIsFinal` holds at any depth;
`TimeoutIsKept` adds that the calls below the innermost one are older than the last call made
(`Ages`), so that the end of a later call never leaves on top a call that has made no other; it
holds at any depth too. Without that restriction the property (`TimeoutAlwaysHolds`) is false.

**Jailed worker** (`DeadlineProofs`, second half, about `JailPipe`, whose names start
with `Jail` where both modules would have one). `Flow` (chunks are conserved in both
pipes), `Honest` (a child that reports has read all of the request) and `Known`
(what the parent's place says of the child) make `ReportIsComplete` inductive.
`ReportsAreComplete`, `ChildrenAreReaped`.

**Gate** (`InstallGateProofs`). `IInv` says where each job is: with the
feeder, with exactly one goroutine (`Held`), or counted, and what is then known of `blocked`
(`Counted`), and that a decision rests on a finished pool (`Settled`). `GateFailsClosed`,
`RefusalsAreJustified`; with the balance of the counters against the jobs in flight
`ResultsAreCounted`; with the coverage of the request `InstallsAreScanned`. `DecisionsAreJustified` and
`ScansAreComplete` are the two conjunctions the run checks. `LandedAreScanned` adds `Witnessed`
(of every analysed job that SCBoX resolves as the package manager does, a version has been seen that is
no later than the registry's): `latest` only grows, so what lands can be later than what was seen, and
earlier only if it is pinned. It uses `GateFailsClosed` and `InstallsAreScanned` at the step that
installs. Assumed: `Remote`, `Locked` and `Divergent` are any sets of packages; what is in none of
them the two tools resolve alike at one time.

**Loader** (`ModuleLoaderProofs`). For any files, names, limits and depth. Every step is shown to
be one of three shapes: the stack stays, loses its last frame, or gains one whose saved
scope, arguments and run number are the current ones. `TypeCorrect` carries `DepthCounts` (bridgeDepth is the
number of children on the stack) with the types: without it a child that ends
could take the depth below zero. The other invariants are each proved from it and a strengthening of
their own: `RunsOnce` needs `Uncached` (a script whose runs are used up is cached, and only a
child takes it out), `ArgvIsRestored` and `ScopeIsRestored` need `Saved` (each
frame holds what its predecessors establish), `RecursionIsBounded` needs `Nesting` (between two frames
of one file there is a child of it), `PlaceholdersAreReplaced` that the
innermost frame of a file is the run the cache names. `ChildrenRunFresh` and
`AbortIsFinal` are action properties from the types alone.

**Detonation** (`DetonationProofs`). For any package, plan, numbers of timers and exit handlers and
depth. A step leaves the stack of code alone (an exit that is charged to the top frame
apart), pushes a piece of code, or pops one and restores what it saved. `Fits(c, n, s, m, q)`
says that scope, muted and quiet are what the first n pieces of code should run under, and
`Saved` that it holds of the ambient state at the full depth and of what each frame saved at the
depth below it; without the second half nothing is known after a return. `JobsFit` carries
the muting over to the queued timers, which run it again after the sweep is over. `AmbientIsRestored` follows
from `Saved` alone. `GenuineIsAlwaysHeard` and `ExclusionsAlwaysHold` are about `last`, the record of
the latest step: `Filed` shows that of the three steps that record each files where it should
when the ambient state fits, and the others record nothing.

The type invariants of `VMGuard`, `JailPipe`, `InstallGate` and `ModuleLoader` are theorems and
not in a run of their own (that of `Detonation` is part of `AmbientOK`); so are `EscapesAreBlocked` and `AbortIsFinal`, which hold in every state of the `loader`
instance too.

**Overlay** (`OverlayFSProofs`). For any names, any relation of names to files and any bounds. `LookingAgrees`
is what the three layers answer to a probe and to a read in one state, with the types.
`SecretsFollowCopies` is inductive with `EnvFollowed`, that the secrets of the environment are followed
from the start (`SecretsAreFollowed`): whatever puts one name's content under another reads it by a
call that follows it if the name is sensitive, and a name that is not serves only what the property
excepts (`ServedIsSafe`). Assumed: baits are told apart from what the sample and the package
write, and none is as short as what is ignored (`BaitAssumption`).
`WrittenReadsBack` and `ProbesStayTruthful` are about a step. Each kind of call is shown to
leave all that is seen of a name as it was (`Same`, `Kept`), to write it, or to be one of the
exceptions the property lists (`Touched`). For the time a shell collects a redirection
`Collected` is invariant: what its buffer, the overlay and the file of the real machine
have in common, without which nothing is known when it closes.

**Fetch** (`FetchProofs`). For any registry, archives and number of workers. `IInv` says that a
file in the cache bears the name of the tarball whose bytes it holds, in full or as
the first part of a save in progress, and that what a worker holds is what its place in
the download says (`Invariance`). `CacheServesWhatWasAsked` follows, with what a slug leaves of a
text (`SlugSaysAll`) and where the parts of a joined name end (`PartsOfJoined`): a plain pair shares its
file with no other (`PlainIsAlone`). Assumed for it: names and versions are spelled with one
or more characters, and a package lists no version twice (`SpellingAssumption`). `ResolutionIsHighest` shows
that the loop over the published versions ends at one that satisfies the range
and that no other one exceeds, and that `Satisfies` and npm's intervals agree on the comparators
meant. `ExtractionExact` follows the fold over the archive
entry by entry: the sum of the sizes and the files read so far; the fold itself is a function on
a prefix of the archive, shown to exist (`ReadingExists`, `SumExists`) before it is used.
Assumed: a package has finitely many published versions, versions have three natural
components (`parseVer` reads a missing one as zero), and an archive is a finite sequence of entries.

**Scoring** (`ScoringProofs`). For any sample, rule file, plans, number of workers and caps.
`IInv` says where the run is (`PhaseInv`, `PlanInv`), what its log `told` holds (`LogInv`) and, of each
tracer, that it is `Well` with respect to the steps of the log it was told: its own
while the workers run, all of them once they are merged. `Well` is

- `Holds`: each set has only indicators of those steps that belong there, stays within its cap, and
  has all of them if no set would be full; what is watched and tainted is exactly theirs;
- `Records`: a bijection puts each event in the log at its place in the timeline, in the order of time and,
  for events of one runtime, of recording.

Nothing weaker survives the merge: that the verdict is that of one runtime can only be
said of the steps, since during the exploration no tracer holds them all. One tracer that
replays the log is shown to be `Well` too (`IsReplay`), and with it the run in which
muted or dev steps do nothing and the one in which nothing is muted. `MergesAreSound` follows from `Records`,
once the merge is shown to rank the slots without gaps and to keep each
runtime's order; the four comparisons (`ParallelVerdictIsSerial`, `FuzzDoesNotInflate`, `MutingHidesNoMalice`,
`DevDependenciesDoNotScore`) from `Holds` and `Records` together, since the signatures
read sets of indicators and count events but never ask for the order: events that mirror one another
(`Mirrors`, an injection that keeps category, operation, arguments and notes) have the same reasons.

`EvidenceNeverExonerates` is about every step. Each signature is shown to be monotone
in the view it is drawn from (`More`): with more indicators and more events it has no fewer reasons and no
lower weights. The sum over reasons and the capped folds over sets are first shown to exist as functions on
the finite subsets (`Summing`, `Adding`), which says what they return whatever element is folded first.
`LoneCapabilitiesStayLow` goes through the reasons one by one: `Lone` is what a log of one stub can
contain, `Gated` the conditions that stay closed, and what remains weighs less than 30.

Assumed: a text has finitely many indicators of known kinds (`TextAssumption`), there are
finitely many rules with weights from 1 to 100 and known sinks (`RuleAssumption`, what `validate` of
`rules.go` enforces), the cap is a natural number (`CapAssumption`), workers are distinct (`WorkerAssumption`), plans
are finite sequences of calls of stubs (`PlanAssumption`), the clock is cut at a bound (`ClockAssumption`).

**Model-checked only**: all liveness (`Returns`, `GuardedCallsReturn`, `Ends`,
`BothEnd`, `Decides`), as TLAPS 1.4.5 does not reason about ENABLED, on which
weak fairness rests. Every other property of a passing run is a theorem. Findings are TLC counterexamples.

## 6. Findings

Three have a run with one property, which TLC violates; `PROJECT.json` quotes the
lines.

| Run | Promise | What the code does |
|---|---|---|
| `guard_v_getter` | `runtime.go:73` execution becomes a no-op | a getter read after the abort runs with no deadline |
| `loader_v_absolute` | `require.go:360` an absolute path is mapped back to its file | `resolveFile` joins the requiring directory to it, and require throws |
| `verdict_v_dev` | `tracer.go:63` dev dependencies are excluded from the score | what one does while the sweep is muted is filed as muted, and muted intrinsic behaviour is scored |

Six more are stated as a property beside the true form of the promise. They are not
part of a run; in the instance named, TLC finds each violated.

| Property | In | Promise | What the code does |
|---|---|---|---|
| `SameNamesAsSerialWalk` | `DepTreeSerial`, `deps_pool` | `tree.go:60` matches a serial BFS | a package claimed too deep, at the depth limit, loses its dependencies; with `--max-depth` above 20, the fixed limit for peers (`tree.go:77`) loses the rest |
| `TimeoutAlwaysHolds` | `VMGuard`, `guard_calls` | `runtime.go:21` a budget for each callback | a nested call's end clears the outer call's interrupt |
| `BudgetAlwaysHolds` | `VMGuard`, `guard_calls` | `README.md:87` hard cap | the budget's interrupt is cleared between a test and a clear |
| `SweepNeverScores` | `Detonation`, `det_plan` | `tracer.go:71` the sweep cannot make a verdict | an exit handler the sweep registered is scored |
| `NothingUnscannedLands` | `InstallGate`, `gate_scan` | `README.md:110` nothing lands unscanned | dependencies of what was asked for are not scanned; what a lockfile pins lands in a version that was not; SCBoX may have resolved a spec to another version or to a path |
| `EverySecretFollowed` | `OverlayFS`, `overlay` | `evasion.go:137` values we then capture | `/.gnupg/secring.gpg` serves the password of `/.pgpass` (`evasion.go:262`) and is not in `sensitivePath` (`signatures.go:84`): read or copied alone, it is never followed |

Read from the code while modelling. Where a module is named, the behaviour is one of the
model's; the rest is only read.

| Promise | What the code does | In |
|---|---|---|
| `tree.go:59` claimed at the shallowest depth | a deep job found first is claimed first | DepTree |
| `tree.go:21` dev means dev only | the taint is that of the faster parent | DepTree |
| `main.go:73` maximum packages to materialize | fetches in flight still materialize (`CapOverrun` bounds by how much) | DepTree |
| `tree.go:22` installed at run time | also set on declared packages the first walk lost | DepTree |
| a failed package is not in the tree | one whose manifest does not parse leaves its files in the shared FS (`tree.go:269`) | DepTree |
| `runtime.go:21` a budget for each callback | a timer that fired before `Stop` stops the next call | VMGuard |
| | `tryConstruct` clears the interrupt without asking whether the budget has struck (`explore.go:311`) | VMGuard |
| `builtins.go:298`, `runtime.go:540` deletions recorded outside the sweep | not in the sample's own timers, which run quiet though not muted: decoded payloads and eval sources of those are not recorded either | Detonation, Stubs |
| `tracer.go:63` dev is not scored | its timers and exit handlers run as the root's | Detonation |
| `process.go:180` exit listeners are fired | not in the runtimes of workers: the steps that end an analysis are written twice (`main.go:1063`) and differ | Detonation |
| `runtime.go:111` import-time behaviour is recorded | not if a swept file was the first to require the module (`main.go:999`) | Detonation |
| `runtime.go:534` the delay elapses | a nested timer's delay is counted from zero | Detonation |
| | `setQuiet` and `SetScope` are put back by plain statements (`explore.go:378`): a panic out of `safeCall` would skip them | — |
| `worker.go:81` prefer the underlying cause | the child's own decode error is returned instead | JailPipe |
| `README.md:110` nothing lands unscanned | the version is resolved again at install, by the package manager's own rules and its lockfile | InstallGate |
| `main.go:338` remote specs need permission | not when they come from `package.json` | InstallGate |
| | children share the module cache of their parent; fork of a loaded module runs nothing, spawn of it runs it again | ModuleLoader |
| | a shell script that runs itself has no depth guard (`shell.go:408`); the time limits alone stop it | ModuleLoader |
| | `node lib/x` without its extension, scripts dropped at run time and run by a shell (`shell.go:141` reads the package alone) and dropped `node_modules` are not found | ModuleLoader |
| | relative drops are kept under their spelling and not found under the resolved one | OverlayFS |
| probes and reads agree | an artifact that was written reads back, and `existsSync` denies it; a staging file never written reads as filler, and the shell reports it present | OverlayFS |
| | `appendFile` overwrites (`builtins.go:244`), `readSync` starts at 0 whatever was read (`builtins.go:536`), rm of an overlaid file uncovers the package's (`runtime.go:286`), a rule's bait hides what was written over it (`evasion.go:89`), the static listing leaves the overlay out (`evasion.go:271`) | OverlayFS |
| `semver.go:8` falls back to the latest | a range that does not parse takes the highest version | Fetch |
| npm's ranges | a pre-release equals its release; `>= 1.2.0` with a space means exactly 1.2.0; `~1`, `^0`, `^0.0.x`, `>1`, `<=1`, hyphen ranges and `X` mean something else | Fetch |
| | two names, two versions, or a name and a version against another pair can have one cache file (`registry.go:144`, `:179`), the cache is written in place (`:198`), a download is cut at 256 MB without an error (`:192`), the shasum is not checked | Fetch |
| `package.go:41` odd types are tolerated | in `scripts` and `dependencies` they refuse the manifest | — |
| | files of an archive beside its package directory are dropped, entries whose name starts with ".." skipped | Fetch |
| dev behaviour is kept apart | watched secrets follow neither the dev nor the muted route | Tracer |
| | the set of indicators fills in order of arrival, and the merge of the workers has no cap (`ioc.go:81`) | Tracer |
| | bodies of XMLHttpRequest, WebSocket and EventSource never become payloads (`globals.go:58`, `verdict.go:240`); a shell's redirection puts its content where the search for injection does not look (`shell.go:565`, `verdict.go:350`) | Stubs, Signatures |
| | endpoints of abused services on benign hosts are dropped (`verdict.go:207`) before their reason is asked | Signatures |
| | an install hook of husky with rimraf scores 38, suspicious; a lone token decoded through `Buffer.from` scores 30; deleting a file that gives a sandbox away counts as a deletion (18) and as a probe (20), suspicious by itself; the wiper is a co-occurrence of two common things | Signatures |
| `loadInput` of a registry spec | a spec that names an existing path is loaded from disk | InstallGate |
| `README.md:114` `--dev` includes devDependencies in the gate | they are included by default | — |

## 7. What is not modelled

- **Stubs that have no state**: most of the fake Node environment and the fake shell
  returns a plausible value or a canned output and records nothing, or records
  it in the one way `Stubs` has a kind of call for. Shapes of objects, error texts, the
  cipher of `modCrypto`, the profile of the machine and the command table are data.
- **Parts of the file calls**: offsets of descriptors, listings, watchers, streams
  beyond the record of what was written.
- **Text to text**: transpilation, static recovery and deobfuscation, the regular
  expressions of the verdict, reading and validating rule files, reports,
  flags. In `Signatures` an expression is a trait of an item, in `Scoring`
  a rule file is its sources, sinks and values.
- **Clocks against each other**: the worker runtimes of `exploreParallel` each arm a
  total budget of their own while the parent kills after one budget and 15 s
  (`main.go:1059`). No module counts seconds; `JailPipe` has the outcome.
- **How a name leads to a file**: package exports and imports, index files and
  extensions give `ModuleLoader` its `Candidates`; the algorithm is not modelled.
- **Shell shim**: runs the analysis per package and then npm, sequentially.
- **Vendored code**: only goja's interrupt flag, from its source, in `VMGuard`.
- **npm and the registry**: external; `InstallGate` has the three facts the gate
  depends on, that npm installs a closure, resolves again and keeps to a lockfile, `Fetch` a packument and
  archives as parameters.

## 8. Plan

Done, in this order: the installer and its refinement; deadlines;
detonation; the jailed worker; the gate; the loader; the overlay; registry, ranges and extraction;
stubs, tracer and verdict with the parallel sweep; proofs of all their safety. Open:

1. The budgets of the workers of `exploreParallel` against the parent's deadline,
   as clocks that `VMGuard` and `JailPipe` share.
2. Resolution of names through package exports and imports, in front of `ModuleLoader`.

## 9. Running it

```
tlc -workers 2 -config deps_pool.cfg MCDepTree
tlc -workers 2 -config guard_calls.cfg VMGuard         # and guard_v_getter.cfg
tlc -workers 2 -config det_plan.cfg MCDetonation
tlc -workers 2 -config jail_calls.cfg JailPipe
tlc -workers 2 -config gate_scan.cfg MCInstallGate
tlc -workers 2 -config loader.cfg MCModuleLoader       # and loader_v_absolute.cfg
tlc -workers 2 -config overlay.cfg MCOverlayFS
tlc -workers 2 -config fetch.cfg MCFetch
tlc -workers 2 -config scoring.cfg MCScoring           # and verdict_v_dev.cfg
tlapm DepTreeProofs.tla                                # and the other *Proofs
tlapm ScoringProofs.tla                                # the longest, about 8 minutes
```
