----------------------------- MODULE Detonation -----------------------------
(* One sandbox runtime working through a package: main.go detonate, the       *)
(* timers, exit handlers and sweep of internal/sandbox, and the attribution   *)
(* of what the code does by internal/trace/tracer.go.                         *)
(*                                                                            *)
(* The host works through a fixed plan: lifecycle scripts, the entry point,   *)
(* the force-execution sweep, the probe of every dependency, then the         *)
(* deferred work.  What the code under analysis does on the way is recorded   *)
(* under three pieces of ambient state that are set and restored around every *)
(* piece of code: the scope (which package is running), muted (the sweep      *)
(* provoked it) and quiet (do not record the sweep's artefacts).              *)
(*                                                                            *)
(* Every frame of running code also carries what is really true of it: whose  *)
(* code it is and whether the sweep provoked it.  The properties compare the  *)
(* two.                                                                       *)
EXTENDS Naturals, Sequences, SequencesExt, FiniteSets

CONSTANTS
    Roles,          \* which runtimes there are: see Plan
    Root,           \* the scope "(root)"
    Deps,           \* the installed packages, deepest first (a sequence)
    DevDeps,        \* those reached only through devDependencies
    Files,          \* the root's source files, in walk order (a sequence)
    Entry,          \* the entry point, one of Files
    DropperCatch,   \* those with a catch near a require, in the same order
    Explore,        \* Config.Explore
    Delays,         \* the delays timers are scheduled with
    MaxTimers,      \* Config.MaxTimers: callbacks run by one DrainTimers
    MaxExits,       \* the 64 exit handlers FireExitHandlers runs
    MaxPending,     \* maxPendingTimers
    ActsPerFrame    \* bound: what one piece of code does before it returns

Module     == ToSet(Files) \cup ToSet(Deps)
Owners     == {Root} \cup ToSet(Deps)
OwnerOf(m) == IF m \in ToSet(Deps) THEN m ELSE Root

ASSUME PackageAssumption ==
    /\ Root \notin ToSet(Deps) /\ ToSet(Files) \cap Owners = {}
    /\ DevDeps \subseteq ToSet(Deps)
    /\ Entry \in ToSet(Files) /\ ToSet(DropperCatch) \subseteq ToSet(Files)
    /\ Files \in Seq(ToSet(Files)) /\ Deps \in Seq(ToSet(Deps))
    /\ DropperCatch \in Seq(ToSet(Files))
ASSUME LimitAssumption ==
    /\ Roles \subseteq {"alone", "main", "worker"}
    /\ Explore \in BOOLEAN /\ Delays \subseteq Nat
    /\ {MaxTimers, MaxExits, MaxPending, ActsPerFrame} \subseteq Nat

VARIABLES
    todo,           \* what is left of the host's plan
    ran,            \* callbacks the current DrainTimers or FireExitHandlers ran
    code,           \* the running pieces of code, the innermost last
    loaded,         \* the module cache
    scope, muted,   \* Tracer.scope and Tracer.muted
    quiet,          \* Runtime.exploreQuiet
    pending, exits, \* Runtime.pending and Runtime.exitHandlers
    clock,          \* Runtime.clockOffsetMs
    aborted,        \* Runtime.aborted
    last            \* history: what the last step recorded, and where it was filed

ambient == <<scope, muted, quiet>>
deferred == <<pending, exits>>
vars == <<todo, ran, code, loaded, ambient, deferred, clock, aborted, last>>

(* A step that records nothing.                                               *)
Nothing == [kind |-> "none", sink |-> "nowhere"]
Silent  == last' = Nothing

-----------------------------------------------------------------------------
(* The plan of detonate.                                                      *)

Do(op, m) == [op |-> op, on |-> m]

Scripts == [i \in 1 .. Len(Deps) |-> Do("script", Deps[i])] \o <<Do("script", Root)>>

(* ExploreFiles: each file is loaded and its exports are called; then the     *)
(* files with a dropper's catch are run again, from scratch.                  *)
WithExports(op, files) == [i \in 1 .. 2 * Len(files) |->
    Do(IF i % 2 = 1 THEN op ELSE "fuzz", files[(i + 1) \div 2])]
Sweep   == WithExports("load", Files)
Resweep == WithExports("reload", DropperCatch)

Probes == [i \in 1 .. Len(Deps) |-> Do("import", Deps[i])]

Start    == Scripts \o <<Do("import", Entry)>>
Explorer == IF Explore THEN Sweep \o Resweep \o Probes ELSE <<>>
Deferred == <<Do("drain", Root), Do("exit", Root), Do("drain", Root)>>

(* With one job a runtime does everything.  With more, the main one leaves    *)
(* the exploration to workers (exploreParallel), each with a runtime of its   *)
(* own; Files and Deps are then its shards.                                   *)
Plan == [alone  |-> Start \o Explorer \o Deferred,
         main   |-> Start \o Deferred,
         worker |-> Explorer \o <<Do("drain", Root)>>]

Over == todo = <<>>
Now  == Head(todo)

-----------------------------------------------------------------------------
(* Where an indicator is filed.                                               *)

(* Tracer.sink                                                                *)
Sink == IF muted THEN "muted" ELSE IF scope \in DevDeps THEN "dev" ELSE "main"

(* Tracer.scoredSink, for decoded payloads                                    *)
ScoredSink == IF scope \in DevDeps THEN "dev" ELSE "main"

-----------------------------------------------------------------------------
(* Pieces of code.  Each saves the ambient state and restores it.             *)

Frame  == [kind : {"body", "export", "timer", "exit"},
           owner : Owners, provoked : BOOLEAN, afterExit : BOOLEAN,
           acts : 0 .. ActsPerFrame, scope : Owners, muted : BOOLEAN, quiet : BOOLEAN]

Top == code[Len(code)]

Run(kind, owner, provoked, afterExit) ==
    code' = Append(code, [kind |-> kind, owner |-> owner, provoked |-> provoked,
                          afterExit |-> afterExit, acts |-> 0,
                          scope |-> scope, muted |-> muted, quiet |-> quiet])

(* loadFile runs a module that is not in the cache, in its package's scope.   *)
Body(m, provoked, afterExit) ==
    /\ Run("body", OwnerOf(m), provoked, afterExit)
    /\ loaded' = loaded \cup {m}
    /\ scope' = OwnerOf(m)

Cached(m) == m \in loaded

(* The code returns or throws: a guard recovers and the ambient state is      *)
(* restored.                                                                  *)
\* Variant: a module leaves its scope behind.
RestoreKeepsScope == scope' = scope /\ quiet' = Top.quiet /\ muted' = Top.muted
\* Variant: the quiet of a sweep stays on after it.
RestoreKeepsQuiet == scope' = Top.scope /\ quiet' = quiet /\ muted' = Top.muted
Restore == scope' = Top.scope /\ quiet' = Top.quiet /\ muted' = Top.muted

Returns ==
    /\ code # <<>>
    /\ code' = Front(code)
    /\ Restore
    /\ Silent
    /\ UNCHANGED <<todo, ran, loaded, deferred, clock, aborted>>

-----------------------------------------------------------------------------
(* What running code does.                                                    *)

MayAct == code # <<>> /\ Top.acts < ActsPerFrame /\ ~aborted
Charge == code' = [code EXCEPT ![Len(code)].acts = @ + 1]

(* Any recorded behaviour; a deletion, which is not recorded while quiet; a   *)
(* decoded payload, which is filed even when muted.                           *)
Behave(kind, sink) ==
    /\ MayAct
    /\ Charge
    /\ last' = [kind |-> kind, sink |-> sink]
    /\ UNCHANGED <<todo, ran, loaded, ambient, deferred, clock, aborted>>

Record  == Behave("record", Sink)
Delete  == Behave("delete", IF quiet THEN "nowhere" ELSE Sink)
Decoded == Behave("decoded", ScoredSink)

(* queueTimer and queueCallback (delay 0): the job remembers whether the      *)
(* tracer was muted.                                                          *)
Job(delay) == [owner |-> Top.owner, provoked |-> Top.provoked,
               afterExit |-> Top.afterExit,
               delay |-> delay, muted |-> muted]

\* Variant: a timer does not remember that the sweep scheduled it.
ForgetfulJob(delay) == [Job(delay) EXCEPT !.muted = FALSE]
QueuedJob(delay) == Job(delay)

Full == Len(pending) >= MaxPending

QueueTimer(delay) ==
    /\ MayAct
    /\ Charge
    /\ pending' = IF Full THEN pending ELSE Append(pending, QueuedJob(delay))
    /\ Silent
    /\ UNCHANGED <<todo, ran, loaded, ambient, exits, clock, aborted>>

(* process.on('exit', ...); one more than FireExitHandlers runs is enough to  *)
(* see its cap, and bounds the queue here.                                    *)
OnExit ==
    /\ MayAct
    /\ Charge
    /\ exits' = Append(exits, [owner |-> Top.owner, provoked |-> Top.provoked])
    /\ Len(exits) <= MaxExits
    /\ Silent
    /\ UNCHANGED <<todo, ran, loaded, ambient, pending, clock, aborted>>

(* require of a module that has not run yet.                                  *)
Require(m) ==
    /\ MayAct
    /\ ~Cached(m)
    /\ Body(m, Top.provoked, Top.afterExit)
    /\ Silent
    /\ UNCHANGED <<todo, ran, muted, quiet, deferred, clock, aborted>>

-----------------------------------------------------------------------------
(* The host.                                                                  *)

Hosting == code = <<>> /\ ~Over
NextOp  == todo' = Tail(todo)

(* RunLifecycleScoped                                                         *)
Script ==
    /\ Hosting /\ ~aborted
    /\ Now.op = "script"
    /\ Run("body", Now.on, FALSE, FALSE)
    /\ scope' = Now.on
    /\ NextOp
    /\ Silent
    /\ UNCHANGED <<ran, loaded, muted, quiet, deferred, clock, aborted>>

(* The entry point, and RequireDeps: nothing runs if the module was loaded.   *)
Import ==
    /\ Hosting /\ ~aborted
    /\ Now.op = "import"
    /\ NextOp
    /\ IF Cached(Now.on)
       THEN UNCHANGED <<code, loaded, scope>>
       ELSE Body(Now.on, FALSE, FALSE)
    /\ Silent
    /\ UNCHANGED <<ran, muted, quiet, deferred, clock, aborted>>

(* ExploreFiles: load a file under setQuiet(true).                            *)
SweepLoad ==
    /\ Hosting /\ ~aborted
    /\ (Now.op = "load" /\ ~Cached(Now.on)) \/ Now.op = "reload"
    /\ NextOp
    /\ Body(Now.on, TRUE, FALSE)
    /\ muted' = TRUE /\ quiet' = TRUE
    /\ Silent
    /\ UNCHANGED <<ran, deferred, clock, aborted>>

(* ForceExecute: call its exports under setQuiet(true).  No scope is set.     *)
Fuzz ==
    /\ Hosting /\ ~aborted
    /\ Now.op = "fuzz"
    /\ NextOp
    /\ Run("export", OwnerOf(Now.on), TRUE, FALSE)
    /\ muted' = TRUE /\ quiet' = TRUE
    /\ Silent
    /\ UNCHANGED <<ran, loaded, scope, deferred, clock, aborted>>

(* DrainTimers takes the job with the least delay, the first of several.      *)
Least(i) ==
    /\ \A j \in 1 .. Len(pending) : pending[i].delay <= pending[j].delay
    /\ \A j \in 1 .. i - 1 : pending[i].delay < pending[j].delay

\* Variant: no cap on the callbacks one drain runs.
DrainUncapped == pending # <<>>
DrainGoesOn == pending # <<>> /\ ran < MaxTimers

DrainTimer ==
    /\ Hosting /\ ~aborted
    /\ Now.op = "drain"
    /\ DrainGoesOn
    /\ ran' = IF ran < MaxTimers THEN ran + 1 ELSE ran
    /\ \E i \in 1 .. Len(pending) :
          LET job == pending[i] IN
          /\ Least(i)
          /\ pending' = RemoveAt(pending, i)
          /\ clock' = IF job.delay > clock THEN job.delay ELSE clock
          /\ muted' = job.muted
          /\ quiet' = TRUE
          /\ Run("timer", job.owner, job.provoked, job.afterExit)
    /\ Silent
    /\ UNCHANGED <<todo, loaded, scope, exits, aborted>>

(* The drain is over; at the cap, what is left is dropped.                    *)
DrainEnds ==
    /\ Hosting /\ ~aborted
    /\ Now.op = "drain"
    /\ ~DrainGoesOn
    /\ pending' = <<>>
    /\ ran' = 0
    /\ NextOp
    /\ Silent
    /\ UNCHANGED <<code, loaded, ambient, exits, clock, aborted>>

(* FireExitHandlers                                                           *)
ExitGoesOn == exits # <<>> /\ ran < MaxExits

FireExit ==
    /\ Hosting /\ ~aborted
    /\ Now.op = "exit"
    /\ ExitGoesOn
    /\ ran' = ran + 1
    /\ exits' = Tail(exits)
    /\ Run("exit", Head(exits).owner, Head(exits).provoked, TRUE)
    /\ Silent
    /\ UNCHANGED <<todo, loaded, ambient, pending, clock, aborted>>

ExitEnds ==
    /\ Hosting /\ ~aborted
    /\ Now.op = "exit"
    /\ ~ExitGoesOn
    /\ exits' = <<>>
    /\ ran' = 0
    /\ NextOp
    /\ Silent
    /\ UNCHANGED <<code, loaded, ambient, pending, clock, aborted>>

(* A step of the plan with nothing to run: a file already loaded, or any step *)
(* once the budget is exhausted.                                              *)
Skip ==
    /\ Hosting
    /\ aborted \/ (Now.op = "load" /\ Cached(Now.on))
    /\ NextOp
    /\ ran' = 0
    /\ Silent
    /\ UNCHANGED <<code, loaded, ambient, deferred, clock, aborted>>

(* The total budget strikes: running code acts no more (VMGuard).             *)
Abort ==
    /\ ~Over /\ ~aborted
    /\ aborted' = TRUE
    /\ Silent
    /\ UNCHANGED <<todo, ran, code, loaded, ambient, deferred, clock>>

-----------------------------------------------------------------------------
Init ==
    /\ todo \in {Plan[r] : r \in Roles}
    /\ ran = 0 /\ code = <<>>
    /\ loaded = {}
    /\ scope = Root /\ muted = FALSE /\ quiet = FALSE
    /\ pending = <<>> /\ exits = <<>>
    /\ clock = 0 /\ aborted = FALSE
    /\ last = Nothing

CodeStep == Record \/ Delete \/ Decoded \/ (\E d \in Delays : QueueTimer(d)) \/ OnExit
              \/ (\E m \in Module : Require(m)) \/ Returns

HostStep == Script \/ Import \/ SweepLoad \/ Fuzz \/ DrainTimer \/ DrainEnds
              \/ FireExit \/ ExitEnds \/ Skip

Done == Over /\ code = <<>> /\ UNCHANGED vars

Next == CodeStep \/ HostStep \/ Abort \/ Done

Spec == Init /\ [][Next]_vars

(* The code under analysis may linger, but the deadlines of VMGuard end each  *)
(* of its pieces; the host does not stop in the middle of the plan.           *)
FairSpec == Spec /\ WF_vars(Returns) /\ WF_vars(HostStep)

-----------------------------------------------------------------------------
(* What should hold.                                                          *)

Step == [op : {"script"}, on : Owners]
          \cup [op : {"load", "reload", "fuzz", "import"}, on : Module]
          \cup [op : {"drain", "exit"}, on : {Root}]

Queued == [owner : Owners, provoked : BOOLEAN, afterExit : BOOLEAN,
           delay : Delays, muted : BOOLEAN]

TypeOK ==
    /\ todo \in Seq(Step)
    /\ ran \in 0 .. (MaxTimers + MaxExits)
    /\ code \in Seq(Frame)
    /\ loaded \subseteq Module
    /\ scope \in Owners /\ muted \in BOOLEAN /\ quiet \in BOOLEAN
    /\ pending \in Seq(Queued) /\ Len(pending) <= MaxPending
    /\ exits \in Seq([owner : Owners, provoked : BOOLEAN])
    /\ clock \in Delays \cup {0}
    /\ aborted \in BOOLEAN

(* s is the package of the innermost module or script among the first n       *)
(* pieces of c, and the host's own scope if there is none.                    *)
InnerScope(c, n, s) ==
    \/ s = Root /\ \A k \in 1 .. n : c[k].kind # "body"
    \/ \E k \in 1 .. n : /\ c[k].kind = "body" /\ c[k].owner = s
                         /\ \A j \in k + 1 .. n : c[j].kind # "body"

(* Whatever nests and however it ends, the tracer's scope is the package of   *)
(* the innermost module or script, and the host works under its own.          *)
ScopeIsTheModules == InnerScope(code, Len(code), scope)

(* Between two pieces of code nothing is muted or quiet.                      *)
HostIsAudible == code = <<>> => ~muted /\ ~quiet

(* "a benign library exercised by the fuzzer can't manufacture a verdict":    *)
(* what the sweep provokes is never scored, decoded payloads apart.           *)
Scores == last.kind \in {"record", "delete"} /\ last.sink = "main"
SweepNeverScores == Scores => ~Top.provoked

(* It holds for everything that no exit handler did or scheduled.             *)
SweepScoresOnlyFromExits == Scores => ~Top.provoked \/ Top.afterExit

(* What the sample does by itself is never muted.                             *)
GenuineIsAudible == last.sink = "muted" => Top.provoked

(* A deletion that the sample makes by itself is recorded, unless a timer     *)
(* callback is on the stack: the drain runs every callback under quiet, which *)
(* the deletion hooks take for the sweep.                                     *)
InTimer == \E n \in DOMAIN code : code[n].kind = "timer"
DeletionsRecordedOutsideTimers ==
    last.kind = "delete" /\ ~Top.provoked /\ ~InTimer => last.sink # "nowhere"

(* Packages of the development tree are "excluded from the verdict score"     *)
(* while their modules and scripts run.  What they do in timers and exit      *)
(* handlers is filed under the host's own scope.                              *)
DevModulesNeverScored ==
    last.sink = "main" /\ Top.kind = "body" => Top.owner \notin DevDeps

(* The ambient state (SetScope, SetMuted, setQuiet): well-typed, the scope is  *)
(* that of the innermost module, and all of it is back where it was whenever  *)
(* the host goes on, however the code ended.                                  *)
AmbientOK == TypeOK /\ ScopeIsTheModules /\ HostIsAudible

(* Muting hides nothing the sample does by itself (runtime.go:540): it is     *)
(* neither filed as muted nor, outside timers, left unrecorded.               *)
GenuineIsHeard == GenuineIsAudible /\ DeletionsRecordedOutsideTimers

(* What tracer.go:63-74 takes out of the verdict stays out of it: the sweep's *)
(* doings, exit handlers apart, and those of dev modules.                     *)
ExclusionsHold == SweepScoresOnlyFromExits /\ DevModulesNeverScored

(* The analysis ends, whatever the code schedules.                            *)
Ends == <>Over
=============================================================================
