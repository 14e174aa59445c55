---------------------------- MODULE InstallGate ----------------------------
(* The install gate of main.go: runPMGate and gateScan.                      *)
(*                                                                           *)
(* The gate decides which specs to scan, hands them to a pool of goroutines  *)
(* over an unbuffered channel, reads their verdicts over another one, and    *)
(* runs the package manager or refuses.  One analysis (run) is one step that *)
(* finds a verdict level or an error.  Meanwhile the registry may publish.   *)
EXTENDS Naturals, Sequences

CONSTANTS
    Package,        \* what a spec names
    Remote,         \* the specs classifySpec calls specRemote
    Direct,         \* the specs of ./package.json, a sequence
    Requires,       \* [Package -> SUBSET Package], the dependencies
    Locked,         \* what a lockfile or the tree pins for the package manager
    Divergent,      \* the specs SCBoX resolves unlike the package manager
    PoolSize,       \* NumCPU, clamped
    CommandLines,   \* bound: the lists of specs a command line names
    MaxVersion      \* bound: how often the registry changes what a spec means

ASSUME GateAssumption ==
    /\ Remote \cup Locked \cup Divergent \subseteq Package
    /\ Direct \in Seq(Package)
    /\ Requires \in [Package -> SUBSET Package]
    /\ PoolSize \in Nat \ {0} /\ CommandLines \subseteq Seq(Package) /\ MaxVersion \in Nat

Level == {"clean", "low", "suspicious", "malicious"}

(* A level the map does not know, in SCBOX_FAIL_ON, ranks lowest.            *)
verdictRank == [clean |-> 0, low |-> 1, suspicious |-> 2, malicious |-> 3]
Rank(level) == IF level \in DOMAIN verdictRank THEN verdictRank[level] ELSE 0

VARIABLES
    verb, named, failOn,    \* the command line and the threshold
    pc,                     \* the gate
    specs,                  \* scanSpecs
    fed,                    \* how many of them the feeder handed out
    pool,                   \* the goroutines and the job each has
    found,                  \* what the analysis of each job found
    outClosed,              \* close(out)
    tally, blocked,         \* what the gate counted
    excuses,                \* why the gate may let an unscanned spec pass (history)
    latest, seen, landed    \* the version each spec means in the registry, numbered
                            \* in the order it came to mean them; those that were
                            \* scanned; those that were installed (history)

command == <<verb, named, failOn>>
scan    == <<specs, fed, pool, found, outClosed>>
count   == <<tally, blocked>>
world   == <<latest, seen, landed>>
vars    == <<command, pc, scan, count, excuses, world>>

Goroutine == 1 .. PoolSize
Job       == DOMAIN specs
Zero      == [pass |-> 0, susp |-> 0, mal |-> 0, errs |-> 0]
Total     == tally.pass + tally.susp + tally.mal + tally.errs

Reasons   == {"not an install", "no package.json", "allowed", "forced"}

Init ==
    /\ verb \in {"install", "ci", "other"}
    /\ named \in CommandLines
    /\ failOn \in Level \cup {"unknown"}
    /\ pc = "start"
    /\ specs = <<>> /\ fed = 0 /\ found = <<>> /\ outClosed = FALSE
    /\ pool = [g \in Goroutine |-> [at |-> "done", job |-> 0]]
    /\ tally = Zero /\ blocked = FALSE
    /\ excuses = {}
    /\ latest = [p \in Package |-> 0] /\ seen = {} /\ landed = {}

TypeOK ==
    /\ pc \in {"start", "scanning", "confirming", "installing", "refused", "ran"}
    /\ named \in Seq(Package) /\ specs \in Seq(Package)
    /\ fed \in 0 .. Len(specs)
    /\ found \in [Job -> Level \cup {"error", "nothing"}]
    /\ pool \in [Goroutine -> [at: {"receive", "run", "send", "done"}, job: 0 .. fed]]
    /\ tally \in [pass: Nat, susp: Nat, mal: Nat, errs: Nat]
    /\ outClosed \in BOOLEAN /\ blocked \in BOOLEAN
    /\ excuses \subseteq Reasons
    /\ latest \in [Package -> 0 .. MaxVersion]
    /\ seen \cup landed \subseteq Package \X (0 .. MaxVersion)

-----------------------------------------------------------------------------
(* runPMGate.                                                                *)

(* A bare install and every ci go by package.json.                           *)
Declared == verb = "ci" \/ named = <<>>
Gated    == pc = "start" /\ verb # "other"
Local(p) == p \notin Remote
AllLocal == \A i \in DOMAIN named : Local(named[i])

SetOf(list) == {list[i] : i \in DOMAIN list}

Goto(place) == pc' = place
Excuse(why) == excuses' = excuses \cup {why}

(* Not an install verb: straight to the package manager.                     *)
PassThrough ==
    /\ pc = "start" /\ verb = "other"
    /\ Goto("installing") /\ Excuse("not an install")
    /\ UNCHANGED <<command, scan, count, world>>

NoPackageJson ==
    /\ Gated /\ Declared
    /\ Goto("installing") /\ Excuse("no package.json")
    /\ UNCHANGED <<command, scan, count, world>>

BadPackageJson ==
    /\ Gated /\ Declared
    /\ Goto("refused")
    /\ UNCHANGED <<command, scan, count, excuses, world>>

(* gateScan starts no more goroutines than there are specs; with nothing to  *)
(* scan the package manager runs at once.                                    *)
Begin(list) ==
    /\ specs' = list
    /\ found' = [j \in DOMAIN list |-> "nothing"]
    /\ pool' = [g \in Goroutine |-> IF g <= Len(list) THEN [at |-> "receive", job |-> 0]
                                                      ELSE pool[g]]
    /\ Goto(IF list = <<>> THEN "installing" ELSE "scanning")
    /\ UNCHANGED <<command, fed, outClosed, count, world>>

ScanDeclared ==
    /\ Gated /\ Declared
    /\ Begin(Direct) /\ UNCHANGED excuses

ScanNamed ==
    /\ Gated /\ ~Declared /\ AllLocal
    /\ Begin(named) /\ UNCHANGED excuses

(* git and URL specs are refused, unless SCBOX_ALLOW_UNSCANNED is 1: then    *)
(* the others are scanned, in their order.                                   *)
RefuseRemote ==
    /\ Gated /\ ~Declared /\ ~AllLocal
    /\ Goto("refused")
    /\ UNCHANGED <<command, scan, count, excuses, world>>

\* Variant: the loop stops at the first of them.
StopAtRemote ==
    /\ Gated /\ ~Declared /\ ~AllLocal
    /\ \E n \in DOMAIN named :
         /\ ~Local(named[n]) /\ \A i \in 1 .. n - 1 : Local(named[i])
         /\ Begin(SubSeq(named, 1, n - 1))
    /\ Excuse("allowed")
SkipRemote ==
    /\ Gated /\ ~Declared /\ ~AllLocal
    /\ \E n \in 0 .. Len(named) : \E k \in [1 .. n -> DOMAIN named] :
         /\ SetOf(k) = {i \in DOMAIN named : Local(named[i])}
         /\ \A i, j \in 1 .. n : i < j => k[i] < k[j]
         /\ Begin([j \in 1 .. n |-> named[k[j]]])
    /\ Excuse("allowed")

-----------------------------------------------------------------------------
(* gateScan: the pool.                                                       *)

(* in <- s, to a goroutine that ranges over in.                              *)
Hand(g) ==
    /\ pool[g].at = "receive" /\ fed < Len(specs)
    /\ fed' = fed + 1
    /\ pool' = [pool EXCEPT ![g] = [at |-> "run", job |-> fed + 1]]
    /\ UNCHANGED <<command, pc, specs, found, outClosed, count, excuses, world>>

(* run(s, o) looks at one version, and at nothing it requires (o.deps is     *)
(* off): the one the registry serves now.  Resolve reads some ranges unlike   *)
(* npm and falls back to the latest release when nothing fits, and loadInput  *)
(* takes a spec that names a path for that path: then it is any version, or   *)
(* none of the package's.  A git or URL range is scanned under its registry   *)
(* namesake.                                                                  *)
NewestOf(p) == {{<<p, latest[p]>>}}
AnyOrNoneOf(p) == {{}} \cup {{<<p, v>>} : v \in 0 .. latest[p]}
Scanned(p) ==
    CASE ~Local(p) -> {{}}
      [] Local(p) /\ p \in Divergent -> AnyOrNoneOf(p)
      [] Local(p) /\ p \notin Divergent -> NewestOf(p)

Analyse(g) ==
    LET j == pool[g].job IN
    /\ pool[g].at = "run"
    /\ pool' = [pool EXCEPT ![g].at = "send"]
    /\ \/ /\ \E level \in Level : found' = [found EXCEPT ![j] = level]
          /\ \E versions \in Scanned(specs[j]) : seen' = seen \cup versions
       \/ /\ found' = [found EXCEPT ![j] = "error"]
          /\ UNCHANGED seen
    /\ UNCHANGED <<command, pc, specs, fed, outClosed, count, excuses, latest, landed>>

(* close(in), after the last spec, ends the range.                           *)
InClosed == fed = Len(specs)

Finish(g) ==
    /\ pool[g].at = "receive" /\ InClosed
    /\ pool' = [pool EXCEPT ![g].at = "done"]
    /\ UNCHANGED <<command, pc, specs, fed, found, outClosed, count, excuses, world>>

(* wg.Wait(); close(out).                                                    *)
\* Variant: out is closed when in is.
AllFed  == InClosed
AllDone == \A g \in Goroutine : pool[g].at = "done"

CloseOut ==
    /\ pc = "scanning" /\ ~outClosed
    /\ AllDone
    /\ outClosed' = TRUE
    /\ UNCHANGED <<command, pc, specs, fed, pool, found, count, excuses, world>>

-----------------------------------------------------------------------------
(* gateScan: for r := range out, and the decision.                           *)

Columns   == [error |-> "errs", malicious |-> "mal", suspicious |-> "susp"]
Column(f) == IF f \in DOMAIN Columns THEN Columns[f] ELSE "pass"

\* Variant: a spec that could not be analysed is only reported.
BlocksIfScored(f) == f # "error" /\ Rank(f) >= Rank(failOn)
Blocks(f) == f = "error" \/ Rank(f) >= Rank(failOn)

\* Variant: a spec that could not be analysed is tried again.
CollectOrRetry(g) ==
    LET f == found[pool[g].job]
        again == f = "error"
    IN
    /\ pc = "scanning" /\ ~outClosed
    /\ pool[g].at = "send"
    /\ pool' = [pool EXCEPT ![g].at = IF again THEN "run" ELSE "receive"]
    /\ tally' = IF again THEN tally ELSE [tally EXCEPT ![Column(f)] = @ + 1]
    /\ blocked' = (blocked \/ Blocks(f))
    /\ UNCHANGED <<command, pc, specs, fed, found, outClosed, excuses, world>>
Collect(g) ==
    LET f == found[pool[g].job] IN
    /\ pc = "scanning" /\ ~outClosed
    /\ pool[g].at = "send"
    /\ pool' = [pool EXCEPT ![g].at = "receive"]
    /\ tally' = [tally EXCEPT ![Column(f)] = @ + 1]
    /\ blocked' = (blocked \/ Blocks(f))
    /\ UNCHANGED <<command, pc, specs, fed, found, outClosed, excuses, world>>

AllClear ==
    /\ pc = "scanning" /\ outClosed /\ ~blocked
    /\ Goto("installing")
    /\ UNCHANGED <<command, scan, count, excuses, world>>

(* decideForce: SCBOX_FORCE is the phrase; it is set and there is a terminal *)
(* to ask for the phrase; or neither.                                        *)
Override ==
    /\ pc = "scanning" /\ outClosed /\ blocked
    /\ Goto("installing") /\ Excuse("forced")
    /\ UNCHANGED <<command, scan, count, world>>

Ask ==
    /\ pc = "scanning" /\ outClosed /\ blocked
    /\ Goto("confirming")
    /\ UNCHANGED <<command, scan, count, excuses, world>>

Refuse ==
    /\ pc \in {"scanning", "confirming"} /\ outClosed /\ blocked
    /\ Goto("refused")
    /\ UNCHANGED <<command, scan, count, excuses, world>>

Confirm ==
    /\ pc = "confirming"
    /\ Goto("installing") /\ Excuse("forced")
    /\ UNCHANGED <<command, scan, count, world>>

-----------------------------------------------------------------------------
(* The world: the package manager and the registry.                          *)

Requested == IF Declared THEN SetOf(Direct) ELSE SetOf(named)

(* A set of packages with everything they require.                           *)
Closure(S) ==
    {p \in Package : \A T \in SUBSET Package :
        S \subseteq T /\ (\A q \in T : Requires[q] \subseteq T) => p \in T}

(* The package manager resolves what was asked for again, and keeps to what   *)
(* a lockfile pins: ci always, an install where the pinned version fits.      *)
Resolved(p) == IF p \in Locked THEN 0 .. latest[p] ELSE {latest[p]}

(* execPM: the package manager installs, or is not there or fails.            *)
Install ==
    /\ pc = "installing"
    /\ Goto("ran")
    /\ IF excuses \cap {"not an install", "no package.json"} # {} THEN landed' = {}
       ELSE \E version \in [Closure(Requested) -> 0 .. MaxVersion] :
              /\ \A p \in Closure(Requested) : version[p] \in Resolved(p)
              /\ landed' = {<<p, version[p]>> : p \in Closure(Requested)}
    /\ UNCHANGED <<command, scan, count, excuses, latest, seen>>

InstallFails ==
    /\ pc = "installing"
    /\ Goto("ran")
    /\ UNCHANGED <<command, scan, count, excuses, world>>

(* Bound: only what the command is about changes.                             *)
Publish(p) ==
    /\ pc \notin {"refused", "ran"} /\ latest[p] < MaxVersion
    /\ p \in Closure(Requested)
    /\ latest' = [latest EXCEPT ![p] = @ + 1]
    /\ UNCHANGED <<command, pc, scan, count, excuses, seen, landed>>

-----------------------------------------------------------------------------
Start == PassThrough \/ NoPackageJson \/ BadPackageJson \/ ScanDeclared
           \/ ScanNamed \/ RefuseRemote \/ SkipRemote

Pool == \/ \E g \in Goroutine : Hand(g) \/ Analyse(g) \/ Finish(g) \/ Collect(g)
        \/ CloseOut

Decide == AllClear \/ Override \/ Ask \/ Refuse \/ Confirm

Done == pc \in {"refused", "ran"} /\ UNCHANGED vars

Next == Start \/ Pool \/ Decide \/ Install \/ InstallFails
          \/ (\E p \in Package : Publish(p)) \/ Done

Spec == Init /\ [][Next]_vars

(* The goroutines and the gate run, and an analysis ends (see JailPipe).     *)
(* Nothing obliges the operator to answer or the registry to publish.        *)
FairSpec ==
    /\ Spec
    /\ WF_vars(Start)
    /\ WF_vars(AllClear \/ Override \/ Ask \/ (pc = "scanning" /\ Refuse))
    /\ WF_vars(CloseOut)
    /\ \A g \in Goroutine : WF_vars(Hand(g) \/ Analyse(g) \/ Finish(g) \/ Collect(g))

-----------------------------------------------------------------------------
(* What should hold.                                                         *)

(* "Fail-closed": once the package manager is let loose on an install, every *)
(* job was analysed without error and lies below the threshold, unless the   *)
(* operator overrode the gate.                                               *)
Below(f)   == f \in Level /\ Rank(f) < Rank(failOn)
LetLoose   == pc \in {"installing", "ran"}
FailClosed == LetLoose /\ "forced" \notin excuses => \A j \in Job : Below(found[j])

(* Every spec of the install is a job, unless there is no package.json or it *)
(* is a git or URL spec that was let through.                                *)
RequestedIsScanned ==
    LetLoose /\ excuses \cap {"not an install", "no package.json"} = {} =>
        \A p \in Requested : p \in SetOf(specs) \/ (~Local(p) /\ "allowed" \in excuses)

(* Each spec is counted once, in the order its analysis ends: when out is    *)
(* closed every one has been, and no goroutine is left to send on it.        *)
EveryResultCounted ==
    outClosed => /\ Total = Len(specs)
                 /\ \A g \in Goroutine : pool[g].at # "send"

(* The gate refuses an install it scanned only for something it counted.     *)
RefusalHasReason == pc = "refused" /\ specs # <<>> => \E j \in Job : ~Below(found[j])

(* The gate decides as it should, both ways ("Fail-closed", main.go:413-440): *)
(* it lets an install pass only if all is well, and refuses one only if not.  *)
DecisionIsJustified == FailClosed /\ RefusalHasReason

(* gateScan leaves nothing out: what was asked for is among the jobs, and     *)
(* when the results end each job has been counted once.                       *)
ScanIsComplete == RequestedIsScanned /\ EveryResultCounted

(* The gate comes to a decision, or waits for the operator.                  *)
Decides == <>(pc \in {"confirming", "installing", "refused", "ran"})

(* Unless the operator forced it, every package that was asked for and lands *)
(* was analysed, and in that version or in one that the registry has          *)
(* superseded since (gateScan, then execPM; main.go:449).  The exceptions:    *)
(* what a lockfile pins was analysed in another version, perhaps; a spec that *)
(* SCBoX resolves otherwise may have stood for something else; and a git or   *)
(* URL spec that package.json declares is scanned under its namesake.         *)
LandedWasScanned ==
    "forced" \in excuses \/
        \A v \in landed : v[1] \in Requested \ (Remote \cup Divergent) =>
            \E w \in seen : w[1] = v[1] /\ (w[2] <= v[2] \/ v[1] \in Locked)

(* "so nothing lands on the machine until it has been scanned".  It is false. *)
NothingUnscannedLands == excuses # {} \/ landed \subseteq seen
=============================================================================
