------------------------------- MODULE Scoring -------------------------------
(***************************************************************************)
(* From what a sample does to its verdict. The main runtime runs the       *)
(* lifecycle scripts and the entry point; the force-execution and the      *)
(* probe imports are spread over worker runtimes that record into forked   *)
(* tracers at the same time (exploreParallel of main.go); Absorb folds     *)
(* them into the main tracer; the main runtime fires the exit handlers;    *)
(* Verdict scores. With one job the same steps are made on one tracer, and *)
(* that run is what the parallel one is compared with.                     *)
(***************************************************************************)
EXTENDS Stubs

CONSTANTS
    Workers,    \* the worker runtimes, a sequence
    Plans,      \* what is done: [before, shard, after], sequences of [do, scope, muted, quiet]
    Seeds,      \* what installProcess has watched: [watched, tainted]
    MaxNow      \* the clock stops here

VARIABLES
    plan,       \* what is still to be done
    main,       \* the main tracer
    forked,     \* [worker -> its tracer], empty outside the parallel phase
    phase,
    now,        \* time.Since(start)
    told        \* history: the steps made, with the time and the tracer
vars == <<plan, main, forked, phase, now, told>>

W == Range(Workers)

(* A call of a stub, with the runtime's state when it is made.             *)
PlanStep == [do : [stub : StubNames, on : Items, with : Items], scope : STRING, muted : BOOLEAN, quiet : BOOLEAN]
ASSUME WorkerAssumption == Workers \in Seq(W) /\ IsInjective(Workers) /\ "main" \notin W
ASSUME PlanAssumption == Plans \subseteq [before : Seq(PlanStep), shard : [W -> Seq(PlanStep)], after : Seq(PlanStep)]
ASSUME ClockAssumption == MaxNow \in Nat

(* Where the step of a plan is made: its scope and mute, and the call the  *)
(* stub makes of the tracer.                                               *)
Step(s) == [call |-> Perform(s.do, s.quiet), scope |-> s.scope, muted |-> s.muted, do |-> s.do]
Log(s, who) == told' = Append(told, [step |-> Step(s), at |-> now, who |-> who])

Init == /\ plan \in Plans
        /\ main = Fresh("main", Seeds)
        /\ forked = <<>>
        /\ phase = "load"
        /\ now = 0
        /\ told = <<>>

(* The main runtime: lifecycle scripts and entry point, later the timers   *)
(* and exit handlers.                                                      *)
Run(s) == /\ main' = Take(main, Step(s), now)
          /\ Log(s, "main")
          /\ UNCHANGED <<forked, phase, now>>
Main == \/ /\ phase = "load" /\ plan.before # <<>>
           /\ Run(Head(plan.before))
           /\ plan' = [plan EXCEPT !.before = Tail(@)]
        \/ /\ phase = "exit" /\ plan.after # <<>>
           /\ Run(Head(plan.after))
           /\ plan' = [plan EXCEPT !.after = Tail(@)]

Fork == /\ phase = "load" /\ plan.before = <<>>
        /\ forked' = [w \in W |-> Fresh(w, Seeds)]
        /\ phase' = "explore"
        /\ UNCHANGED <<plan, main, now, told>>

Work(w) == /\ phase = "explore" /\ plan.shard[w] # <<>>
           /\ forked' = [forked EXCEPT ![w] = Take(@, Step(Head(plan.shard[w])), now)]
           /\ Log(Head(plan.shard[w]), w)
           /\ plan' = [plan EXCEPT !.shard[w] = Tail(@)]
           /\ UNCHANGED <<main, phase, now>>

Tick == /\ phase = "explore" /\ now < MaxNow
        /\ now' = now + 1
        /\ UNCHANGED <<plan, main, forked, phase, told>>

Join == /\ phase = "explore" /\ \A w \in W : plan.shard[w] = <<>>
        /\ main' = Absorb(main, [k \in DOMAIN Workers |-> forked[Workers[k]]])
        /\ forked' = <<>>
        /\ phase' = "exit"
        /\ UNCHANGED <<plan, now, told>>

Score1 == /\ phase = "exit" /\ plan.after = <<>>
          /\ phase' = "scored"
          /\ UNCHANGED <<plan, main, forked, now, told>>

Next == Main \/ Fork \/ (\E w \in W : Work(w)) \/ Tick \/ Join \/ Score1

Spec == Init /\ [][Next]_vars

-----------------------------------------------------------------------------
Sets == {"iocs", "devIOCs", "mutedIOCs"}
Within(t, n) == \A s \in Sets : /\ \A p \in t[s] : p[1] \in Fields
                                /\ \A f \in Fields : Cardinality(In(t[s], {f})) <= n

(* Types, and the bound that keeps the verdict affordable (ioc.go: "IOC    *)
(* sets are bounded"): a tracer that records stays within the cap, and the *)
(* merge, which has none, exceeds it by at most a factor of the tracers.   *)
TypeOK == /\ phase \in {"load", "explore", "exit", "scored"}
          /\ now \in 0..MaxNow
          /\ main.seq = Len(main.events)
          /\ Within(main, IF phase \in {"load", "explore"} THEN MaxIOC ELSE MaxIOC * (1 + Len(Workers)))
          /\ \A w \in DOMAIN forked : Within(forked[w], MaxIOC) /\ forked[w].seq = Len(forked[w].events)

(* One tracer that is told what happened, in the order in which it         *)
(* happened; and what it might have been told instead.                     *)
Replay(log) ==
    LET upto[k \in 0..Len(log)] ==
            IF k = 0 THEN Fresh("main", Seeds) ELSE Take(upto[k - 1], log[k].step, log[k].at)
    IN  upto[Len(log)]
Instead(Pick(_)) == [k \in DOMAIN told |-> [told[k] EXCEPT !.step = Pick(@)]]
Mute(step) == IF step.muted THEN [step EXCEPT !.call.events = <<>>, !.call.adds = {}] ELSE step
Unmute(step) == [step EXCEPT !.muted = FALSE]
Undev(step) == IF step.scope \in DevScopes
               THEN [step EXCEPT !.call.events = <<>>, !.call.adds = {}, !.call.decoded = {}] ELSE step
Viewed(t, view) == {r \in Reasons(t) : r.view = view}

Scored == phase = "scored"
Added == UNION {Heard(x.step) \cup Bared(x.step) : x \in Range(told)}
NothingDropped == \A f \in Fields : Cardinality(In(Added, {f})) <= MaxIOC

(* The verdict does not depend on how the exploration was spread over      *)
(* workers: it is that of the one tracer of a run with one job, unless an  *)
(* indicator set was full. (What a worker has watched, tainted, muted or   *)
(* filed as dev must survive Absorb, and the cap is the one exception.)    *)
ParallelIsSerial == Scored /\ NothingDropped => Reasons(main) = Reasons(Replay(told))

(* The report reads as one timeline: the numbers are 1, 2, ..., time never *)
(* runs backwards, and every event each runtime recorded is there once, in *)
(* the order in which it recorded them, before and after the merge.        *)
RecordedBy(who) == {k \in DOMAIN main.events : main.events[k].by = who}
MadeBy(who) == UNION {{k} \X DOMAIN told[k].step.call.events : k \in {j \in DOMAIN told : told[j].who = who}}
TimelineIsComplete ==
    phase \in {"exit", "scored"} =>
        /\ \A k \in DOMAIN main.events : main.events[k].seq = k
        /\ \A k \in 2..Len(main.events) : main.events[k - 1].at <= main.events[k].at
        /\ \A who \in {"main"} \cup W :
              /\ Cardinality(RecordedBy(who)) = Cardinality(MadeBy(who))
              /\ \A k \in RecordedBy(who), p \in MadeBy(who) :
                    Cardinality({j \in RecordedBy(who) : j < k}) = Cardinality({q \in MadeBy(who) : Sooner(q, p)})
                    => LET made == told[p[1]].step.call.events[p[2]]
                       IN  main.events[k].op = made.op /\ main.events[k].args = made.args

(* Forking and merging keep tracers well-formed, within their caps and    *)
(* with a complete timeline (Tracer.Fork, Tracer.Absorb).                  *)
MergeIsSound == TypeOK /\ TimelineIsComplete

(* What the fuzz sweep provokes does not count: but for decoded blobs,     *)
(* which are scored by intent, the reasons drawn from the scored view are  *)
(* those of the run without the muted steps (tracer.go: "so a benign       *)
(* library exercised by the fuzzer can't manufacture a verdict").          *)
MutedDoesNotInflate ==
    Scored => LET quiet == Replay(Instead(Mute))
              IN  NothingDropped => Viewed(main, "scored") = Viewed(quiet, "scored")

(* Muting hides no malice: the reasons drawn from the intrinsic view are   *)
(* those of the run in which nothing was muted (verdict.go: "muting it     *)
(* here would be a false negative").                                       *)
MutingHidesNothing ==
    Scored => LET loud == Replay(Instead(Unmute))
              IN  NothingDropped /\ (\A x \in Range(told) : x.step.muted => x.step.scope \notin DevScopes)
                  => Viewed(main, "intrinsic") = Viewed(loud, "intrinsic")

(* What a devDependency does outside the fuzz sweep has no part in the     *)
(* verdict: it is that of the run in which it did nothing, but for the     *)
(* values it has watched, which belong to no scope.                        *)
Undeveloped == Replay(Instead(Undev))
DevDoesNotScore ==
    Scored /\ NothingDropped /\ (\A x \in Range(told) : x.step.scope \in DevScopes => ~x.step.muted)
        => Reasons(main) = Reasons(Undeveloped)

(* The same of everything a devDependency does (tracer.go:63: "routed into *)
(* devIOCs and excluded from the verdict score"). It does not hold.        *)
DevNeverScores == Scored /\ NothingDropped => Reasons(main) = Reasons(Undeveloped)

(* A lone capability is not suspicious, however often it is used           *)
(* (verdict.go: "a lone powerful API is not malicious - only a CHAIN is"): *)
(* a sample that asks one stub only, not one of the network, and matches   *)
(* no signature, stays below 30. (Left out: a write to a sensitive path,   *)
(* which scores on its own, a string that itself holds a credential or a   *)
(* Tor address, which is the second link of a chain, and deletions of      *)
(* files that give a sandbox away, which are a probe as well.)             *)
Capabilities == {"env", "read", "write", "delete", "eval", "bufferFrom", "atob", "fromCharCode", "cipher", "hostInfo", "spawn"}
LoneCapability ==
    Scored /\ (\E stub \in Capabilities : \A x \in Range(told) : x.step.do.stub = stub)
        /\ Viewed(main, "intrinsic") = {} /\ Matching(main.iocs, {"FilesWritten"}, "sensitive") = {}
        /\ In(main.iocs, {"Secrets", "Onion"}) = {}
        /\ (In(main.iocs, {"FilesDeleted"}) = {} \/ ~Probes(Context(main)))
        => Score(Reasons(main)) < 30

(* Evidence never exonerates: no step, fork or merge lowers the score or   *)
(* takes back a reason.                                                    *)
Kept(before, after) == {<<r.why, r.weight>> : r \in before} \subseteq {<<r.why, r.weight>> : r \in after}
ScoreOnlyRises == [][main' # main => Kept(Reasons(main), Reasons(main')) /\ Score(Reasons(main)) <= Score(Reasons(main'))]_vars
=============================================================================
