---------------------------- MODULE ModuleLoader ----------------------------
(* The CommonJS loader of one virtual machine: internal/sandbox/require.go,   *)
(* the child processes that are run inside the same machine (bridgeNodeChild  *)
(* and fork in builtins.go) and the shell scripts that start them (shell.go). *)
(*                                                                            *)
(* What a piece of code does is left open: it may require any name, drop a    *)
(* file, start a script or fork one, and return or throw at any point.  Where *)
(* a require ends is decided by the form of the name and by which files there *)
(* are: Candidates gives, for each name, the files resolution tries, in order.*)
EXTENDS Naturals, Sequences, FiniteSets

CONSTANTS
    Files,          \* the files names lead to
    Tree,           \* those of the materialized package (cfg.FS)
    Inside,         \* those below cfg.BaseDir
    Kind,           \* what each file holds
    Scope,          \* scopeForPath of each file
    Specs,          \* the names code requires
    Form,           \* their syntax
    Candidates,     \* the files they may lead to
    Stubbed,        \* bare names that are stubbed when they lead nowhere
    ForceThrow,     \* Runtime.forceThrowRequire
    MaxBridge,      \* the depth at which bridgeNodeChild gives up (6)
    MaxOps,         \* bound: operations in all
    Host            \* the scope and argv of the analyzer itself

Kinds == {"script", "broken", "json", "binary", "shell", "inline"}
Forms == {"builtin", "client", "relative", "absolute", "private", "bare"}

ASSUME FileAssumption ==
    /\ Tree \subseteq Inside /\ Inside \subseteq Files
    /\ Kind \in [Files -> Kinds]
    /\ DOMAIN Scope = Files /\ Host \notin Files
ASSUME NameAssumption ==
    /\ Specs \cap Files = {} /\ Stubbed \subseteq Specs
    /\ Form \in [Specs -> Forms]
    /\ Candidates \in [Specs -> Seq(Files)]
    /\ ForceThrow \in BOOLEAN /\ {MaxBridge, MaxOps} \subseteq Nat

VARIABLES
    cache,      \* loader.cache, by file, builtin or client library
    stack,      \* the bodies in progress, the innermost last
    scope,      \* Tracer.scope
    argv,       \* whose arguments process.argv holds
    depth,      \* Runtime.bridgeDepth
    dropped,    \* the files that live only in the overlay
    aborted,    \* Runtime.aborted
    threw,      \* history: the name the last step threw MODULE_NOT_FOUND for
    runs,       \* history: how often each body was started
    children,   \* history: how often a child process of each script was run
    ops         \* counts operations

vars == <<cache, stack, scope, argv, depth, dropped, aborted, threw, runs,
          children, ops>>

-----------------------------------------------------------------------------
(* A module's exports are told apart by the run that made them.               *)

Value(x, n, p) == [of |-> x, run |-> n, part |-> p]
Stub(x) == Value(x, 0, "stub")
Put(x, v, c) == [y \in {x} \cup DOMAIN c |-> IF y = x THEN v ELSE c[y]]

Frame(f, via) == [file |-> f, run |-> runs[f] + 1, via |-> via,
                  argv |-> argv, scope |-> scope]
Top == stack[Len(stack)]
Via == IF stack = <<>> THEN "host" ELSE Top.via
InModule == Via \notin {"host", "shell"}
InShell  == Via \in {"host", "shell"}
FramesOf(f) == {i \in 1 .. Len(stack) : stack[i].file = f /\ stack[i].via # "shell"}
Innermost(f) == CHOOSE i \in FramesOf(f) : \A j \in FramesOf(f) : j <= i
ChildFrames == {i \in 1 .. Len(stack) : stack[i].via = "child"}

Init ==
    /\ cache = << >> /\ stack = <<>> /\ scope = Host /\ argv = Host /\ depth = 0
    /\ dropped = {} /\ aborted = FALSE /\ threw = Host
    /\ runs = [f \in Files |-> 0] /\ children = [f \in Files |-> 0] /\ ops = 0

-----------------------------------------------------------------------------
(* Resolution.                                                                *)

Present == Tree \cup dropped

(* resolveFile joins its base to the name, also when the name is an absolute  *)
(* path, and looks for the file below the requiring one: nothing is there.    *)
Reach(s) == IF Form[s] = "absolute" THEN <<>> ELSE Candidates[s]
Hits(s)  == {i \in DOMAIN Reach(s) : Reach(s)[i] \in Present}
Found(s) == Hits(s) # {}
Resolved(s) == Reach(s)[CHOOSE i \in Hits(s) : \A j \in Hits(s) : i <= j]

(* withinBase.                                                                *)
WithinBase(f) == f \in Inside

-----------------------------------------------------------------------------
(* loadFile, with the cache as the caller leaves it.                          *)

Settled(f, kept, v) ==
    /\ cache' = Put(f, v, kept)
    /\ threw' = Host
    /\ UNCHANGED <<stack, scope, runs>>

Done(kept, s) ==
    /\ cache' = kept /\ threw' = s
    /\ UNCHANGED <<stack, scope, runs>>

(* The body starts: a placeholder stands in the cache for the sake of cycles. *)
BeginUncached(f, kept, via) ==
    /\ cache' = kept
    /\ stack' = Append(stack, Frame(f, via))
    /\ scope' = Scope[f]
    /\ runs' = [runs EXCEPT ![f] = @ + 1]
    /\ threw' = Host
Begin(f, kept, via) ==
    /\ cache' = Put(f, Value(f, runs[f] + 1, "placeholder"), kept)
    /\ stack' = Append(stack, Frame(f, via))
    /\ scope' = Scope[f]
    /\ runs' = [runs EXCEPT ![f] = @ + 1]
    /\ threw' = Host

(* runProgram and safeCall refuse to run anything once the budget is spent.   *)
Refused == aborted

LoadFile(f, kept, via) ==
    \/ f \in DOMAIN kept /\ Done(kept, Host)
    \/ f \notin DOMAIN kept /\ f \notin Present /\ Done(kept, Host)
    \/ /\ f \notin DOMAIN kept /\ f \in Present
       /\ \/ Kind[f] \in {"json", "binary"} /\ Settled(f, kept, Stub(f))
          \/ /\ Kind[f] \in {"broken", "shell"} \/ (Kind[f] = "script" /\ Refused)
             /\ Settled(f, kept, Value(f, runs[f] + 1, "placeholder"))
          \/ Kind[f] = "script" /\ ~Refused /\ Begin(f, kept, via)

-----------------------------------------------------------------------------
(* require.                                                                   *)

Op == ops < MaxOps /\ ops' = ops + 1
Ambient == UNCHANGED <<argv, depth, dropped, aborted, children>>

(* An answer that leaves no trace in the loader: what is cached already, or a *)
(* fresh stub that is not kept.                                               *)
Answers == Done(cache, Host)
Throws(s) == Done(cache, s)

(* A core module, or a network client library that is always a stub: made     *)
(* once and kept.                                                             *)
RequireBuiltin(s) ==
    /\ Form[s] \in {"builtin", "client"}
    /\ IF s \in DOMAIN cache THEN Answers ELSE Settled(s, cache, Stub(s))

RequirePath(s) ==
    /\ Form[s] \in {"relative", "absolute"}
    /\ \/ ~Found(s) /\ Throws(s)
       \/ Found(s) /\ ~WithinBase(Resolved(s)) /\ Answers
       \/ Found(s) /\ WithinBase(Resolved(s)) /\ LoadFile(Resolved(s), cache, "require")

RequirePrivate(s) ==
    /\ Form[s] = "private"
    /\ IF Found(s) /\ WithinBase(Resolved(s))
       THEN LoadFile(Resolved(s), cache, "require") ELSE Answers

RequireBare(s) ==
    /\ Form[s] = "bare"
    /\ IF Found(s) /\ WithinBase(Resolved(s))
       THEN LoadFile(Resolved(s), cache, "require")
       ELSE IF ~ForceThrow /\ s \in Stubbed
       THEN Answers ELSE Throws(s)

(* By running code, by the host for the entry point and for the probe of a    *)
(* dependency.                                                                *)
Require(s) ==
    /\ Via # "shell"
    /\ RequireBuiltin(s) \/ RequirePath(s) \/ RequirePrivate(s) \/ RequireBare(s)
    /\ Op /\ Ambient

-----------------------------------------------------------------------------
(* Scripts started by scripts.                                                *)

WithoutNothing(f) == cache
Without(f) == [g \in DOMAIN cache \ {f} |-> cache[g]]

CanBridge == depth < MaxBridge /\ ~aborted

(* bridgeNodeChild, from child_process or from a shell: the script runs again *)
(* with arguments of its own.  A script that has no body to run is done at    *)
(* once and its arguments with it.                                            *)
Child(f) ==
    /\ Op /\ CanBridge /\ Kind[f] # "inline"
    /\ LoadFile(f, Without(f), "child")
    /\ children' = [children EXCEPT ![f] = @ + 1]
    /\ IF Len(stack') > Len(stack)
       THEN argv' = f /\ depth' = depth + 1 ELSE UNCHANGED <<argv, depth>>
    /\ UNCHANGED <<dropped, aborted>>

(* Code given with -e, which no file holds: through child_process it is a     *)
(* child like any other.                                                      *)
InlineChild(f) ==
    /\ Op /\ Kind[f] = "inline" /\ InModule /\ CanBridge
    /\ stack' = Append(stack, Frame(f, "child")) /\ argv' = f /\ depth' = depth + 1
    /\ runs' = [runs EXCEPT ![f] = @ + 1]
    /\ threw' = Host
    /\ UNCHANGED <<cache, scope, dropped, aborted, children>>

(* From a shell it runs under the arguments there are (RunTopLevel).          *)
InlineShell(f) ==
    /\ Op /\ Kind[f] = "inline" /\ InShell /\ ~aborted
    /\ stack' = Append(stack, Frame(f, "eval"))
    /\ runs' = [runs EXCEPT ![f] = @ + 1]
    /\ threw' = Host
    /\ UNCHANGED <<cache, scope, argv, depth, dropped, aborted, children>>

(* forkModule: no fresh run, no arguments, no depth.                          *)
Fork(f) == Kind[f] # "inline" /\ InModule /\ Op /\ LoadFile(f, cache, "fork") /\ Ambient

(* RunShellFile, for a lifecycle command, a script of the sweep or a command  *)
(* of another script.  It reads the package and not the overlay.              *)
ShellFile(f) ==
    /\ InShell /\ Op /\ ~aborted
    /\ f \in Tree /\ Kind[f] = "shell"
    /\ stack' = Append(stack, Frame(f, "shell")) /\ scope' = Scope[f]
    /\ runs' = [runs EXCEPT ![f] = @ + 1]
    /\ threw' = Host
    /\ UNCHANGED <<cache, argv, depth, dropped, aborted, children>>

(* A file is written below the package or elsewhere.                          *)
Drop(f) ==
    /\ Op /\ stack # <<>> /\ f \notin Present /\ Kind[f] # "inline"
    /\ dropped' = dropped \cup {f}
    /\ threw' = Host
    /\ UNCHANGED <<cache, stack, scope, argv, depth, aborted, runs, children>>

-----------------------------------------------------------------------------
(* A body ends: it returns, throws, or is interrupted, which safeCall makes   *)
(* the same.  Its exports replace the placeholder; the deferred functions of  *)
(* bridgeNodeChild put the arguments and the depth back.                      *)

Unrestored == UNCHANGED argv
Restored == argv' = IF Top.via = "child" THEN Top.argv ELSE argv

DepthKept == UNCHANGED depth
Depth == depth' = IF Top.via = "child" THEN depth - 1 ELSE depth

Unscoped == scope' = Top.scope

KeepNothing(v) == UNCHANGED cache
Keep(v) == cache' = Put(Top.file, v, cache)

EndModule ==
    /\ InModule
    /\ LET v == Value(Top.file, Top.run, "exports")
       IN  IF Kind[Top.file] = "inline" THEN UNCHANGED cache ELSE Keep(v)
    /\ threw' = Host
    /\ stack' = SubSeq(stack, 1, Len(stack) - 1)
    /\ Unscoped /\ Restored /\ Depth
    /\ UNCHANGED <<dropped, aborted, runs, children, ops>>

EndShell ==
    /\ Via = "shell"
    /\ stack' = SubSeq(stack, 1, Len(stack) - 1)
    /\ scope' = Top.scope /\ threw' = Host
    /\ UNCHANGED <<cache, argv, depth, dropped, aborted, runs, children, ops>>

(* The total budget strikes.                                                  *)
Abort ==
    /\ ~aborted /\ aborted' = TRUE /\ threw' = Host
    /\ UNCHANGED <<cache, stack, scope, argv, depth, dropped, runs, children, ops>>

Next ==
    \/ \E s \in Specs : Require(s)
    \/ \E f \in Files :
          \/ Child(f) \/ InlineChild(f) \/ InlineShell(f) \/ Fork(f)
          \/ ShellFile(f) \/ Drop(f)
    \/ EndModule \/ EndShell \/ Abort

Spec == Init /\ [][Next]_vars

-----------------------------------------------------------------------------
(* Properties.                                                                *)

Values == [of : Files \cup Specs, run : Nat,
           part : {"stub", "placeholder", "exports"}]
Frames == [file : Files, run : Nat, via : {"require", "child", "fork", "shell", "eval"},
           argv : Files \cup {Host}, scope : {Scope[f] : f \in Files} \cup {Host}]

(* The cache, the stack and the counters have the shapes the loader gives     *)
(* them, and bridgeDepth never passes its limit.                              *)
TypeOK ==
    /\ DOMAIN cache \subseteq Files \cup Specs
    /\ \A x \in DOMAIN cache : cache[x] \in Values
    /\ stack \in Seq(Frames)
    /\ scope \in {Scope[f] : f \in Files} \cup {Host} /\ argv \in Files \cup {Host}
    /\ depth \in 0 .. MaxBridge /\ dropped \subseteq Files \ Tree
    /\ aborted \in BOOLEAN /\ threw \in Specs \cup {Host}
    /\ runs \in [Files -> Nat] /\ children \in [Files -> Nat] /\ ops \in 0 .. MaxOps

(* A module runs once, and once more for every child process that was started *)
(* on it, whatever cycles, forks, throws and drops there are (the cache of    *)
(* loadFile, require.go:756).                                                 *)
RunsOnce == \A f \in Files : Kind[f] = "script" => runs[f] <= 1 + children[f]

(* Recursion is bounded: a file is in progress at most once per level of      *)
(* child processes, whose number is what bridgeDepth counts and bounds        *)
(* (builtins.go:733).                                                         *)
FramesBounded ==
    /\ depth = Cardinality(ChildFrames) /\ depth <= MaxBridge
    /\ \A f \in Files : Cardinality(FramesOf(f)) <= 1 + depth

(* What a cycle sees of a module is the innermost run of it; a placeholder    *)
(* left in the cache by no run is that of a file that did not compile, or     *)
(* that the budget kept from running (require.go:791).                        *)
PlaceholderOnlyWhileRunning ==
    \A f \in DOMAIN cache \cap Files :
        cache[f].part = "placeholder" =>
            \/ Kind[f] # "script" \/ aborted
            \/ FramesOf(f) # {} /\ stack[Innermost(f)].run = cache[f].run

(* No require runs a file from outside the package, whatever was dropped      *)
(* there; only a child process or a fork does (withinBase).                   *)
EscapeBlocked ==
    \A i \in 1 .. Len(stack) : stack[i].via = "require" => stack[i].file \in Inside

(* process.argv is that of the innermost child process in progress, also when *)
(* one ends by throwing (the deferred restore, builtins.go:784).              *)
ArgvIsTheChilds ==
    argv = IF ChildFrames = {} THEN Host
           ELSE stack[CHOOSE i \in ChildFrames : \A j \in ChildFrames : j <= i].file

(* Behaviour is attributed to the package of the innermost file in progress,  *)
(* across modules, children and shell scripts; inline code is the file's that *)
(* started it (SetScope).                                                     *)
Filed == {i \in 1 .. Len(stack) : Kind[stack[i].file] # "inline"}
ScopeIsOwner ==
    scope = IF Filed = {} THEN Host
            ELSE Scope[stack[CHOOSE i \in Filed : \A j \in Filed : j <= i].file]

(* What is set for a piece of code is put back after it, in any nesting and   *)
(* however it ends: the arguments and the attribution.                        *)
AmbientRestored == ArgvIsTheChilds /\ ScopeIsOwner

(* A child process of a script that is there runs it, already loaded or not,  *)
(* within the depth limit and the budget (the delete, builtins.go:796).       *)
ChildStartsScript ==
    [][\A f \in Files :
          children'[f] > children[f] /\ Kind[f] = "script" /\ f \in Present
              => runs'[f] = runs[f] + 1]_vars

(* Once the budget is spent no body starts (runProgram, runtime.go:431).      *)
NothingStartsAfterAbort == [][aborted => runs' = runs]_vars

(* realFromVirtual, require.go:360: "maps a believable absolute path the      *)
(* sample constructed (e.g. require(__dirname + '/x')) back to its real       *)
(* location on disk", so that a file of the package loads by its path.        *)
AbsoluteLoads ==
    threw \in Specs /\ Form[threw] = "absolute" =>
        \A i \in DOMAIN Candidates[threw] : Candidates[threw][i] \notin Tree
=============================================================================
