----------------------------- MODULE Signatures -----------------------------
(***************************************************************************)
(* The verdict: Tracer.Verdict of internal/trace/verdict.go, with the      *)
(* predicates of signatures.go, over a tracer that is a record             *)
(*                                                                         *)
(*   [events, iocs, mutedIOCs, watched, tainted]                           *)
(*                                                                         *)
(* An item stands for one string and for what the scanners and the regular *)
(* expressions of the package find in it: Text[i] is the record            *)
(*                                                                         *)
(*   traits   the predicates and expressions that match it                 *)
(*   finds    the indicators that IOCSet.scan extracts, <<field, item>>    *)
(*   hosts    the URLs and addresses in it whose host is not a benign one  *)
(*   holds    the items it contains, plain or encoded                      *)
(*   fetches, runs   the files a command downloads to, and executes        *)
(*                                                                         *)
(* A reason carries the view it is drawn from: "scored" leaves muted       *)
(* events and indicators out, "intrinsic" counts them, "both" needs one    *)
(* of each.                                                                *)
(***************************************************************************)
EXTENDS Integers, Sequences, FiniteSetsExt, Functions

CONSTANTS Text, Rules, DevScopes

Items == DOMAIN Text
(* What IOCSet.scan looks for, and every kind of indicator. (Left out:     *)
(* Dependencies, ioc.go:24, which require adds to and no reason reads.)    *)
Found == {"URLs", "Domains", "IPs", "Onion", "Emails", "Wallets", "Secrets"}
Fields == Found \cup {"Paths", "FilesWritten", "FilesDeleted", "Commands", "EnvAccessed", "Decoded", "Headers",
                     "Payloads", "CryptoOps"}
(* A string holds finitely many indicators, and there are finitely many    *)
(* rules, each validated: a weight from 1 to 100 and known sinks (rules.go, *)
(* validate and EffectiveWeight).                                          *)
ASSUME TextAssumption ==
    \A i \in Items : IsFiniteSet(Text[i].finds) /\ Text[i].finds \subseteq Found \X Items
Sinks == {"network", "command", "file"}
ASSUME RuleAssumption == IsFiniteSet(Rules) /\ \A r \in Rules : r.weight \in 1..100 /\ r.sinks \subseteq Sinks

Has(i, trait) == trait \in Text[i].traits
In(iocs, fields) == {p[2] : p \in {q \in iocs : q[1] \in fields}}
Matching(iocs, fields, trait) == {i \in In(iocs, fields) : Has(i, trait)}
Said(e) == Range(e.args \o e.note)
Endpoints(events) == UNION {UNION {Text[a].hosts : a \in Said(e)} : e \in {x \in events : x.cat = "net"}}
Count(events, cat) == Cardinality({e \in events : e.cat = cat})

MicScored(t) == t.iocs
Mic(t) == t.iocs \cup t.mutedIOCs

Context(t) ==
    LET intrinsic == {e \in Range(t.events) : e.src \notin DevScopes}
    IN [intrinsic |-> intrinsic, events |-> {e \in intrinsic : ~e.muted}, ic |-> t.iocs, mic |-> Mic(t),
        watched |-> t.watched, tainted |-> t.tainted]

HardNet(c) == Endpoints(c.events)
NetURLs(c) == {h \in HardNet(c) : ~Has(h, "address")}
SuspiciousNet(c) == HardNet(c) # {} \/ In(c.ic, {"Payloads", "Onion"}) # {}
CorrelatedAlways(c) == TRUE
Correlated(c) == SuspiciousNet(c) \/ In(c.ic, {"Secrets"}) # {}

Egress(c) == In(c.mic, {"Payloads", "URLs", "Domains", "Headers"}) \cup Endpoints(c.intrinsic)
Arguments(events, cat) == UNION {Range(e.args) : e \in {x \in events : x.cat = cat}}
Words(events, cat) == UNION {Said(e) : e \in {x \in events : x.cat = cat}}
Space(c, sink) == CASE sink = "network" -> Egress(c)
                    [] sink = "command" -> In(c.mic, {"Commands"}) \cup Words(c.intrinsic, "proc")
                    [] sink = "file" -> In(c.mic, {"FilesWritten"}) \cup Words(c.intrinsic, "fs")
Reaches(space, value) == \E i \in space : value \in Text[i].holds

Reason(view, why, weight, holds) == IF holds THEN {[why |-> <<why>>, weight |-> weight, view |-> view]} ELSE {}
PerItem(view, why, weight, items) == {[why |-> <<why, i>>, weight |-> weight, view |-> view] : i \in items}

(* detectExfilAndProc: a stolen value that reaches an endpoint, and a      *)
(* shell wired to a socket.                                                *)
SpawnOps == {"exec", "execFile", "execSync", "execFileSync", "spawn", "fork", "spawnSync", "shell-exec"}
Spawned(c, trait) == {e \in c.intrinsic : e.cat = "proc" /\ e.op \in SpawnOps /\ \E a \in Range(e.args) : Has(a, trait)}
ExfilSources(c) ==
    \/ In(c.mic, {"Secrets"}) # {}
    \/ Matching(c.mic, {"Paths", "FilesWritten"}, "infostealer") # {}
    \/ Spawned(c, "infostealer") # {}
ExfilAndProc(c) ==
    Reason("intrinsic", "exfiltration", 60,
           \/ ExfilSources(c) /\ Endpoints(c.intrinsic) # {}
           \/ \E v \in c.watched : Reaches(Egress(c), v))
    \cup Reason("intrinsic", "shell on a socket", 60,
                Count(c.intrinsic, "net") > 0 /\ Spawned(c, "interactive shell") # {})

(* detectDynamicCode                                                       *)
Hides(i) == Text[i].hosts # {} \/ \E f \in Text[i].finds : f[1] = "Domains"
Fetched(c) == {e \in c.intrinsic : e.cat \in {"eval", "proc"} /\ \E a \in Said(e) : Has(a, "fetched")}
DynamicCode(c) ==
    LET seen(cat) == Count(c.events, cat)
        n(field) == Cardinality(In(c.ic, {field}))
        acts == Count(c.intrinsic, "net") > 0 \/ Count(c.intrinsic, "eval") > 0
    IN  Reason("scored", "network activity", 20, seen("net") > 0 /\ (HardNet(c) # {} \/ n("Payloads") > 0))
        \cup Reason("intrinsic", "download and execute", 60, Fetched(c) # {} /\ Count(c.intrinsic, "net") > 0)
        \cup Reason("scored", "dynamic code", 20, seen("eval") > 0 /\ Correlated(c))
        \cup Reason("scored", "packed code", 15, seen("eval") >= 5 /\ Correlated(c))
        \cup Reason("intrinsic", "decoded loader", 60, Matching(c.mic, {"Decoded"}, "loader") # {})
        \cup Reason("intrinsic", "decrypt then eval", 60, \E e \in c.intrinsic : e.op = "decrypt-then-eval")
        \cup Reason("intrinsic", "hidden endpoint", 60, acts /\ \E i \in In(c.mic, {"Decoded"}) : Hides(i))
        \cup Reason("scored", "writes files", 15, n("FilesWritten") > 0 /\ Correlated(c))
        \cup Reason("scored", "deletes files", 18, n("FilesDeleted") > 0)
        \cup Reason("scored", "wallets", 30, n("Wallets") > 0 /\ (NetURLs(c) # {} \/ n("Payloads") > 0))
        \cup Reason("scored", "onion", 25, n("Onion") > 0)
        \cup Reason("scored", "secrets", 20, n("Secrets") > 0 /\ (SuspiciousNet(c) \/ seen("net") > 0))
        \cup Reason("scored", "payloads", 15, n("Payloads") > 0 /\ seen("net") > 0)
        \cup Reason("scored", "ransomware", 25, Matching(c.ic, {"CryptoOps"}, "cipher") # {} /\ n("FilesWritten") >= 3)
        \cup Reason("scored", "decodes", 10, n("Decoded") > 0 /\ Correlated(c))
        \cup Reason("scored", "staged loader", 15, n("Decoded") > 0 /\ SuspiciousNet(c))
        \cup Reason("scored", "wiper", 45, n("FilesDeleted") > 0 /\ n("Decoded") > 0 /\ seen("eval") > 0)

(* The path and the content of a write that the intrinsic events hold.     *)
Writes(c) == {e.args : e \in {x \in c.intrinsic : x.cat = "fs" /\ x.op \in {"writeFileSync", "shell-write", "shell-write-data"}}}
WritesBoth(c, path, content) == \E w \in Writes(c) : Len(w) = 2 /\ Has(w[1], path) /\ Has(w[2], content)
Injects(c) == WritesBoth(c, "manifest", "hook") \/ WritesBoth(c, "another package", "shell payload")

(* detectSensitivePaths                                                    *)
SensitivePaths(c) ==
    LET when(gate, items) == IF gate THEN items ELSE {}
    IN  PerItem("scored", "env", 25, when(SuspiciousNet(c), Matching(c.ic, {"EnvAccessed"}, "sensitive")))
        \cup PerItem("scored", "reads", 25, when(Correlated(c), Matching(c.ic, {"Paths"}, "sensitive")))
        \cup PerItem("scored", "writes", 20, Matching(c.ic, {"FilesWritten"}, "sensitive"))
        \cup Reason("intrinsic", "registry hijack", 45, WritesBoth(c, "registry file", "foreign registry"))

(* The signatures that one indicator of the intrinsic view establishes.    *)
OneMatch == <<
    <<"system tampering", 60, {"FilesWritten"}>>, <<"infostealer", 40, {"Paths", "FilesWritten"}>>,
    <<"reverse shell", 60, {"Commands"}>>, <<"downloader pipe", 60, {"Commands"}>>,
    <<"decode pipe", 60, {"Commands"}>>, <<"privilege escalation", 30, {"Commands"}>>,
    <<"defense evasion", 60, {"Commands"}>>, <<"anti-forensics", 45, {"Commands"}>>,
    <<"container escape", 60, {"Commands"}>>, <<"lateral movement", 45, {"Commands"}>>,
    <<"covert tunnel", 45, {"Commands"}>>, <<"fork bomb", 45, {"Commands"}>>,
    <<"clipper", 60, {"Commands"}>>, <<"stealth install", 60, {"Commands"}>>,
    <<"persistence", 60, {"FilesWritten"}>>, <<"git hook", 20, {"FilesWritten"}>>,
    <<"scheduled task", 60, {"Commands"}>>,
    <<"miner", 60, {"Commands", "URLs", "Domains", "Payloads", "Decoded"}>>,
    <<"powershell", 60, {"Commands", "Decoded", "Payloads"}>>,
    <<"windows shell", 60, {"Commands", "Decoded", "Payloads"}>>,
    <<"credential dump", 60, {"Commands", "Decoded", "Payloads"}>>,
    <<"cloud metadata", 40, {"URLs", "Domains", "IPs", "Commands", "Decoded"}>>,
    <<"dns tunnel", 60, {"Commands", "Domains", "URLs", "Decoded"}>>,
    <<"out of band", 30, {"URLs", "Domains", "Onion", "Payloads", "Commands", "Decoded"}>> >>

Matched(c) == UNION {Reason("intrinsic", s[1], s[2], Matching(c.mic, s[3], s[1]) # {}) : s \in Range(OneMatch)}
StagedDownload(c) == \E d, x \in In(c.mic, {"Commands"}) : Text[d].fetches \cap Text[x].runs # {}
DropAndExec(c) == \E x \in Matching(c.mic, {"Commands"}, "interpreter") :
                     Text[x].holds \cap In(c.mic, {"FilesWritten"}) # {}

(* detectCommandSignatures                                                 *)
CommandSignatures(c) ==
    LET commands(trait) == Matching(c.mic, {"Commands"}, trait) # {}
    IN  Matched(c)
        \cup Reason("intrinsic", "staged download", 60, StagedDownload(c))
        \cup Reason("intrinsic", "drop and exec", 60, DropAndExec(c))
        \cup Reason("intrinsic", "injection", 60, Injects(c))
        \cup Reason("intrinsic", "native addon", 60, \E w \in Writes(c) : Has(w[1], "native addon"))
        \cup Reason("intrinsic", "extract and run", 60, commands("extracts") /\ commands("runs from stage"))
        \cup Reason("both", "worm", 60, commands("publish") /\ (Injects(c) \/ Correlated(c)))

(* detectEvasionAndEndpoints                                               *)
Arg(c, cat, trait) == {a \in Arguments(c.intrinsic, cat) : Has(a, trait)}
Ambient(c) == Arg(c, "fs", "ambient") # {} \/ Cardinality(Arg(c, "env", "ci")) >= 3
ProbesExactly(c) == Cardinality(Arg(c, "fs", "tell")) = 1 /\ Ambient(c) /\ Correlated(c)
Probes(c) == LET tells == Cardinality(Arg(c, "fs", "tell"))
             IN  \/ tells >= 2
                 \/ tells = 1 /\ Ambient(c) /\ Correlated(c)
EvasionAndEndpoints(c) ==
    Reason("intrinsic", "inspector", 60, \E e \in c.intrinsic : e.op = "inspector.open")
    \cup Reason("intrinsic", "dns hijack", 45, \E e \in c.intrinsic : e.op = "dns.setServers")
    \cup Reason("both", "sandbox probes", 20, Probes(c))
    \cup Reason("scored", "fingerprint", 8, Count(c.events, "os") > 0 /\ HardNet(c) # {})
    \cup Reason("scored", "endpoints", 10, HardNet(c) # {})

(* detectCustomTaint: a rule is [name, weight, sources, sinks].            *)
CustomTaint(c) ==
    {[why |-> <<"rule", r.name>>, weight |-> r.weight, view |-> "intrinsic"] :
        r \in {x \in Rules : \E s \in x.sinks, p \in c.tainted : p[1] = x.name /\ Reaches(Space(c, s), p[2])}}

(* detectStaticObfuscation                                                 *)
StaticObfuscation(c) == Reason("intrinsic", "obfuscated loader", 60, \E e \in c.intrinsic : e.op = "obfuscated-loader")

(* Verdict and finalizeVerdict                                             *)
Reasons(t) == LET c == Context(t)
              IN  ExfilAndProc(c) \cup DynamicCode(c) \cup SensitivePaths(c) \cup CommandSignatures(c)
                  \cup EvasionAndEndpoints(c) \cup CustomTaint(c) \cup StaticObfuscation(c)
Score(reasons) == LET sum == MapThenSumSet(LAMBDA r : r.weight, reasons)
                  IN  IF sum > 100 THEN 100 ELSE sum
Level(reasons) == CASE Score(reasons) >= 60 -> "malicious"
                    [] Score(reasons) \in 30..59 -> "suspicious"
                    [] Score(reasons) \in 1..29 -> "low"
                    [] Score(reasons) = 0 -> "clean"
=============================================================================
