----------------------------- MODULE MCScoring -----------------------------
(* Items with every trait the verdict looks for; all pairs of the calls that *)
(* chain, one in each worker and in every mode in which one of them may run; *)
(* and longer chains that cross the phases.                                  *)
EXTENDS Scoring, TLC

-----------------------------------------------------------------------------
(* The items.                                                              *)
Bare == [traits |-> {}, finds |-> {}, hosts |-> {}, holds |-> {}, fetches |-> {}, runs |-> {}]
Of(traits) == [Bare EXCEPT !.traits = traits]
Finding(finds) == [Bare EXCEPT !.finds = finds]
Holding(holds) == [Bare EXCEPT !.holds = holds]
Link == {<<"URLs", "c2">>, <<"Domains", "c2 host">>}
Named ==
    "c2" :> [Bare EXCEPT !.finds = Link, !.hosts = {"c2"}]
    @@ "c2 with bait" :> [Bare EXCEPT !.finds = Link, !.hosts = {"c2"}, !.holds = {"bait"}]
    @@ "ip" :> [Of({"address"}) EXCEPT !.finds = {<<"IPs", "ip">>}, !.hosts = {"ip"}]
    @@ "onion" :> Finding({<<"Onion", "onion">>}) @@ "token" :> Finding({<<"Secrets", "token">>})
    @@ "wallet" :> Finding({<<"Wallets", "wallet">>})
    @@ "stolen" :> Holding({"credential", "settings text"})
    @@ "AWS_KEY" :> Of({"sensitive"}) @@ "CI1" :> Of({"ci"}) @@ "CI2" :> Of({"ci"}) @@ "CI3" :> Of({"ci"})
    @@ "npmrc" :> Of({"sensitive", "registry file"}) @@ "registry line" :> Of({"foreign registry"})
    @@ "browser store" :> Of({"infostealer"})
    @@ "dockerenv" :> Of({"tell"}) @@ "cgroup" :> Of({"tell"}) @@ "cpuinfo" :> Of({"ambient"})
    @@ "curl|sh" :> [Of({"downloader pipe"}) EXCEPT !.finds = {<<"URLs", "c2">>}]
    @@ "curl f" :> [Bare EXCEPT !.fetches = {"f"}] @@ "sh f" :> [Bare EXCEPT !.runs = {"f"}]
    @@ "sh" :> Of({"interactive shell"}) @@ "publish" :> Of({"publish"})
    @@ "python drop" :> [Of({"interpreter"}) EXCEPT !.holds = {"drop"}]
    @@ "sh settings" :> Holding({"settings text"})
    @@ "unzip" :> Of({"extracts"}) @@ "stage" :> Of({"runs from stage"})
    @@ "shell script" :> Of({"script"}) @@ "bad script" :> Of({"reverse shell", "shebang"})
    @@ "package.json" :> Of({"manifest"}) @@ "hook" :> Of({"hook"})
    @@ "addon" :> Of({"native addon"}) @@ "cron" :> Of({"persistence"}) @@ "husky" :> Of({"git hook"})
    @@ "loader blob" :> Of({"loader", "high signal"})
    @@ "link blob" :> [Bare EXCEPT !.finds = Link, !.hosts = {"c2"}]
    @@ "fetched code" :> Of({"fetched"}) @@ "plain text code" :> Of({"deciphered"})
    @@ "loader code" :> Of({"loader", "high signal"})
    @@ "createCipheriv" :> Of({"cipher"})
AllItems == DOMAIN Named \cup
         {"c2 host", "credential", "settings", "settings text", "bait", "header", "drop", "out1", "out2", "out3",
          "blob", "code", "code2", "code3", "code4", "code5", "text", "socket", "none"}
AllText == [i \in AllItems |-> IF i \in DOMAIN Named THEN Named[i] ELSE Bare]

TwoRules == {[name |-> "to the network", weight |-> 40, sources |-> {"settings"}, sinks |-> {"network"}],
             [name |-> "to a command", weight |-> 20, sources |-> {"settings"}, sinks |-> {"command", "file"}]}
Installed == [watched |-> {"bait"}, tainted |-> {}]

-----------------------------------------------------------------------------
(* The calls, and the modes in which a call is made: by the host, loudly or *)
(* in the sweep or by one of its timers; by a devDependency, loaded or      *)
(* swept.                                                                   *)
A(stub, on) == [stub |-> stub, on |-> on, with |-> "none"]
B(stub, on, with) == [stub |-> stub, on |-> on, with |-> with]
Mode(scope, muted, quiet) == [scope |-> scope, muted |-> muted, quiet |-> quiet]
Loud == Mode("host", FALSE, FALSE)
Swept == Mode("host", TRUE, TRUE)
Timer == Mode("host", FALSE, TRUE)
Dev == Mode("dev", FALSE, FALSE)
DevSwept == Mode("dev", TRUE, TRUE)
Modes == {Loud, Swept, Timer, Dev, DevSwept}
In1(do, mode) == [do |-> do, scope |-> mode.scope, muted |-> mode.muted, quiet |-> mode.quiet]

Chaining == <<A("request", "c2"), B("post", "c2", "stolen"), B("xhr", "ip", "stolen"), A("lookup", "onion"),
    A("send", "token"), A("spawn", "sh"), A("spawn", "publish"), B("read", "npmrc", "credential"),
    B("read", "settings", "settings text"), A("readMissing", "browser store"), A("env", "AWS_KEY"),
    B("write", "package.json", "hook"), A("delete", "drop"), A("bufferFrom", "link blob"),
    A("atob", "loader blob"), A("eval", "fetched code"), A("readMissing", "dockerenv"), A("hostInfo", "none")>>
Alone == {A("bufferFrom", "token"), A("eval", "onion"),
    A("requestOver", "socket"), A("setHeader", "header"), A("fetch", "c2 with bait"), B("beacon", "c2", "wallet"),
    A("connect", "ip"), A("listen", "none"), A("setServers", "ip"), A("spawn", "curl|sh"), A("runNode", "text"),
    B("write", "shell script", "bad script"), B("shellWrite", "husky", "bad script"), B("write", "npmrc", "registry line"),
    B("write", "addon", "text"), B("write", "cron", "text"), A("bufferConcat", "loader blob"), A("fromCharCode", "link blob"),
    A("eval", "code"), A("eval", "loader code"), A("eval", "plain text code"), A("shellDecode", "blob"),
    B("decipher", "createCipheriv", "loader blob"), A("cipher", "createCipheriv"), A("inspector", "none"), A("obfuscated", "none")}

Spread(before, one, two, after) ==
    [before |-> before, shard |-> ("w1" :> one @@ "w2" :> two), after |-> after]
PairPlans == {Spread(<<>>, <<In1(Chaining[ij[1]], mn[1])>>, <<In1(Chaining[ij[2]], mn[2])>>, <<>>) :
                ij \in {x \in (1..Len(Chaining)) \X (1..Len(Chaining)) : x[1] < x[2]},
                mn \in {x \in Modes \X Modes : x[1] = Loud \/ x[2] = Loud \/ x[1] = x[2]}}
AlonePlans == {Spread(<<In1(a, m)>>, <<>>, <<>>, <<>>) : a \in Alone, m \in Modes}
              \cup {Spread(<<>>, <<In1(a, m)>>, <<>>, <<In1(A("request", "c2"), Loud)>>) : a \in Alone, m \in Modes}

Chains == {
    <<A("readMissing", "dockerenv"), A("readMissing", "cgroup"), A("readMissing", "cpuinfo"), A("send", "token")>>,
    <<A("readMissing", "dockerenv"), A("send", "text"), A("readMissing", "cpuinfo"), A("readMissing", "cgroup")>>,
    <<A("env", "CI1"), A("env", "CI2"), A("env", "CI3"), A("readMissing", "dockerenv"), A("connect", "ip")>>,
    <<A("spawn", "curl f"), A("shellExec", "sh f"), A("delete", "drop"), A("env", "CI1")>>,
    <<B("write", "drop", "text"), A("spawn", "python drop"), A("eval", "code"), A("bufferFrom", "token")>>,
    <<A("spawn", "unzip"), A("spawn", "stage"), A("delete", "drop"), A("delete", "out1")>>,
    <<A("bufferFrom", "blob"), A("eval", "code"), A("delete", "drop"), A("eval", "code2")>>,
    <<A("eval", "code"), A("eval", "code2"), A("eval", "code3"), A("eval", "code4"), A("eval", "code5")>>,
    <<A("delete", "dockerenv"), A("delete", "cgroup"), A("delete", "drop"), A("delete", "out1")>>,
    <<B("write", "out1", "text"), B("write", "out2", "text"), A("cipher", "createCipheriv"), B("write", "out3", "text")>>,
    <<B("write", "drop", "text"), B("write", "out1", "text"), B("write", "out2", "text"), B("write", "out3", "text")>>,
    <<B("read", "settings", "settings text"), A("spawn", "sh settings"), B("post", "c2", "stolen"), A("hostInfo", "none")>>,
    <<B("write", "package.json", "hook"), A("spawn", "publish"), B("read", "npmrc", "credential"), B("xhr", "c2", "stolen")>>,
    <<A("send", "text"), A("send", "wallet"), A("send", "token"), A("send", "stolen"), B("beacon", "c2", "blob")>>}
Cut(chain, m, n) ==
    LET step(k, mode) == In1(chain[k], mode)
    IN  {Spread(<<step(1, Loud)>>, <<step(2, m)>>, [k \in 1..(Len(chain) - 3) |-> step(k + 2, n)], <<step(Len(chain), Loud)>>),
         Spread(<<>>, <<step(1, m), step(2, m)>>, [k \in 1..(Len(chain) - 2) |-> step(k + 2, n)], <<>>),
         Spread([k \in DOMAIN chain |-> step(k, m)], <<>>, <<>>, <<>>)}
ChainPlans == UNION {Cut(c, m, n) : c \in Chains, m, n \in Modes}

TwoWorkers == <<"w1", "w2">>
AllPlans == PairPlans \cup AlonePlans \cup ChainPlans
=============================================================================
