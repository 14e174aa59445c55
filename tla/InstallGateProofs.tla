------------------------- MODULE InstallGateProofs -------------------------
(***************************************************************************)
(* Proofs about InstallGate, for every command line, package.json, pool     *)
(* size and behaviour of the registry.                                      *)
(*                                                                          *)
(* The inductive invariant says where each job is: still with the feeder,   *)
(* with one goroutine, or counted.  Held is the part about goroutines and   *)
(* Counted the part about what the gate knows of the others.                *)
(***************************************************************************)
EXTENDS InstallGate, FiniteSetTheorems, TLAPS

Busy == {g \in Goroutine : pool[g].at \in {"run", "send"}}

Holds(j) == \E g \in Busy : pool[g].job = j

\* A busy goroutine has a job of its own, and an answer once it sends.
Held ==
  /\ \A g \in Busy : pool[g].job \in 1 .. fed
  /\ \A g, h \in Busy : g # h => pool[g].job # pool[h].job
  /\ \A g \in Busy : pool[g].at = "send" => found[pool[g].job] # "nothing"

\* A job that was fed and is with nobody has been counted.
Counted ==
  /\ \A j \in 1 .. fed : ~Holds(j) => found[j] # "nothing" /\ (Blocks(found[j]) => blocked)
  /\ blocked => \E j \in 1 .. fed : ~Holds(j) /\ Blocks(found[j])

\* The first goroutine, which always starts, outlasts the feeder.
Feeding == pool[1].at = "done" => fed = Len(specs)

\* Nothing has happened yet; the pool is done; and a decision rests on that.
Fresh   == pc = "start" => specs = <<>> /\ fed = 0 /\ ~outClosed /\ excuses = {} /\ AllDone
Closed  == outClosed => AllDone
Settled ==
  /\ pc \notin {"start", "scanning"} /\ specs # <<>> => outClosed
  /\ LetLoose /\ "forced" \notin excuses => ~blocked
  /\ pc = "refused" /\ specs # <<>> => blocked
  /\ pc = "confirming" => outClosed /\ blocked

Shape == TypeOK /\ Held /\ Feeding /\ Fresh /\ Closed

IInv == Shape /\ Counted /\ Settled

-----------------------------------------------------------------------------
(* Facts about the operators *)

\* Ranks are numbers.
LEMMA RankType == ASSUME NEW f PROVE Rank(f) \in Nat
BY DEF Rank, verdictRank

\* A finding blocks or lies below the threshold.
LEMMA BelowOrBlocks ==
  ASSUME NEW f \in Level \cup {"error"}
  PROVE  Below(f) <=> ~Blocks(f)
<1>1. Rank(f) \in Nat /\ Rank(failOn) \in Nat
  BY RankType
<1>2. "error" \notin Level
  BY DEF Level
<1> QED
  BY <1>1, <1>2 DEF Below, Blocks

\* Counting a finding keeps the tally a tally and adds one to its total.
LEMMA TallyStep ==
  ASSUME TypeOK, NEW f, tally' = [tally EXCEPT ![Column(f)] = @ + 1]
  PROVE  tally' \in [pass: Nat, susp: Nat, mal: Nat, errs: Nat] /\ Total' = Total + 1
<1>1. Column(f) \in {"pass", "susp", "mal", "errs"}
  BY DEF Column, Columns
<1>2. tally \in [pass: Nat, susp: Nat, mal: Nat, errs: Nat]
  BY DEF TypeOK
<1>3. ASSUME NEW c \in {"pass", "susp", "mal", "errs"}, tally' = [tally EXCEPT ![c] = @ + 1]
      PROVE  tally' \in [pass: Nat, susp: Nat, mal: Nat, errs: Nat] /\ Total' = Total + 1
  <2>1. CASE c = "pass"
    BY <1>2, <1>3, <2>1 DEF Total
  <2>2. CASE c = "susp"
    BY <1>2, <1>3, <2>2 DEF Total
  <2>3. CASE c = "mal"
    BY <1>2, <1>3, <2>3 DEF Total
  <2>4. CASE c = "errs"
    BY <1>2, <1>3, <2>4 DEF Total
  <2> QED
    BY <1>3, <2>1, <2>2, <2>3, <2>4
<1> QED
  BY <1>1, <1>3

\* The invariant, taken apart.
LEMMA Parts ==
  ASSUME IInv
  PROVE  TypeOK /\ Held /\ Feeding /\ Fresh /\ Closed /\ Counted /\ Settled
BY DEF IInv, Shape

\* Lengths are numbers, and the feeder stays within the list.
LEMMA Lengths ==
  ASSUME TypeOK
  PROVE  Len(named) \in Nat /\ Len(specs) \in Nat /\ fed \in Nat /\ fed <= Len(specs)
<1>1. Len(named) \in Nat /\ Len(specs) \in Nat
  BY DEF TypeOK
<1>2. fed \in 0 .. Len(specs)
  BY DEF TypeOK
<1> QED
  BY <1>1, <1>2

\* The job of a goroutine.
LEMMA PoolType ==
  ASSUME TypeOK, NEW g \in Goroutine
  PROVE  pool[g].job \in 0 .. fed /\ pool[g].at \in {"receive", "run", "send", "done"}
BY DEF TypeOK

\* A list the pool starts with: every goroutine that starts is idle.
LEMMA BeginShape ==
  ASSUME Shape, pc = "start", NEW list \in Seq(Package), Begin(list)
  PROVE  /\ specs' \in Seq(Package) /\ fed' = 0 /\ fed' \in 0 .. Len(specs')
         /\ found' \in [DOMAIN specs' -> Level \cup {"error", "nothing"}]
         /\ pool' \in [Goroutine -> [at: {"receive", "run", "send", "done"}, job: 0 .. fed']]
         /\ Busy' = {} /\ Feeding' /\ Closed'
         /\ pc' = (IF list = <<>> THEN "installing" ELSE "scanning")
<1>1. 1 \in Goroutine /\ Len(list) \in Nat
  BY GateAssumption DEF Goroutine
<1>2. \A g \in Goroutine : pool'[g] \in {[at |-> "receive", job |-> 0], pool[g]}
  BY DEF Begin
<1>3. \A g \in Goroutine : pool[g].at = "done" /\ pool[g] \in [at: {"receive", "run", "send", "done"}, job: 0 .. 0]
  BY DEF Shape, TypeOK, Fresh, AllDone
<1>4. fed' = 0 /\ ~outClosed'
  BY DEF Begin, Shape, Fresh
<1>5. pool' \in [Goroutine -> [at: {"receive", "run", "send", "done"}, job: 0 .. 0]]
  BY <1>2, <1>3 DEF Begin
<1>6. Busy' = {}
  BY <1>2, <1>3 DEF Busy
<1>7. Feeding'
  <2>1. CASE Len(list) = 0
    BY <2>1, <1>4 DEF Feeding, Begin
  <2>2. CASE Len(list) # 0
    <3>1. pool'[1].at = "receive"
      BY <2>2, <1>1 DEF Begin
    <3> QED
      BY <3>1 DEF Feeding
  <2> QED
    BY <2>1, <2>2
<1> QED
  BY <1>1, <1>4, <1>5, <1>6, <1>7 DEF Begin, Closed, Goto

-----------------------------------------------------------------------------
LEMMA InitIInv == Init => IInv
<1> SUFFICES ASSUME Init PROVE IInv
  OBVIOUS
<1>2. named \in Seq(Package)
  BY GateAssumption DEF Init
<1>3. <<>> \in Seq(Package) /\ Len(<<>>) = 0 /\ DOMAIN <<>> = {} /\ found = <<>>
  BY DEF Init
<1>4. found \in [Job -> Level \cup {"error", "nothing"}]
  BY <1>3 DEF Init, Job
<1>5. TypeOK
  <2>1. fed \in 0 .. Len(specs) /\ specs \in Seq(Package)
    BY <1>3 DEF Init
  <2>2. pool \in [Goroutine -> [at: {"receive", "run", "send", "done"}, job: 0 .. fed]]
    BY DEF Init
  <2>3. latest \in [Package -> 0 .. MaxVersion] /\ seen \cup landed \subseteq Package \X (0 .. MaxVersion)
    BY GateAssumption DEF Init
  <2> QED
    BY <1>2, <1>4, <2>1, <2>2, <2>3 DEF Init, TypeOK, Zero
<1>6. Busy = {} /\ AllDone
  BY DEF Init, Busy, AllDone
<1>7. 1 \in Goroutine
  BY GateAssumption DEF Goroutine
<1> QED
  BY <1>3, <1>5, <1>6, <1>7 DEF Init, IInv, Shape, Held, Counted, Feeding, Fresh, Closed, Settled,
                           LetLoose, AllDone

-----------------------------------------------------------------------------
(* Each step preserves the invariant *)

\* A step that leaves the scan and the counts alone leaves what is said of them.
LEMMA ScanKept ==
  ASSUME IInv, UNCHANGED <<command, scan, count>>
  PROVE  Held' /\ Counted' /\ Feeding' /\ Closed' /\ AllDone' = AllDone
BY DEF IInv, Shape, Held, Counted, Holds, Busy, Blocks, Feeding, Closed, AllDone, command, scan, count

\* runPMGate without a scan.
LEMMA ByPass ==
  ASSUME IInv, PassThrough \/ NoPackageJson \/ BadPackageJson \/ RefuseRemote
  PROVE  IInv'
<1>1. UNCHANGED <<command, scan, count, world>> /\ pc = "start" /\ pc' \in {"installing", "refused"}
  BY DEF PassThrough, NoPackageJson, BadPackageJson, RefuseRemote, Gated, Goto
<1>2. excuses' \subseteq Reasons
  BY DEF PassThrough, NoPackageJson, BadPackageJson, RefuseRemote, Excuse, Reasons, IInv, Shape, TypeOK
<1>3. specs' = <<>> /\ ~blocked'
  <2>1. Busy = {} /\ fed = 0
    BY <1>1 DEF IInv, Shape, Fresh, AllDone, Busy
  <2>2. ~blocked
    BY <2>1 DEF IInv, Counted
  <2> QED
    BY <1>1, <2>2 DEF IInv, Shape, Fresh, scan, count
<1>4. TypeOK'
  BY <1>1, <1>2 DEF IInv, Shape, TypeOK, Job, command, scan, count, world
<1> QED
  BY <1>1, <1>3, <1>4, ScanKept DEF IInv, Shape, Fresh, Settled

\* runPMGate up to the start of the pool.
LEMMA Beginning ==
  ASSUME IInv, ScanDeclared \/ ScanNamed \/ SkipRemote
  PROVE  IInv'
<1>1. PICK list \in Seq(Package) : Begin(list)
  <2>1. CASE ScanDeclared
    BY <2>1, GateAssumption DEF ScanDeclared
  <2>2. CASE ScanNamed
    BY <2>2 DEF ScanNamed, IInv, Shape, TypeOK
  <2>3. CASE SkipRemote
    <3>1. PICK n \in 0 .. Len(named) : \E k \in [1 .. n -> DOMAIN named] :
            Begin([j \in 1 .. n |-> named[k[j]]])
      BY <2>3 DEF SkipRemote
    <3>2. PICK k \in [1 .. n -> DOMAIN named] : Begin([j \in 1 .. n |-> named[k[j]]])
      BY <3>1
    <3>3. named \in Seq(Package) /\ n \in Nat
      BY Parts, Lengths DEF TypeOK
    <3>4. \A i \in DOMAIN named : named[i] \in Package
      BY <3>3
    <3>5. [j \in 1 .. n |-> named[k[j]]] \in [1 .. n -> Package]
      BY <3>4
    <3>6. [j \in 1 .. n |-> named[k[j]]] \in Seq(Package)
      BY <3>3, <3>5
    <3> QED
      BY <3>2, <3>6
  <2> QED
    BY <2>1, <2>2, <2>3
<1>2. pc = "start" /\ excuses' \subseteq Reasons
  BY DEF ScanDeclared, ScanNamed, SkipRemote, Gated, Excuse, Reasons, IInv, Shape, TypeOK
<1>3. Busy = {} /\ fed = 0 /\ ~blocked
  <2>1. Busy = {} /\ fed = 0
    BY <1>2 DEF IInv, Shape, Fresh, AllDone, Busy
  <2> QED
    BY <2>1 DEF IInv, Counted
<1>4. /\ specs' \in Seq(Package) /\ fed' = 0 /\ fed' \in 0 .. Len(specs')
      /\ found' \in [DOMAIN specs' -> Level \cup {"error", "nothing"}]
      /\ pool' \in [Goroutine -> [at: {"receive", "run", "send", "done"}, job: 0 .. fed']]
      /\ Busy' = {} /\ Feeding' /\ Closed'
      /\ pc' = (IF list = <<>> THEN "installing" ELSE "scanning")
  BY <1>1, <1>2, BeginShape DEF IInv
<1>5. UNCHANGED <<command, count, world>> /\ specs' = list /\ outClosed' = outClosed
  BY <1>1 DEF Begin
<1>6. TypeOK'
  BY <1>2, <1>4, <1>5 DEF IInv, Shape, TypeOK, Job, command, count, world
<1>7. Held' /\ Counted' /\ Fresh'
  BY <1>3, <1>4, <1>5 DEF Held, Counted, Fresh, count
<1>8. Settled'
  BY <1>3, <1>4, <1>5 DEF Settled, LetLoose, count
<1> QED
  BY <1>4, <1>6, <1>7, <1>8 DEF IInv, Shape

\* The decision and the override.
LEMMA Deciding ==
  ASSUME IInv, Decide
  PROVE  IInv'
<1>0. (pc = "confirming" => outClosed /\ blocked) /\ excuses \subseteq Reasons
  BY Parts DEF Settled, TypeOK
<1>1. /\ UNCHANGED <<command, scan, count, world>>
      /\ outClosed /\ pc # "start" /\ excuses' \subseteq Reasons
      /\ \/ pc' = "installing" /\ (~blocked \/ "forced" \in excuses')
         \/ pc' \in {"confirming", "refused"} /\ blocked
  <2>1. CASE AllClear
    BY <1>0, <2>1 DEF AllClear, Goto
  <2>2. CASE Override
    BY <1>0, <2>2 DEF Override, Goto, Excuse, Reasons
  <2>3. CASE Ask
    BY <1>0, <2>3 DEF Ask, Goto
  <2>4. CASE Refuse
    BY <1>0, <2>4 DEF Refuse, Goto
  <2>5. CASE Confirm
    BY <1>0, <2>5 DEF Confirm, Goto, Excuse, Reasons
  <2> QED
    BY <2>1, <2>2, <2>3, <2>4, <2>5 DEF Decide
<1>3. TypeOK'
  BY <1>1 DEF IInv, Shape, TypeOK, Job, command, scan, count, world
<1>4. Settled'
  BY <1>1 DEF Settled, LetLoose, scan, count
<1> QED
  BY <1>1, <1>3, <1>4, ScanKept DEF IInv, Shape, Fresh

\* The package manager, and the registry.
LEMMA Outside ==
  ASSUME IInv, Install \/ InstallFails \/ (\E p \in Package : Publish(p)) \/ UNCHANGED vars
  PROVE  IInv'
<1>1. UNCHANGED <<command, scan, count, excuses>>
  BY DEF Install, InstallFails, Publish, vars
<1>2. pc' = pc \/ (pc = "installing" /\ pc' = "ran")
  BY DEF Install, InstallFails, Publish, Goto, vars
<1>0. latest \in [Package -> 0 .. MaxVersion] /\ seen \cup landed \subseteq Package \X (0 .. MaxVersion)
  BY Parts DEF TypeOK
<1>3. latest' \in [Package -> 0 .. MaxVersion]
  <2>1. ASSUME NEW p \in Package, Publish(p) PROVE latest' \in [Package -> 0 .. MaxVersion]
    <3>1. latest[p] \in 0 .. MaxVersion /\ latest[p] < MaxVersion
      BY <1>0, <2>1 DEF Publish
    <3>2. latest[p] \in Nat /\ MaxVersion \in Nat
      BY <3>1, GateAssumption
    <3>3. latest[p] + 1 \in 0 .. MaxVersion
      BY <3>1, <3>2
    <3> QED
      BY <1>0, <2>1, <3>3 DEF Publish
  <2> QED
    BY <1>0, <2>1 DEF Install, InstallFails, vars, world
<1>4. seen' \cup landed' \subseteq Package \X (0 .. MaxVersion)
  <2>1. CASE Install
    <3>1. CASE landed' = {}
      BY <1>0, <2>1, <3>1 DEF Install
    <3>2. CASE landed' # {}
      <4>1. PICK version \in [Closure(Requested) -> 0 .. MaxVersion] :
                landed' = {<<p, version[p]>> : p \in Closure(Requested)}
        BY <2>1, <3>2 DEF Install
      <4>2. \A p \in Closure(Requested) : p \in Package
        BY DEF Closure
      <4>3. landed' \subseteq Package \X (0 .. MaxVersion)
        BY <4>1, <4>2
      <4> QED
        BY <1>0, <2>1, <4>3 DEF Install
    <3> QED
      BY <3>1, <3>2
  <2>2. CASE InstallFails \/ (\E p \in Package : Publish(p)) \/ UNCHANGED vars
    BY <1>0, <2>2 DEF InstallFails, Publish, vars, world
  <2> QED
    BY <2>1, <2>2
<1>5. TypeOK'
  BY <1>1, <1>2, <1>3, <1>4 DEF IInv, Shape, TypeOK, Job, command, scan, count
<1>6. Fresh' /\ Settled'
  BY <1>1, <1>2, ScanKept DEF IInv, Shape, Fresh, Settled, LetLoose, scan, count
<1> QED
  BY <1>1, <1>5, <1>6, ScanKept DEF IInv, Shape

\* A goroutine takes the next job.
LEMMA Handing ==
  ASSUME IInv, NEW g \in Goroutine, Hand(g)
  PROVE  IInv'
<1>1. fed \in Nat /\ fed' = fed + 1 /\ fed' \in 0 .. Len(specs) /\ fed' \in Nat /\ g \notin Busy
  BY Parts, Lengths DEF Hand, Busy
<1>2. /\ pool' = [pool EXCEPT ![g] = [at |-> "run", job |-> fed + 1]]
      /\ UNCHANGED <<command, pc, specs, found, outClosed, count, excuses, world>>
  BY DEF Hand
<1>3. /\ pool'[g] = [at |-> "run", job |-> fed + 1]
      /\ \A h \in Goroutine \ {g} : pool'[h] = pool[h]
  BY <1>2 DEF IInv, Shape, TypeOK
<1>4. Busy' = Busy \cup {g}
  BY <1>3 DEF Busy
<1>5. pool' \in [Goroutine -> [at: {"receive", "run", "send", "done"}, job: 0 .. fed']]
  <2>1. \A h \in Goroutine : pool[h].job \in 0 .. fed /\ pool[h] \in [at: {"receive", "run", "send", "done"}, job: 0 .. fed']
    <3>1. \A h \in Goroutine : pool[h] \in [at: {"receive", "run", "send", "done"}, job: 0 .. fed]
      BY Parts DEF TypeOK
    <3>2. 0 .. fed \subseteq 0 .. fed'
      BY <1>1
    <3> QED
      BY <3>1, <3>2
  <2>2. [at |-> "run", job |-> fed + 1] \in [at: {"receive", "run", "send", "done"}, job: 0 .. fed']
    BY <1>1
  <2> QED
    BY <1>2, <2>1, <2>2 DEF IInv, Shape, TypeOK
<1>6. TypeOK'
  BY <1>1, <1>2, <1>5 DEF IInv, Shape, TypeOK, Job, command, count, world
<1>7. \A h \in Busy : pool[h].job \in 1 .. fed /\ pool'[h] = pool[h] /\ pool[h].job # fed + 1
  BY <1>1, <1>3 DEF IInv, Shape, Held, Busy
<1>8. Held'
  <2>1. \A h \in Busy' : pool'[h].job \in 1 .. fed'
    BY <1>1, <1>3, <1>4, <1>7
  <2>2. \A h, i \in Busy' : h # i => pool'[h].job # pool'[i].job
    BY <1>3, <1>4, <1>7 DEF IInv, Shape, Held
  <2>3. \A h \in Busy' : pool'[h].at = "send" => found'[pool'[h].job] # "nothing"
    BY <1>2, <1>3, <1>4, <1>7 DEF IInv, Shape, Held
  <2> QED
    BY <2>1, <2>2, <2>3 DEF Held
<1>9. \A j \in 1 .. fed' : Holds(j)' <=> Holds(j) \/ j = fed + 1
  BY <1>3, <1>4, <1>7 DEF Holds
<1>10. Counted'
  <2>1. \A j \in 1 .. fed' : ~Holds(j)' => j \in 1 .. fed /\ ~Holds(j)
    BY <1>1, <1>9
  <2>2. \A j \in 1 .. fed : ~Holds(j) => j \in 1 .. fed' /\ ~Holds(j)'
    BY <1>1, <1>9
  <2>3. \A f : Blocks(f)' <=> Blocks(f)
    BY <1>2 DEF Blocks, command
  <2> QED
    BY <1>2, <2>1, <2>2, <2>3 DEF IInv, Counted, count
<1>11. Feeding'
  <2>1. pool'[1].at = "done" => pool[1].at = "done"
    BY <1>3, GateAssumption DEF Goroutine
  <2> QED
    BY <2>1, Parts, Lengths DEF Feeding, Hand
<1>12. pc # "start" /\ ~outClosed
  BY DEF Hand, IInv, Shape, Fresh, Closed, AllDone
<1> QED
  BY <1>2, <1>6, <1>8, <1>10, <1>11, <1>12 DEF IInv, Shape, Fresh, Closed, Settled, LetLoose, count

\* An analysis ends: its job stays with the goroutine, which now has an answer.
\* An analysis has looked at a version the spec has meant, or at something else.
LEMMA ScannedIs ==
  ASSUME TypeOK, NEW p \in Package, NEW versions \in Scanned(p)
  PROVE  /\ versions \subseteq Package \X (0 .. MaxVersion)
         /\ p \notin Remote \cup Divergent => versions = {<<p, latest[p]>>}
<1>1. latest[p] \in 0 .. MaxVersion /\ latest[p] \in Nat
  BY DEF TypeOK
<1>2. \A v \in 0 .. latest[p] : v \in 0 .. MaxVersion
  BY <1>1, GateAssumption
<1>3. p \notin Remote \cup Divergent => versions = {<<p, latest[p]>>}
  BY DEF Scanned, Local, NewestOf
<1>4. versions = {} \/ \E v \in 0 .. MaxVersion : versions = {<<p, v>>}
  BY <1>1, <1>2 DEF Scanned, NewestOf, AnyOrNoneOf
<1> QED
  BY <1>3, <1>4

LEMMA Analysing ==
  ASSUME IInv, NEW g \in Goroutine, Analyse(g)
  PROVE  IInv'
<1>0. TypeOK /\ Held /\ Counted /\ pool[g].at = "run" /\ g \in Busy
  BY Parts DEF Analyse, Busy
<1> DEFINE j == pool[g].job
<1>1. j \in 1 .. fed /\ j \in Job
  BY <1>0, Lengths DEF Held, Job, TypeOK
<1>2. PICK f \in Level \cup {"error"} : found' = [found EXCEPT ![j] = f]
  BY DEF Analyse
<1>3. /\ pool' = [pool EXCEPT ![g].at = "send"]
      /\ UNCHANGED <<command, pc, specs, fed, outClosed, count, excuses, latest, landed>>
  BY DEF Analyse
<1>4. f # "nothing"
  BY DEF Level
<1>5. /\ pool'[g].at = "send" /\ pool'[g].job = j
      /\ \A h \in Goroutine \ {g} : pool'[h] = pool[h]
      /\ pool' \in [Goroutine -> [at: {"receive", "run", "send", "done"}, job: 0 .. fed]]
  BY <1>0, <1>3 DEF TypeOK
<1>6. /\ found'[j] = f
      /\ \A i \in Job \ {j} : found'[i] = found[i]
      /\ found' \in [Job -> Level \cup {"error", "nothing"}]
  BY <1>0, <1>1, <1>2 DEF TypeOK
<1>7. seen' \subseteq Package \X (0 .. MaxVersion)
  <2>1. specs[j] \in Package
    BY <1>0, <1>1 DEF TypeOK, Job
  <2>2. \A versions \in Scanned(specs[j]) : versions \subseteq Package \X (0 .. MaxVersion)
    BY <1>0, <2>1, ScannedIs
  <2> QED
    BY <1>0, <2>2 DEF Analyse, TypeOK
<1>8. TypeOK'
  BY <1>0, <1>3, <1>5, <1>6, <1>7 DEF TypeOK, Job, command, count
<1>9. Busy' = Busy /\ \A h \in Busy : pool'[h].job = pool[h].job
  BY <1>0, <1>5 DEF Busy
<1>10. \A i : Holds(i)' <=> Holds(i)
  BY <1>9 DEF Holds
<1>11. \A h \in Busy \ {g} : pool[h].job # j /\ pool[h].job \in Job
  BY <1>0, <1>1, Lengths, SMTT(20) DEF Held, Job, TypeOK
<1>12. Held'
  <2>1. \A h \in Busy : pool[h].job \in 1 .. fed'
    BY <1>0, <1>3 DEF Held
  <2>2. \A h \in Busy : pool'[h].at = "send" => found'[pool[h].job] # "nothing"
    BY <1>0, <1>4, <1>5, <1>6, <1>11 DEF Held, Busy
  <2> QED
    BY <1>0, <1>9, <2>1, <2>2 DEF Held
<1>13. Counted'
  <2>1. \A i \in 1 .. fed : ~Holds(i) => i # j /\ i \in Job /\ found'[i] = found[i]
    BY <1>0, <1>6, Lengths DEF Holds, Job, TypeOK
  <2>2. \A e : Blocks(e)' <=> Blocks(e)
    BY <1>3 DEF Blocks, command
  <2> QED
    BY <1>0, <1>3, <1>10, <2>1, <2>2 DEF Counted, count
<1>14. Feeding' /\ Closed' /\ pc # "start" /\ ~outClosed
  BY <1>0, <1>3, <1>5, Parts, GateAssumption DEF Feeding, Closed, AllDone, Fresh, Goroutine
<1> QED
  BY <1>3, <1>8, <1>12, <1>13, <1>14, Parts DEF IInv, Shape, Fresh, Settled, LetLoose, count

\* A goroutine leaves the pool, or the pool is closed.
LEMMA Ending ==
  ASSUME IInv, (\E g \in Goroutine : Finish(g)) \/ CloseOut
  PROVE  IInv'
<1>1. CASE CloseOut
  <2>1. Held' /\ Counted' /\ Feeding' /\ Fresh' /\ AllDone' /\ TypeOK'
    BY <1>1, Parts DEF CloseOut, Held, Counted, Holds, Busy, Blocks, Feeding, Fresh, AllDone, TypeOK, Job,
                       command, count, world
  <2> QED
    BY <1>1, <2>1, Parts DEF CloseOut, IInv, Shape, Closed, Settled, LetLoose, count
<1>2. ASSUME NEW g \in Goroutine, Finish(g) PROVE IInv'
  <2>1. /\ pool' = [pool EXCEPT ![g].at = "done"] /\ pool[g].at = "receive" /\ fed = Len(specs)
        /\ UNCHANGED <<command, pc, specs, fed, found, outClosed, count, excuses, world>>
    BY <1>2 DEF Finish, InClosed
  <2>2. /\ pool'[g].at = "done"
        /\ \A h \in Goroutine \ {g} : pool'[h] = pool[h]
        /\ pool' \in [Goroutine -> [at: {"receive", "run", "send", "done"}, job: 0 .. fed]]
    BY <2>1, Parts DEF TypeOK
  <2>3. Busy' = Busy /\ \A h \in Busy : pool'[h] = pool[h]
    BY <2>1, <2>2 DEF Busy
  <2>4. Held' /\ Counted'
    BY <2>1, <2>3, Parts DEF Held, Counted, Holds, Blocks, command, count
  <2>5. TypeOK'
    BY <2>1, <2>2, Parts DEF TypeOK, Job, command, count, world
  <2>6. pc # "start" /\ ~outClosed
    BY <2>1, Parts DEF Fresh, Closed, AllDone
  <2> QED
    BY <2>1, <2>4, <2>5, <2>6, Parts DEF IInv, Shape, Feeding, Closed, Fresh, Settled, LetLoose, count
<1> QED
  BY <1>1, <1>2

\* The gate counts a result.
LEMMA Collecting ==
  ASSUME IInv, NEW g \in Goroutine, Collect(g)
  PROVE  IInv' /\ Busy' = Busy \ {g} /\ g \in Busy /\ fed' = fed /\ Total' = Total + 1
<1>0. TypeOK /\ Held /\ Counted /\ pool[g].at = "send" /\ g \in Busy
  BY Parts DEF Collect, Busy
<1> PICK j : j = pool[g].job
  OBVIOUS
<1>1. j \in 1 .. fed /\ j \in Job
  BY <1>0, Lengths DEF Held, Job, TypeOK
<1>2. /\ pool' = [pool EXCEPT ![g].at = "receive"]
      /\ tally' = [tally EXCEPT ![Column(found[j])] = @ + 1]
      /\ blocked' = (blocked \/ Blocks(found[j]))
      /\ pc = "scanning" /\ ~outClosed
      /\ UNCHANGED <<command, pc, specs, fed, found, outClosed, excuses, world>>
  BY DEF Collect
<1>3. tally' \in [pass: Nat, susp: Nat, mal: Nat, errs: Nat] /\ Total' = Total + 1
  BY <1>0, <1>2, TallyStep
<1>4. /\ pool'[g].at = "receive" /\ pool'[g].job = j
      /\ \A h \in Goroutine \ {g} : pool'[h] = pool[h]
      /\ pool' \in [Goroutine -> [at: {"receive", "run", "send", "done"}, job: 0 .. fed]]
  BY <1>0, <1>2 DEF TypeOK
<1>5. TypeOK'
  BY <1>0, <1>2, <1>3, <1>4 DEF TypeOK, Job, command, world
<1>6. Busy' = Busy \ {g} /\ \A h \in Busy \ {g} : pool'[h] = pool[h]
  BY <1>4 DEF Busy
<1>7. Held'
  BY <1>0, <1>2, <1>6 DEF Held
<1>8. /\ \A i : i # j => (Holds(i)' <=> Holds(i))
      /\ ~Holds(j)'
  <2>1. ASSUME NEW i, i # j PROVE Holds(i)' <=> Holds(i)
    BY <1>6, <2>1 DEF Holds
  <2>2. \A h \in Busy \ {g} : pool[h].job # j
    BY <1>0 DEF Held
  <2>3. \A h \in Busy' : h \in Busy \ {g} /\ pool'[h] = pool[h]
    BY <1>6
  <2> QED
    BY <2>1, <2>2, <2>3 DEF Holds
<1>9. \A e : Blocks(e)' <=> Blocks(e)
  BY <1>2 DEF Blocks, command
<1>10. found[j] # "nothing"
  BY <1>0 DEF Held
<1>11. Counted'
  <2>1. ASSUME NEW i \in 1 .. fed, ~Holds(i)'
        PROVE  found[i] # "nothing" /\ (Blocks(found[i]) => blocked')
    <3>1. CASE i = j
      BY <1>2, <1>10, <3>1
    <3>2. CASE i # j
      <4>1. ~Holds(i)
        BY <1>8, <2>1, <3>2
      <4> QED
        BY <1>0, <1>2, <4>1 DEF Counted
    <3> QED
      BY <3>1, <3>2
  <2>2. ASSUME blocked' PROVE \E i \in 1 .. fed : ~Holds(i)' /\ Blocks(found[i])
    <3>1. CASE Blocks(found[j])
      BY <1>1, <1>8, <3>1
    <3>2. CASE ~Blocks(found[j])
      <4>1. PICK i \in 1 .. fed : ~Holds(i) /\ Blocks(found[i])
        <5>1. blocked
          BY <1>2, <2>2, <3>2
        <5> QED
          BY <1>0, <5>1 DEF Counted
      <4>2. i # j
        BY <3>2, <4>1
      <4> QED
        BY <1>8, <4>1, <4>2
    <3> QED
      BY <3>1, <3>2
  <2> QED
    BY <1>2, <1>9, <2>1, <2>2 DEF Counted
<1>12. Feeding' /\ Closed'
  BY <1>2, <1>4, Parts, GateAssumption DEF Feeding, Closed, Goroutine
<1>13. Fresh' /\ Settled'
  BY <1>2, Parts DEF Fresh, Settled, LetLoose
<1> QED
  BY <1>0, <1>2, <1>3, <1>5, <1>6, <1>7, <1>11, <1>12, <1>13 DEF IInv, Shape

LEMMA StepIInv == IInv /\ [Next]_vars => IInv'
BY ByPass, Beginning, Handing, Analysing, Ending, Collecting, Deciding, Outside
   DEF Next, Start, Pool, Done

LEMMA InductiveInvariant == Spec => []IInv
BY InitIInv, StepIInv, PTL DEF Spec

-----------------------------------------------------------------------------
(* The properties *)

\* Types, for every number of specs and goroutines.
THEOREM TypeCorrect == Spec => []TypeOK
<1>1. IInv => TypeOK
  BY Parts
<1> QED
  BY <1>1, InductiveInvariant, PTL

\* Once out is closed, every job was fed and counted and is with nobody.
LEMMA NothingInFlight ==
  ASSUME IInv, outClosed
  PROVE  fed = Len(specs) /\ Busy = {} /\ \A j \in 1 .. fed : ~Holds(j)
<1>1. AllDone /\ 1 \in Goroutine
  BY Parts, GateAssumption DEF Closed, Goroutine
<1> QED
  BY <1>1, Parts DEF Feeding, AllDone, Busy, Holds

\* "Fail-closed": the package manager runs on an install only when every job
\* was analysed and lies below the threshold, or the operator overrode that.
THEOREM GateFailsClosed == Spec => []FailClosed
<1>1. ASSUME IInv PROVE FailClosed
  <2>1. SUFFICES ASSUME LetLoose, "forced" \notin excuses, NEW j \in Job PROVE Below(found[j])
    BY DEF FailClosed
  <2>2. specs # <<>> /\ j \in 1 .. Len(specs)
    BY <2>1, <1>1, Parts DEF Job, TypeOK
  <2>3. outClosed /\ ~blocked
    BY <2>1, <2>2, <1>1, Parts DEF Settled, LetLoose
  <2>4. j \in 1 .. fed /\ ~Holds(j)
    BY <2>2, <2>3, <1>1, NothingInFlight
  <2>5. found[j] # "nothing" /\ ~Blocks(found[j])
    BY <2>3, <2>4, <1>1, Parts DEF Counted
  <2>6. found[j] \in Level \cup {"error"}
    BY <2>1, <2>5, <1>1, Parts DEF TypeOK
  <2> QED
    BY <2>5, <2>6, BelowOrBlocks
<1> QED
  BY <1>1, InductiveInvariant, PTL

\* An install that was scanned is refused only for a result that blocks.
THEOREM RefusalsAreJustified == Spec => []RefusalHasReason
<1>1. ASSUME IInv PROVE RefusalHasReason
  <2>1. SUFFICES ASSUME pc = "refused", specs # <<>> PROVE \E j \in Job : ~Below(found[j])
    BY DEF RefusalHasReason
  <2>2. blocked
    BY <2>1, <1>1, Parts DEF Settled
  <2>3. PICK j \in 1 .. fed : ~Holds(j) /\ Blocks(found[j])
    BY <2>2, <1>1, Parts DEF Counted
  <2>4. j \in Job /\ found[j] # "nothing"
    BY <2>3, <1>1, Parts, Lengths, SMTT(20) DEF Counted, Job, TypeOK
  <2>5. found[j] \in Level \cup {"error"}
    BY <2>4, <1>1, Parts DEF TypeOK
  <2> QED
    BY <2>3, <2>4, <2>5, BelowOrBlocks
<1> QED
  BY <1>1, InductiveInvariant, PTL

-----------------------------------------------------------------------------
(* Every result is counted once: the jobs that were fed are counted or busy. *)

Balance == Total + Cardinality(Busy) = fed

LEMMA BusyFinite == IsFiniteSet(Busy) /\ Cardinality(Busy) \in Nat
<1>1. IsFiniteSet(Goroutine)
  BY GateAssumption, FS_Interval DEF Goroutine
<1> QED
  BY <1>1, FS_Subset, FS_CardinalityType DEF Busy

LEMMA TotalType == ASSUME TypeOK PROVE Total \in Nat
<1>1. tally \in [pass: Nat, susp: Nat, mal: Nat, errs: Nat]
  BY DEF TypeOK
<1> QED
  BY <1>1 DEF Total

LEMMA InitBalance == Init => Balance
<1> SUFFICES ASSUME Init PROVE Balance
  OBVIOUS
<1>1. Busy = {} /\ Total = 0 /\ fed = 0
  BY DEF Init, Busy, Total, Zero
<1> QED
  BY <1>1, FS_EmptySet DEF Balance

LEMMA StepBalance ==
  ASSUME IInv, Balance, [Next]_vars
  PROVE  Balance'
<1>0. TypeOK /\ Total \in Nat /\ fed \in Nat /\ Cardinality(Busy) \in Nat
  BY Parts, Lengths, TotalType, BusyFinite
<1>1. CASE PassThrough \/ NoPackageJson \/ BadPackageJson \/ RefuseRemote \/ Decide
           \/ Install \/ InstallFails \/ (\E p \in Package : Publish(p)) \/ UNCHANGED vars
  <2>1. UNCHANGED <<scan, count>>
    BY <1>1 DEF PassThrough, NoPackageJson, BadPackageJson, RefuseRemote, Decide, AllClear, Override, Ask,
                Refuse, Confirm, Install, InstallFails, Publish, vars
  <2>2. Busy' = Busy /\ Total' = Total /\ fed' = fed
    BY <2>1 DEF Busy, Total, scan, count
  <2> QED
    BY <2>2 DEF Balance
<1>2. CASE ScanDeclared \/ ScanNamed \/ SkipRemote
  <2>1. pc = "start" /\ tally' = tally /\ fed' = fed
    BY <1>2 DEF ScanDeclared, ScanNamed, SkipRemote, Gated, Begin, count
  <2>2. Busy = {} /\ fed = 0
    BY <2>1, Parts DEF Fresh, AllDone, Busy
  <2>3. Total' = 0
    BY <1>0, <2>1, <2>2, FS_EmptySet DEF Balance, Total
  <2>4. IInv' /\ pool' \in [Goroutine -> {[at |-> "receive", job |-> 0]} \cup {pool[g] : g \in Goroutine}]
    BY <1>2, Beginning DEF ScanDeclared, ScanNamed, SkipRemote, Begin
  <2>5. Busy' = {}
    BY <2>2, <2>4 DEF Busy
  <2> QED
    BY <2>1, <2>2, <2>3, <2>5, FS_EmptySet DEF Balance
<1>3. ASSUME NEW g \in Goroutine, Hand(g) PROVE Balance'
  <2>1. g \notin Busy /\ Busy' = Busy \cup {g} /\ Total' = Total /\ fed' = fed + 1
    BY <1>0, <1>3 DEF Hand, Busy, Total, TypeOK, count
  <2>2. Cardinality(Busy \cup {g}) = Cardinality(Busy) + 1
    BY <2>1, BusyFinite, FS_AddElement
  <2> QED
    BY <1>0, <2>1, <2>2 DEF Balance
<1>4. ASSUME NEW g \in Goroutine, Analyse(g) \/ Finish(g) PROVE Balance'
  <2>1. /\ \/ pool[g].at = "run" /\ pool' = [pool EXCEPT ![g].at = "send"]
           \/ pool[g].at = "receive" /\ pool' = [pool EXCEPT ![g].at = "done"]
        /\ UNCHANGED <<fed, count>>
    BY <1>4 DEF Analyse, Finish
  <2>2. Busy' = Busy
    BY <1>0, <2>1 DEF Busy, TypeOK
  <2> QED
    BY <2>1, <2>2 DEF Balance, Total, count
<1>5. ASSUME NEW g \in Goroutine, Collect(g) PROVE Balance'
  <2>1. Busy' = Busy \ {g} /\ g \in Busy /\ fed' = fed /\ Total' = Total + 1
    BY <1>5, Collecting
  <2>2. Cardinality(Busy \ {g}) = Cardinality(Busy) - 1
    BY <2>1, BusyFinite, FS_RemoveElement
  <2> QED
    BY <1>0, <2>1, <2>2 DEF Balance
<1>6. CASE CloseOut
  BY <1>6 DEF CloseOut, Balance, Busy, Total, count
<1> QED
  BY <1>1, <1>2, <1>3, <1>4, <1>5, <1>6 DEF Next, Start, Pool, Done

\* When out is closed every spec was counted exactly once, and no goroutine is
\* left that could send on the closed channel.
THEOREM ResultsAreCounted == Spec => []EveryResultCounted
<1>1. ASSUME IInv, Balance PROVE EveryResultCounted
  <2>1. SUFFICES ASSUME outClosed
                 PROVE  Total = Len(specs) /\ \A g \in Goroutine : pool[g].at # "send"
    BY DEF EveryResultCounted
  <2>2. fed = Len(specs) /\ Busy = {}
    BY <1>1, <2>1, NothingInFlight
  <2>3. Total \in Nat
    BY <1>1, Parts, TotalType
  <2>4. Total = fed
    BY <1>1, <2>2, <2>3, FS_EmptySet DEF Balance
  <2>5. \A g \in Goroutine : pool[g].at # "send"
    BY <2>2 DEF Busy
  <2> QED
    BY <2>2, <2>4, <2>5
<1> QED
  BY <1>1, InitBalance, StepBalance, InductiveInvariant, PTL DEF Spec

-----------------------------------------------------------------------------
(* What is to be installed is what is scanned. *)

Covered ==
  pc \notin {"start", "refused"} /\ excuses \cap {"not an install", "no package.json"} = {} =>
    \A p \in Requested : p \in SetOf(specs) \/ (~Local(p) /\ "allowed" \in excuses)

LEMMA StepCovered ==
  ASSUME IInv, Covered, [Next]_vars
  PROVE  Covered'
<1>1. CASE PassThrough \/ NoPackageJson \/ BadPackageJson \/ RefuseRemote
  BY <1>1 DEF PassThrough, NoPackageJson, BadPackageJson, RefuseRemote, Covered, Goto, Excuse
<1>2. CASE ScanDeclared
  BY <1>2 DEF ScanDeclared, Begin, Covered, Requested, Declared, SetOf, command
<1>3. CASE ScanNamed
  BY <1>3 DEF ScanNamed, Begin, Covered, Requested, Declared, SetOf, command
<1>4. CASE SkipRemote
  <2>1. PICK n \in 0 .. Len(named) : \E k \in [1 .. n -> DOMAIN named] :
          /\ SetOf(k) = {i \in DOMAIN named : Local(named[i])}
          /\ Begin([j \in 1 .. n |-> named[k[j]]])
    BY <1>4 DEF SkipRemote
  <2>2. PICK k \in [1 .. n -> DOMAIN named] :
          /\ SetOf(k) = {i \in DOMAIN named : Local(named[i])}
          /\ Begin([j \in 1 .. n |-> named[k[j]]])
    BY <2>1
  <2>3. specs' = [j \in 1 .. n |-> named[k[j]]] /\ UNCHANGED command /\ "allowed" \in excuses'
    BY <1>4, <2>2 DEF Begin, SkipRemote, Excuse
  <2>4. ASSUME NEW i \in DOMAIN named, Local(named[i]) PROVE named[i] \in SetOf(specs)'
    <3>1. i \in SetOf(k)
      BY <2>2, <2>4
    <3>2. PICK j \in 1 .. n : k[j] = i
      BY <3>1 DEF SetOf
    <3>3. j \in DOMAIN specs' /\ specs'[j] = named[i]
      BY <2>3, <3>2
    <3> QED
      BY <3>3 DEF SetOf
  <2>5. Requested' = SetOf(named)
    BY <1>4, <2>3 DEF SkipRemote, Requested, Declared, command
  <2>6. \A p \in SetOf(named) : Local(p) => p \in SetOf(specs)'
    BY <2>4 DEF SetOf
  <2> QED
    BY <2>3, <2>5, <2>6 DEF Covered, Local
<1>5. CASE Pool \/ Decide \/ Install \/ InstallFails \/ (\E p \in Package : Publish(p)) \/ UNCHANGED vars
  <2>1. UNCHANGED <<command, specs>> /\ excuses \subseteq excuses'
    BY <1>5 DEF Pool, Hand, Analyse, Finish, Collect, CloseOut, Decide, AllClear, Override, Ask, Refuse, Confirm,
                Install, InstallFails, Publish, Excuse, vars, scan
  <2>2. pc' \in {"start", "refused"} \/ pc \notin {"start", "refused"}
    <3>1. CASE pc = "start"
      BY <1>5, <3>1, Parts DEF Pool, Hand, Analyse, Finish, Collect, CloseOut, Decide, AllClear, Override, Ask,
              Refuse, Confirm, Install, InstallFails, Publish, vars
    <3>2. CASE pc = "refused"
      BY <1>5, <3>2 DEF Pool, Hand, Analyse, Finish, Collect, CloseOut, Decide, AllClear, Override, Ask,
              Refuse, Confirm, Install, InstallFails, Publish, vars
    <3> QED
      BY <3>1, <3>2
  <2> QED
    BY <2>1, <2>2 DEF Covered, Requested, Declared, SetOf, command
<1> QED
  BY <1>1, <1>2, <1>3, <1>4, <1>5 DEF Next, Start, Done

\* Every spec of an install is scanned, unless there is nothing to gate or it is
\* a git or URL spec that was let through.
THEOREM InstallsAreScanned == Spec => []RequestedIsScanned
<1>1. Init => Covered
  BY DEF Init, Covered
<1>2. Covered => RequestedIsScanned
  BY DEF Covered, RequestedIsScanned, LetLoose
<1> QED
  BY <1>1, <1>2, StepCovered, InductiveInvariant, PTL DEF Spec

(* The gate lets an install pass only if every job is below the threshold or *)
(* it was forced, and refuses one only if some job is not.                   *)
THEOREM DecisionsAreJustified == Spec => []DecisionIsJustified
<1>1. FailClosed /\ RefusalHasReason => DecisionIsJustified
  BY DEF DecisionIsJustified
<1> QED
  BY <1>1, GateFailsClosed, RefusalsAreJustified, PTL

(* Everything requested is among the jobs, and each is counted once.         *)
THEOREM ScansAreComplete == Spec => []ScanIsComplete
<1>1. RequestedIsScanned /\ EveryResultCounted => ScanIsComplete
  BY DEF ScanIsComplete
<1> QED
  BY <1>1, InstallsAreScanned, ResultsAreCounted, PTL

-----------------------------------------------------------------------------
(* What lands was scanned. *)

\* The analysis of a job has seen a version the registry had by now.
Seen(p) == \E w \in seen : w[1] = p /\ w[2] <= latest[p]

Witnessed ==
    \A j \in Job : found[j] \in Level /\ specs[j] \notin Remote \cup Divergent => Seen(specs[j])

\* What was seen stays seen, and the registry only publishes later versions.
LEMMA SeenStays ==
  ASSUME TypeOK, TypeOK', seen \subseteq seen', NEW p \in Package,
         latest'[p] = latest[p] \/ latest'[p] = latest[p] + 1, Seen(p)
  PROVE  Seen(p)'
<1>1. PICK w \in seen : w[1] = p /\ w[2] <= latest[p]
  BY DEF Seen
<1>2. w[2] \in Nat /\ latest[p] \in Nat /\ latest'[p] \in Nat
  BY <1>1 DEF TypeOK
<1>3. w \in seen' /\ w[2] <= latest'[p]
  BY <1>1, <1>2
<1> QED
  BY <1>1, <1>3 DEF Seen

LEMMA StepWitnessed ==
  ASSUME IInv, IInv', Witnessed, [Next]_vars
  PROVE  Witnessed'
<1>0. TypeOK /\ TypeOK' /\ "nothing" \notin Level /\ "error" \notin Level
  BY Parts DEF Level, IInv, Shape
<1>1. ASSUME UNCHANGED <<specs, found>>, seen \subseteq seen',
             \A p \in Package : latest'[p] = latest[p] \/ latest'[p] = latest[p] + 1
      PROVE  Witnessed'
  <2>1. SUFFICES ASSUME NEW j \in Job, found[j] \in Level, specs[j] \notin Remote \cup Divergent
                 PROVE  Seen(specs[j])'
    BY <1>1 DEF Witnessed, Job, Seen
  <2>2. PICK p \in Package : p = specs[j]
    BY <1>0 DEF TypeOK, Job
  <2>3. Seen(p)
    BY <2>1, <2>2 DEF Witnessed
  <2>4. Seen(p)'
    BY <1>0, <1>1, <2>3, SeenStays
  <2> QED
    BY <1>1, <2>2, <2>4 DEF Seen
<1>2. ASSUME NEW list, Begin(list) PROVE Witnessed'
  BY <1>0, <1>2 DEF Begin, Witnessed, Job
<1>3. ASSUME NEW g \in Goroutine, Analyse(g) PROVE Witnessed'
  <2> DEFINE j == pool[g].job
  <2>1. j \in Job
    <3>1. g \in Busy
      BY <1>3 DEF Analyse, Busy
    <3> QED
      BY <1>0, <3>1, Parts, Lengths, SMTT(20) DEF Held, Job, TypeOK
  <2>2. UNCHANGED <<specs, latest>> /\ Job' = Job
    BY <1>3 DEF Analyse, Job
  <2>3. \/ found' = [found EXCEPT ![j] = "error"] /\ seen' = seen
        \/ /\ \E level \in Level : found' = [found EXCEPT ![j] = level]
           /\ \E versions \in Scanned(specs[j]) : seen' = seen \cup versions
    BY <1>3 DEF Analyse
  <2>4. SUFFICES ASSUME NEW i \in Job, found'[i] \in Level, specs[i] \notin Remote \cup Divergent
                 PROVE  Seen(specs[i])'
    BY <2>2 DEF Witnessed, Seen
  <2>5. PICK p \in Package : p = specs[i]
    BY <1>0, SMTT(20) DEF TypeOK, Job
  <2>6. CASE i # j
    <3>1. found'[i] = found[i]
      BY <1>0, <2>3, <2>6 DEF TypeOK
    <3>2. Seen(p)
      BY <2>4, <2>5, <3>1 DEF Witnessed
    <3>3. Seen(p)'
      BY <1>0, <2>2, <2>3, <3>2, SeenStays
    <3> QED
      BY <2>2, <2>5, <3>3 DEF Seen
  <2>7. CASE i = j
    <3>1. PICK versions \in Scanned(specs[j]) : seen' = seen \cup versions
      BY <1>0, <2>3, <2>4, <2>7 DEF TypeOK
    <3>2. <<p, latest[p]>> \in seen'
      BY <1>0, <2>4, <2>5, <2>7, <3>1, ScannedIs
    <3>3. latest[p] \in Nat
      BY <1>0 DEF TypeOK
    <3> QED
      BY <2>2, <2>5, <3>2, <3>3 DEF Seen
  <2> QED
    BY <2>6, <2>7
<1>4. CASE \E p \in Package : Publish(p)
  <2>1. UNCHANGED <<specs, found, seen>>
    BY <1>4 DEF Publish, scan
  <2>2. \A p \in Package : latest'[p] = latest[p] \/ latest'[p] = latest[p] + 1
    BY <1>0, <1>4 DEF Publish, TypeOK
  <2> QED
    BY <1>1, <2>1, <2>2
<1>5. CASE \/ PassThrough \/ NoPackageJson \/ BadPackageJson \/ RefuseRemote
           \/ (\E g \in Goroutine : Hand(g) \/ Finish(g) \/ Collect(g)) \/ CloseOut
           \/ Decide \/ Install \/ InstallFails \/ UNCHANGED vars
  <2>1. UNCHANGED <<specs, found, seen, latest>>
    BY <1>5 DEF PassThrough, NoPackageJson, BadPackageJson, RefuseRemote, Hand, Finish, Collect, CloseOut,
                Decide, AllClear, Override, Ask, Refuse, Confirm, Install, InstallFails, vars, scan, world
  <2> QED
    BY <1>1, <2>1
<1>6. CASE ScanDeclared \/ ScanNamed \/ SkipRemote
  BY <1>2, <1>6 DEF ScanDeclared, ScanNamed, SkipRemote
<1> QED
  BY <1>3, <1>4, <1>5, <1>6 DEF Next, Start, Pool, Done

\* The package manager is let loose on what the analyses have seen.
LEMMA InstallLands ==
  ASSUME IInv, FailClosed, RequestedIsScanned, Witnessed, Install, "forced" \notin excuses,
         NEW v \in landed', v[1] \in Requested \ (Remote \cup Divergent)
  PROVE  Seen(v[1]) /\ (v[2] = latest[v[1]] \/ v[1] \in Locked)
<1>1. excuses \cap {"not an install", "no package.json"} = {} /\ LetLoose
  BY DEF Install, LetLoose
<1>2. PICK version \in [Closure(Requested) -> 0 .. MaxVersion] :
          /\ \A p \in Closure(Requested) : version[p] \in Resolved(p)
          /\ landed' = {<<p, version[p]>> : p \in Closure(Requested)}
  BY <1>1 DEF Install
<1>3. PICK p \in Closure(Requested) : v = <<p, version[p]>>
  BY <1>2
<1>4. p \in SetOf(specs) /\ p \notin Remote \cup Divergent
  BY <1>1, <1>3 DEF RequestedIsScanned, Local
<1>5. PICK j \in Job : specs[j] = p
  BY <1>4 DEF SetOf, Job
<1>6. found[j] \in Level
  BY <1>1, <1>5 DEF FailClosed, Below
<1>7. Seen(p)
  BY <1>4, <1>5, <1>6 DEF Witnessed
<1>8. version[p] = latest[p] \/ p \in Locked
  BY <1>2 DEF Resolved
<1> QED
  BY <1>3, <1>7, <1>8

LEMMA StepLanded ==
  ASSUME IInv, FailClosed, RequestedIsScanned, Witnessed, LandedWasScanned, [Next]_vars
  PROVE  LandedWasScanned'
<1>1. CASE Install
  <2>1. SUFFICES ASSUME "forced" \notin excuses, NEW v \in landed',
                        v[1] \in Requested \ (Remote \cup Divergent)
                 PROVE  \E w \in seen : w[1] = v[1] /\ (w[2] <= v[2] \/ v[1] \in Locked)
    BY <1>1 DEF LandedWasScanned, Install, Requested, Declared, command
  <2>2. Seen(v[1]) /\ (v[2] = latest[v[1]] \/ v[1] \in Locked)
    BY <1>1, <2>1, InstallLands
  <2> QED
    BY <2>2 DEF Seen
<1>2. ASSUME UNCHANGED <<landed, named, verb>>, seen \subseteq seen', excuses \subseteq excuses'
      PROVE  LandedWasScanned'
  <2>1. Requested' = Requested
    BY <1>2 DEF Requested, Declared
  <2> QED
    BY <1>2, <2>1 DEF LandedWasScanned
<1>3. ASSUME NEW list, Begin(list) PROVE UNCHANGED <<landed, named, verb, seen>>
  BY <1>3 DEF Begin, command, world
<1>4. CASE ScanDeclared \/ ScanNamed \/ SkipRemote
  <2>1. UNCHANGED <<landed, named, verb, seen>>
    BY <1>3, <1>4 DEF ScanDeclared, ScanNamed, SkipRemote
  <2> QED
    BY <1>2, <1>4, <2>1 DEF ScanDeclared, ScanNamed, SkipRemote, Excuse
<1>5. CASE \/ PassThrough \/ NoPackageJson \/ BadPackageJson \/ RefuseRemote \/ Pool \/ Decide
           \/ InstallFails \/ (\E p \in Package : Publish(p)) \/ UNCHANGED vars
  BY <1>2, <1>5 DEF PassThrough, NoPackageJson, BadPackageJson, RefuseRemote, Pool, Hand, Analyse, Finish,
                    Collect, CloseOut, Decide, AllClear, Override, Ask, Refuse, Confirm, InstallFails,
                    Publish, Excuse, vars, command, world
<1> QED
  BY <1>1, <1>4, <1>5 DEF Next, Start, Done

\* LandedWasScanned: unless the operator forced it, every package asked for that
\* lands was analysed, in that version or one superseded since, if no lockfile pins
\* it (execPM after gateScan); specs that SCBoX resolves otherwise are excepted.
THEOREM LandedAreScanned == Spec => []LandedWasScanned
<1>1. Init => Witnessed /\ LandedWasScanned
  BY DEF Init, Witnessed, LandedWasScanned, Job
<1> QED
  BY <1>1, StepWitnessed, StepLanded, InductiveInvariant, GateFailsClosed, InstallsAreScanned, PTL DEF Spec

=============================================================================
