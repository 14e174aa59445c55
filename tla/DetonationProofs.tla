--------------------------- MODULE DetonationProofs ---------------------------
(* Proofs about Detonation, for every package, plan, number of timers and    *)
(* exit handlers and every depth of nesting.  What is filed where rests on   *)
(* the ambient state fitting the code that runs (Fits), at every depth at    *)
(* which it is saved: a step leaves the stack of code alone, pushes a piece  *)
(* of code whose ambient state fits, or pops one and restores.               *)
EXTENDS Detonation, TLAPS, SequenceTheorems

-----------------------------------------------------------------------------
(* Sequences                                                                 *)

\* Removing an element leaves elements that were there.
LEMMA Removing ==
  ASSUME NEW S, NEW s \in Seq(S), NEW i \in 1 .. Len(s)
  PROVE  RemoveAt(s, i) \in Seq(S) /\ Len(RemoveAt(s, i)) = Len(s) - 1
<1>0. /\ Len(s) \in Int /\ i - 1 \in Int /\ i + 1 \in Int /\ 1 \in Int
      /\ \A k \in 1 .. i - 1 : s[k] \in S
      /\ \A k \in i + 1 .. Len(s) : s[k] \in S
  OBVIOUS
<1>1. /\ SubSeq(s, 1, i - 1) \in Seq(S)
      /\ Len(SubSeq(s, 1, i - 1)) = IF 1 <= i - 1 THEN i - 1 - 1 + 1 ELSE 0
  BY <1>0, SubSeqProperties
<1>2. /\ SubSeq(s, i + 1, Len(s)) \in Seq(S)
      /\ Len(SubSeq(s, i + 1, Len(s))) = IF i + 1 <= Len(s) THEN Len(s) - (i + 1) + 1 ELSE 0
  BY <1>0, SubSeqProperties
<1>3. RemoveAt(s, i) = SubSeq(s, 1, i - 1) \o SubSeq(s, i + 1, Len(s))
  BY DEF RemoveAt
<1>4. PICK left \in Seq(S), right \in Seq(S) :
         left = SubSeq(s, 1, i - 1) /\ right = SubSeq(s, i + 1, Len(s))
  BY <1>1, <1>2
<1>5. left \o right \in Seq(S) /\ Len(left \o right) = Len(left) + Len(right)
  BY ConcatProperties
<1>6. Len(left) = i - 1 /\ Len(right) = Len(s) - i
  BY <1>0, <1>1, <1>2, <1>4
<1>7. Len(left) + Len(right) = Len(s) - 1
  BY <1>0, <1>6
<1> QED
  BY <1>3, <1>4, <1>5, <1>7

\* What Front keeps.
LEMMA FrontFacts ==
  ASSUME NEW S, NEW s \in Seq(S), s # <<>>
  PROVE  /\ Len(s) \in Nat \ {0} /\ s[Len(s)] \in S
         /\ Front(s) \in Seq(S) /\ Len(Front(s)) = Len(s) - 1
         /\ \A i \in 1 .. Len(s) - 1 : Front(s)[i] = s[i]
<1>1. Len(s) \in Nat \ {0} /\ s[Len(s)] \in S
  OBVIOUS
<1>2. Len(s) - 1 \in Int /\ 1 \in Int /\ \A k \in 1 .. Len(s) - 1 : s[k] \in S
  OBVIOUS
<1>0. Front(s) = SubSeq(s, 1, Len(s) - 1)
  BY DEF Front
<1>3. /\ Front(s) \in Seq(S)
      /\ Len(Front(s)) = IF 1 <= Len(s) - 1 THEN Len(s) - 1 - 1 + 1 ELSE 0
      /\ \A k \in 1 .. Len(s) - 1 - 1 + 1 : Front(s)[k] = s[1 + k - 1]
  BY <1>0, <1>2, SubSeqProperties
<1>4. \A k \in 1 .. Len(s) - 1 : Front(s)[k] = s[k]
  BY <1>1, <1>3
<1>5. Len(Front(s)) = Len(s) - 1
  <2>1. PICK n \in Nat \ {0} : n = Len(s)
    BY <1>1
  <2>2. Len(Front(s)) = IF 1 <= n - 1 THEN n - 1 - 1 + 1 ELSE 0
    BY <1>3, <2>1
  <2> QED
    BY <2>1, <2>2
<1> QED
  BY <1>1, <1>3, <1>4, <1>5

-----------------------------------------------------------------------------
(* Types                                                                     *)

LEMMA OwnersAreTyped == \A m : OwnerOf(m) \in Owners
  BY DEF OwnerOf, Owners

\* The plan consists of steps the host can take.
LEMMA PlansAreTyped == \A r \in Roles : Plan[r] \in Seq(Step)
<1>1. /\ Len(Deps) \in Nat /\ Len(Files) \in Nat /\ Len(DropperCatch) \in Nat
      /\ \A i \in 1 .. Len(Deps) : Deps[i] \in ToSet(Deps)
      /\ \A i \in 1 .. Len(Files) : Files[i] \in ToSet(Files)
      /\ \A i \in 1 .. Len(DropperCatch) : DropperCatch[i] \in ToSet(Files)
  BY PackageAssumption
<1>2. Scripts \in Seq(Step)
  <2>1. \A d \in Owners : Do("script", d) \in Step
    BY DEF Do, Step
  <2>2. [i \in 1 .. Len(Deps) |-> Do("script", Deps[i])] \in Seq(Step)
    BY <1>1, <2>1, IsASeq DEF Owners
  <2>3. <<Do("script", Root)>> \in Seq(Step)
    BY <2>1 DEF Owners
  <2> QED
    BY <2>2, <2>3, ConcatProperties DEF Scripts
<1>3. ASSUME NEW files \in Seq(ToSet(Files)), NEW op \in {"load", "reload"}
      PROVE  WithExports(op, files) \in Seq(Step)
  <2>1. \A m \in Module : Do(op, m) \in Step /\ Do("fuzz", m) \in Step
    BY DEF Do, Step
  <2>2. Len(files) \in Nat /\ 2 * Len(files) \in Nat
    OBVIOUS
  <2>3. ASSUME NEW i \in 1 .. 2 * Len(files)
        PROVE  Do(IF i % 2 = 1 THEN op ELSE "fuzz", files[(i + 1) \div 2]) \in Step
    <3>1. (i + 1) \div 2 \in 1 .. Len(files)
      BY <2>2
    <3>2. files[(i + 1) \div 2] \in Module
      BY <3>1 DEF Module
    <3> QED
      BY <2>1, <3>2
  <2> QED
    BY <2>2, <2>3, IsASeq DEF WithExports
<1>4. Sweep \in Seq(Step) /\ Resweep \in Seq(Step)
  BY <1>3, PackageAssumption DEF Sweep, Resweep
<1>5. Probes \in Seq(Step) /\ <<Do("import", Entry)>> \in Seq(Step)
  <2>1. \A m \in Module : Do("import", m) \in Step
    BY DEF Do, Step
  <2>2. Probes \in Seq(Step)
    BY <1>1, <2>1, IsASeq DEF Module, Probes
  <2>3. Entry \in Module
    BY PackageAssumption DEF Module
  <2> QED
    BY <2>1, <2>2, <2>3
<1>6. Start \in Seq(Step) /\ Explorer \in Seq(Step)
  BY <1>2, <1>4, <1>5, ConcatProperties, EmptySeq DEF Start, Explorer
<1>7. <<Do("drain", Root)>> \in Seq(Step) /\ Deferred \in Seq(Step)
  BY DEF Do, Step, Deferred
<1>8. Plan["alone"] \in Seq(Step) /\ Plan["main"] \in Seq(Step) /\ Plan["worker"] \in Seq(Step)
  BY <1>6, <1>7, ConcatProperties DEF Plan
<1> QED
  BY <1>8, LimitAssumption

\* A piece of code that starts is well-typed and on top.
LEMMA Running ==
  ASSUME TypeOK, NEW kind \in {"body", "export", "timer", "exit"}, NEW owner \in Owners,
         NEW provoked \in BOOLEAN, NEW afterExit \in BOOLEAN,
         Run(kind, owner, provoked, afterExit)
  PROVE  code' \in Seq(Frame)
<1>1. 0 \in 0 .. ActsPerFrame
  BY LimitAssumption
<1> DEFINE f == [kind |-> kind, owner |-> owner, provoked |-> provoked,
                 afterExit |-> afterExit, acts |-> 0,
                 scope |-> scope, muted |-> muted, quiet |-> quiet]
<1>2. f \in Frame
  BY <1>1 DEF TypeOK, Frame
<1>3. code \in Seq(Frame) /\ code' = Append(code, f)
  BY DEF TypeOK, Run
<1> HIDE DEF f
<1> QED
  BY <1>2, <1>3, AppendProperties

\* What a piece of code is, its count of acts apart.
Same(f, g) == /\ f.kind = g.kind /\ f.owner = g.owner
              /\ f.provoked = g.provoked /\ f.afterExit = g.afterExit
              /\ f.scope = g.scope /\ f.muted = g.muted /\ f.quiet = g.quiet

\* An act changes nothing else in the pieces of code there are.
LEMMA Charging ==
  ASSUME TypeOK, MayAct, Charge
  PROVE  /\ code' \in Seq(Frame) /\ Len(code) \in Nat \ {0} /\ Len(code') = Len(code)
         /\ \A i \in 1 .. Len(code) : Same(code'[i], code[i])
<1>1. code \in Seq(Frame) /\ Len(code) \in Nat \ {0} /\ Top \in Frame
  BY DEF TypeOK, MayAct, Top
<1>2. Top.acts + 1 \in 0 .. ActsPerFrame
  BY <1>1, LimitAssumption DEF MayAct, Frame
<1>3. [Top EXCEPT !.acts = Top.acts + 1] \in Frame
  BY <1>1, <1>2 DEF Frame
<1>4. code' = [code EXCEPT ![Len(code)] = [Top EXCEPT !.acts = Top.acts + 1]]
  BY <1>1 DEF Charge, Top
<1>5. PICK g \in Frame : g = [Top EXCEPT !.acts = Top.acts + 1]
  BY <1>3
<1>6. Same(g, Top)
  BY <1>1, <1>5 DEF Same, Frame
<1>7. code' = [code EXCEPT ![Len(code)] = g]
  BY <1>4, <1>5
<1>8. /\ code' \in Seq(Frame) /\ Len(code') = Len(code)
      /\ \A i \in 1 .. Len(code) : code'[i] = IF i = Len(code) THEN g ELSE code[i]
  BY <1>1, <1>7
<1> QED
  BY <1>1, <1>6, <1>8 DEF Same, Top

\* The step the host takes next.
LEMMA Planned ==
  ASSUME TypeOK, Hosting
  PROVE  Now \in Step /\ Tail(todo) \in Seq(Step)
<1>1. todo \in Seq(Step) /\ todo # <<>>
  BY DEF TypeOK, Hosting, Over
<1> QED
  BY <1>1, HeadTailProperties DEF Now

LEMMA TypesRemain ==
  /\ Init => TypeOK
  /\ TypeOK /\ [Next]_vars => TypeOK'
<1>1. ASSUME Init PROVE TypeOK
  <2>1. \A r \in Roles : Plan[r] \in Seq(Step)
    BY PlansAreTyped
  <2>2. MaxTimers \in Nat /\ MaxExits \in Nat /\ MaxPending \in Nat
    BY LimitAssumption
  <2>3. todo \in Seq(Step)
    BY <1>1, <2>1 DEF Init
  <2>4. ran \in 0 .. (MaxTimers + MaxExits)
    BY <1>1, <2>2 DEF Init
  <2>5. /\ code \in Seq(Frame) /\ pending \in Seq(Queued)
        /\ exits \in Seq([owner : Owners, provoked : BOOLEAN])
    BY <1>1, EmptySeq DEF Init
  <2>6. Len(pending) <= MaxPending
    BY <1>1, <2>2, EmptySeq DEF Init
  <2>7. scope \in Owners
    BY <1>1 DEF Init, Owners
  <2> QED
    BY <1>1, <2>3, <2>4, <2>5, <2>6, <2>7 DEF Init, TypeOK
<1>2. ASSUME TypeOK, [Next]_vars PROVE TypeOK'
  <2>0. /\ {MaxTimers, MaxExits, MaxPending} \subseteq Nat
        /\ \A m : OwnerOf(m) \in Owners
    BY LimitAssumption, OwnersAreTyped
  <2>1. ASSUME NEW kind, NEW sink, Behave(kind, sink) PROVE TypeOK'
    BY <1>2, <2>1, Charging DEF Behave, TypeOK, ambient, deferred
  <2>2. ASSUME NEW d \in Delays, QueueTimer(d) PROVE TypeOK'
    <3>1. code' \in Seq(Frame) /\ Top \in Frame
      BY <1>2, <2>2, Charging DEF QueueTimer, TypeOK, Top, MayAct
    <3>2. QueuedJob(d) \in Queued
      BY <1>2, <3>1 DEF QueuedJob, Job, Queued, Frame, TypeOK
    <3>3. pending' \in Seq(Queued) /\ Len(pending') <= MaxPending
      <4>1. CASE Full
        BY <1>2, <2>2, <4>1 DEF QueueTimer, TypeOK
      <4>2. CASE ~Full
        <5>1. pending' = Append(pending, QueuedJob(d)) /\ pending \in Seq(Queued)
          BY <1>2, <2>2, <4>2 DEF QueueTimer, TypeOK
        <5>2. pending' \in Seq(Queued) /\ Len(pending') = Len(pending) + 1
          BY <3>2, <5>1, AppendProperties
        <5> QED
          BY <2>0, <4>2, <5>1, <5>2 DEF Full
      <4> QED
        BY <4>1, <4>2
    <3> QED
      BY <1>2, <2>2, <3>1, <3>3 DEF QueueTimer, TypeOK, ambient
  <2>3. CASE OnExit
    <3>1. code' \in Seq(Frame) /\ Top \in Frame
      BY <1>2, <2>3, Charging DEF OnExit, TypeOK, Top, MayAct
    <3>2. exits' \in Seq([owner : Owners, provoked : BOOLEAN])
      BY <1>2, <2>3, <3>1 DEF OnExit, TypeOK, Frame
    <3> QED
      BY <1>2, <2>3, <3>1, <3>2 DEF OnExit, TypeOK, ambient
  <2>4. ASSUME NEW m \in Module, Require(m) PROVE TypeOK'
    <3>1. Top \in Frame
      BY <1>2, <2>4 DEF Require, TypeOK, Top, MayAct
    <3>2. code' \in Seq(Frame)
      BY <1>2, <2>0, <2>4, <3>1, Running DEF Require, Body, Frame
    <3> QED
      BY <1>2, <2>0, <2>4, <3>2 DEF Require, Body, TypeOK, deferred
  <2>5. CASE Returns
    <3>1. Top \in Frame /\ code' \in Seq(Frame)
      BY <1>2, <2>5, FrontFacts DEF Returns, TypeOK, Top
    <3> QED
      BY <1>2, <2>5, <3>1 DEF Returns, Restore, TypeOK, deferred, Frame
  <2>6. CASE Script
    <3>1. Now.on \in Owners /\ todo' \in Seq(Step)
      BY <1>2, <2>6, Planned DEF Script, Step, NextOp
    <3>2. code' \in Seq(Frame)
      BY <1>2, <2>6, <3>1, Running DEF Script
    <3> QED
      BY <1>2, <2>6, <3>1, <3>2 DEF Script, TypeOK, deferred
  <2>7. CASE Import
    <3>1. Now.on \in Module /\ todo' \in Seq(Step)
      BY <1>2, <2>7, Planned DEF Import, Step, NextOp
    <3>2. CASE Cached(Now.on)
      BY <1>2, <2>7, <3>1, <3>2 DEF Import, TypeOK, deferred
    <3>3. CASE ~Cached(Now.on)
      <4>1. Body(Now.on, FALSE, FALSE)
        BY <2>7, <3>3 DEF Import
      <4>2. code' \in Seq(Frame)
        BY <1>2, <2>0, <4>1, Running DEF Body
      <4> QED
        BY <1>2, <2>0, <2>7, <3>1, <4>1, <4>2 DEF Import, Body, TypeOK, deferred
    <3> QED
      BY <3>2, <3>3
  <2>8. CASE SweepLoad
    <3>1. Now.on \in Module /\ todo' \in Seq(Step)
      BY <1>2, <2>8, Planned DEF SweepLoad, Step, NextOp
    <3>2. code' \in Seq(Frame)
      BY <1>2, <2>0, <2>8, Running DEF SweepLoad, Body
    <3> QED
      BY <1>2, <2>0, <2>8, <3>1, <3>2 DEF SweepLoad, Body, TypeOK, deferred
  <2>9. CASE Fuzz
    <3>1. todo' \in Seq(Step)
      BY <1>2, <2>9, Planned DEF Fuzz, NextOp
    <3>2. code' \in Seq(Frame)
      BY <1>2, <2>0, <2>9, Running DEF Fuzz
    <3> QED
      BY <1>2, <2>9, <3>1, <3>2 DEF Fuzz, TypeOK, deferred
  <2>10. CASE DrainTimer
    <3>1. PICK i \in 1 .. Len(pending) :
             /\ pending' = RemoveAt(pending, i)
             /\ clock' = IF pending[i].delay > clock THEN pending[i].delay ELSE clock
             /\ muted' = pending[i].muted
             /\ quiet' = TRUE
             /\ Run("timer", pending[i].owner, pending[i].provoked, pending[i].afterExit)
      BY <2>10 DEF DrainTimer
    <3>2. pending \in Seq(Queued) /\ Len(pending) \in Nat /\ pending[i] \in Queued
      BY <1>2 DEF TypeOK
    <3>3. pending' \in Seq(Queued) /\ Len(pending') = Len(pending) - 1
      BY <3>1, <3>2, Removing
    <3>4. code' \in Seq(Frame)
      BY <1>2, <3>1, <3>2, Running DEF Queued
    <3>5. clock' \in Delays \cup {0} /\ muted' \in BOOLEAN
      BY <1>2, <3>1, <3>2 DEF TypeOK, Queued
    <3>6. ran' \in 0 .. (MaxTimers + MaxExits)
      BY <1>2, <2>0, <2>10 DEF DrainTimer, TypeOK
    <3> QED
      BY <1>2, <2>0, <2>10, <3>1, <3>2, <3>3, <3>4, <3>5, <3>6 DEF DrainTimer, TypeOK
  <2>11. CASE DrainEnds
    <3>1. todo' \in Seq(Step)
      BY <1>2, <2>11, Planned DEF DrainEnds, NextOp
    <3> QED
      BY <1>2, <2>0, <2>11, <3>1 DEF DrainEnds, TypeOK, ambient
  <2>12. CASE FireExit
    <3>1. exits \in Seq([owner : Owners, provoked : BOOLEAN]) /\ exits # <<>>
      BY <1>2, <2>12 DEF FireExit, ExitGoesOn, TypeOK
    <3>2. Head(exits) \in [owner : Owners, provoked : BOOLEAN]
          /\ Tail(exits) \in Seq([owner : Owners, provoked : BOOLEAN])
      BY <3>1, HeadTailProperties
    <3>3. code' \in Seq(Frame)
      BY <1>2, <2>12, <3>2, Running DEF FireExit
    <3>4. ran' \in 0 .. (MaxTimers + MaxExits)
      BY <1>2, <2>0, <2>12 DEF FireExit, ExitGoesOn, TypeOK
    <3> QED
      BY <1>2, <2>12, <3>2, <3>3, <3>4 DEF FireExit, TypeOK, ambient
  <2>13. CASE ExitEnds
    <3>1. todo' \in Seq(Step)
      BY <1>2, <2>13, Planned DEF ExitEnds, NextOp
    <3> QED
      BY <1>2, <2>0, <2>13, <3>1 DEF ExitEnds, TypeOK, ambient
  <2>14. CASE Skip
    <3>1. todo' \in Seq(Step)
      BY <1>2, <2>14, Planned DEF Skip, NextOp
    <3> QED
      BY <1>2, <2>0, <2>14, <3>1 DEF Skip, TypeOK, ambient, deferred
  <2>15. CASE Abort
    BY <1>2, <2>15 DEF Abort, TypeOK, ambient, deferred
  <2>16. CASE UNCHANGED vars
    BY <1>2, <2>16 DEF vars, TypeOK, ambient, deferred
  <2> QED
    BY <1>2, <2>1, <2>2, <2>3, <2>4, <2>5, <2>6, <2>7, <2>8, <2>9, <2>10, <2>11, <2>12,
       <2>13, <2>14, <2>15, <2>16 DEF Next, CodeStep, HostStep, Record, Delete, Decoded, Done
<1> QED
  BY <1>1, <1>2

\* TypeOK: the plan, the code in progress, the deferred work and the ambient
\* state are well-formed, the limits of the queue and of a drain are kept.
THEOREM TypeCorrect == Spec => []TypeOK
  BY TypesRemain, PTL DEF Spec

-----------------------------------------------------------------------------
(* The ambient state fits the code                                           *)

\* Scope s, muted m and quiet q are what the first n pieces of c should run
\* under: the scope is that of the innermost module, only what the sweep
\* provoked is muted and, exit handlers apart, all of it is, and quiet is the
\* sweep's or a timer's.
Fits(c, n, s, m, q) ==
    /\ InnerScope(c, n, s)
    /\ n = 0 => ~m /\ ~q
    /\ n > 0 => /\ m => c[n].provoked
                /\ c[n].provoked /\ ~c[n].afterExit => m
                /\ q => c[n].provoked \/ \E k \in 1 .. n : c[k].kind = "timer"

\* The ambient state fits the running code, and what each piece of code will
\* restore fits the code below it.
Saved == /\ Fits(code, Len(code), scope, muted, quiet)
         /\ \A i \in 1 .. Len(code) :
               Fits(code, i - 1, code[i].scope, code[i].muted, code[i].quiet)

\* A queued callback remembers the muting it was scheduled under.
Fitting == {j \in Queued : /\ j.muted => j.provoked
                           /\ j.provoked /\ ~j.afterExit => j.muted}
JobsFit == pending \in Seq(Fitting)

\* What fits the first pieces of code depends on them alone.
LEMMA FitsStays ==
  ASSUME NEW c, NEW d, NEW n \in Nat, \A k \in 1 .. n : Same(d[k], c[k]),
         NEW s, NEW m \in BOOLEAN, NEW q \in BOOLEAN, Fits(c, n, s, m, q)
  PROVE  Fits(d, n, s, m, q)
<1>1. \A k \in 1 .. n : /\ d[k].kind = c[k].kind /\ d[k].owner = c[k].owner
                        /\ d[k].provoked = c[k].provoked /\ d[k].afterExit = c[k].afterExit
  BY DEF Same
<1>2. InnerScope(d, n, s)
  <2>1. CASE s = Root /\ \A k \in 1 .. n : c[k].kind # "body"
    BY <1>1, <2>1 DEF InnerScope
  <2>2. ASSUME NEW k \in 1 .. n, c[k].kind = "body", c[k].owner = s,
               \A j \in k + 1 .. n : c[j].kind # "body"
        PROVE  InnerScope(d, n, s)
    <3>1. \A j \in k + 1 .. n : d[j].kind # "body"
      BY <1>1, <2>2
    <3> QED
      BY <1>1, <2>2, <3>1 DEF InnerScope
  <2> QED
    BY <2>1, <2>2 DEF Fits, InnerScope
<1>3. n > 0 => n \in 1 .. n
  OBVIOUS
<1> QED
  BY <1>1, <1>2, <1>3 DEF Fits

\* A piece of code on top runs under its own scope if it is a module or script,
\* and otherwise under that of the code below it.
LEMMA InnerScopeOfTop ==
  ASSUME NEW c, NEW n \in Nat \ {0}, NEW s
  PROVE  /\ c[n].kind = "body" => (InnerScope(c, n, s) <=> s = c[n].owner)
         /\ c[n].kind # "body" => (InnerScope(c, n - 1, s) => InnerScope(c, n, s))
<1>1. ASSUME c[n].kind = "body", InnerScope(c, n, s) PROVE s = c[n].owner
  <2>1. PICK k \in 1 .. n : /\ c[k].kind = "body" /\ c[k].owner = s
                            /\ \A j \in k + 1 .. n : c[j].kind # "body"
    BY <1>1 DEF InnerScope
  <2>2. k = n
    BY <1>1, <2>1
  <2> QED
    BY <2>1, <2>2
<1>2. ASSUME c[n].kind = "body", s = c[n].owner PROVE InnerScope(c, n, s)
  <2>1. n \in 1 .. n /\ \A j \in n + 1 .. n : c[j].kind # "body"
    OBVIOUS
  <2> QED
    BY <1>2, <2>1 DEF InnerScope
<1>3. ASSUME c[n].kind # "body", InnerScope(c, n - 1, s) PROVE InnerScope(c, n, s)
  <2>0. \A j \in 1 .. n : j \in 1 .. n - 1 \/ j = n
    OBVIOUS
  <2>1. CASE s = Root /\ \A k \in 1 .. n - 1 : c[k].kind # "body"
    BY <1>3, <2>0, <2>1 DEF InnerScope
  <2>2. ASSUME NEW k \in 1 .. n - 1, c[k].kind = "body", c[k].owner = s,
               \A j \in k + 1 .. n - 1 : c[j].kind # "body"
        PROVE  InnerScope(c, n, s)
    <3>1. k \in 1 .. n /\ \A j \in k + 1 .. n : c[j].kind # "body"
      BY <1>3, <2>2
    <3> QED
      BY <2>2, <3>1 DEF InnerScope
  <2> QED
    BY <1>3, <2>1, <2>2 DEF InnerScope
<1> QED
  BY <1>1, <1>2, <1>3

\* What every piece of code saved still fits after a step that keeps the first
\* n pieces, acts apart.
LEMMA SavedBelow ==
  ASSUME TypeOK, Saved, NEW n \in 0 .. Len(code),
         \A k \in 1 .. n : Same(code'[k], code[k]), NEW i \in 1 .. n
  PROVE  Fits(code', i - 1, code'[i].scope, code'[i].muted, code'[i].quiet)
<1>1. Len(code) \in Nat /\ code[i] \in Frame /\ i \in 1 .. Len(code) /\ i - 1 \in Nat
  BY DEF TypeOK
<1>2. Fits(code, i - 1, code[i].scope, code[i].muted, code[i].quiet)
  BY <1>1 DEF Saved
<1>3. \A k \in 1 .. i - 1 : Same(code'[k], code[k])
  BY <1>1
<1>4. code[i].muted \in BOOLEAN /\ code[i].quiet \in BOOLEAN
  BY <1>1 DEF Frame
<1>5. Fits(code', i - 1, code[i].scope, code[i].muted, code[i].quiet)
  BY <1>1, <1>2, <1>3, <1>4, FitsStays
<1> QED
  BY <1>5 DEF Same

LEMMA SavedOnCharge ==
  ASSUME TypeOK, Saved, MayAct, Charge, UNCHANGED ambient
  PROVE  Saved'
<1>1. /\ Len(code) \in Nat \ {0} /\ Len(code') = Len(code)
      /\ \A k \in 1 .. Len(code) : Same(code'[k], code[k])
  BY Charging
<1>2. muted \in BOOLEAN /\ quiet \in BOOLEAN
  BY DEF TypeOK
<1>3. Fits(code', Len(code), scope, muted, quiet)
  <2>1. PICK n \in Nat : n = Len(code)
    BY <1>1
  <2>2. Fits(code, n, scope, muted, quiet) /\ \A k \in 1 .. n : Same(code'[k], code[k])
    BY <1>1, <2>1 DEF Saved
  <2>3. Fits(code', n, scope, muted, quiet)
    BY <1>2, <2>2, FitsStays
  <2> QED
    BY <2>1, <2>3
<1>4. \A i \in 1 .. Len(code) :
         Fits(code', i - 1, code'[i].scope, code'[i].muted, code'[i].quiet)
  BY <1>1, SavedBelow
<1> QED
  BY <1>1, <1>3, <1>4 DEF Saved, ambient

LEMMA SavedOnReturn ==
  ASSUME TypeOK, Saved, Returns
  PROVE  Saved'
<1>1. code \in Seq(Frame) /\ code # <<>> /\ code' = Front(code)
  BY DEF TypeOK, Returns
<1>2. /\ Len(code) \in Nat \ {0} /\ Top \in Frame /\ Len(code') = Len(code) - 1
      /\ \A k \in 1 .. Len(code) - 1 : code'[k] = code[k]
  BY <1>1, FrontFacts DEF Top
<1>3. PICK n \in 0 .. Len(code) : n = Len(code) - 1
  <2>1. Len(code) \in Nat \ {0}
    BY <1>2
  <2>2. Len(code) - 1 \in 0 .. Len(code)
    BY <2>1
  <2> QED
    BY <2>2
<1>4. \A k \in 1 .. n : Same(code'[k], code[k])
  BY <1>2, <1>3 DEF Same
<1>5. Fits(code, n, Top.scope, Top.muted, Top.quiet)
  BY <1>2, <1>3 DEF Saved, Top
<1>6. Fits(code', n, Top.scope, Top.muted, Top.quiet)
  <2>1. PICK o \in Owners, m \in BOOLEAN, q \in BOOLEAN :
           o = Top.scope /\ m = Top.muted /\ q = Top.quiet
    BY <1>2 DEF Frame
  <2>2. n \in Nat
    BY <1>2, <1>3
  <2>3. Fits(code, n, o, m, q)
    BY <1>5, <2>1
  <2>4. Fits(code', n, o, m, q)
    BY <1>4, <2>2, <2>3, FitsStays, SMTT(20)
  <2> QED
    BY <2>1, <2>4
<1>7. \A i \in 1 .. n : Fits(code', i - 1, code'[i].scope, code'[i].muted, code'[i].quiet)
  BY <1>4, SavedBelow
<1>8. Len(code') = n
  BY <1>2, <1>3
<1> QED
  BY <1>6, <1>7, <1>8 DEF Saved, Returns, Restore

\* A piece of code starts under an ambient state that fits it.
LEMMA SavedOnRun ==
  ASSUME TypeOK, Saved, NEW kind \in {"body", "export", "timer", "exit"}, NEW owner \in Owners,
         NEW provoked \in BOOLEAN, NEW afterExit \in BOOLEAN,
         Run(kind, owner, provoked, afterExit),
         scope' = IF kind = "body" THEN owner ELSE scope,
         muted' => provoked,
         provoked /\ ~afterExit => muted',
         quiet' => \/ provoked \/ kind = "timer"
                   \/ \E k \in 1 .. Len(code) : code[k].kind = "timer"
  PROVE  Saved'
<1> DEFINE f == [kind |-> kind, owner |-> owner, provoked |-> provoked,
                 afterExit |-> afterExit, acts |-> 0,
                 scope |-> scope, muted |-> muted, quiet |-> quiet]
<1>1. code \in Seq(Frame) /\ Len(code) \in Nat /\ code' = Append(code, f)
  BY DEF TypeOK, Run
<1>2. PICK n \in Nat \ {0} : n = Len(code) + 1
  BY <1>1
<1>3. /\ f.kind = kind /\ f.owner = owner /\ f.provoked = provoked /\ f.afterExit = afterExit
      /\ f.scope = scope /\ f.muted = muted /\ f.quiet = quiet
  OBVIOUS
<1> HIDE DEF f
<1>4. Len(code') = n /\ code'[n] = f /\ \A k \in 1 .. Len(code) : code'[k] = code[k]
  BY <1>1, <1>2
<1>5. \A k \in 1 .. Len(code) : Same(code'[k], code[k])
  BY <1>4 DEF Same
<1>6. Fits(code', Len(code), scope, muted, quiet)
  <2>1. muted \in BOOLEAN /\ quiet \in BOOLEAN
    BY DEF TypeOK
  <2>2. PICK m \in Nat : m = Len(code)
    BY <1>1
  <2>3. Fits(code, m, scope, muted, quiet) /\ \A k \in 1 .. m : Same(code'[k], code[k])
    BY <1>5, <2>2 DEF Saved
  <2>4. Fits(code', m, scope, muted, quiet)
    BY <2>1, <2>3, FitsStays
  <2> QED
    BY <2>2, <2>4
<1>7. InnerScope(code', n, scope')
  <2>1. InnerScope(code', n - 1, scope)
    BY <1>1, <1>2, <1>6 DEF Fits
  <2> QED
    BY <1>3, <1>4, <2>1, InnerScopeOfTop
<1>8. Fits(code', n, scope', muted', quiet')
  <2>1. quiet' => provoked \/ \E k \in 1 .. n : code'[k].kind = "timer"
    <3>1. \A k \in 1 .. Len(code) : k \in 1 .. n /\ code'[k].kind = code[k].kind
      BY <1>1, <1>2, <1>4
    <3>2. n \in 1 .. n /\ code'[n].kind = kind
      BY <1>2, <1>3, <1>4
    <3> QED
      BY <3>1, <3>2
  <2> QED
    BY <1>3, <1>4, <1>7, <2>1 DEF Fits
<1>9. ASSUME NEW i \in 1 .. n
      PROVE  Fits(code', i - 1, code'[i].scope, code'[i].muted, code'[i].quiet)
  <2>1. CASE i \in 1 .. Len(code)
    <3>1. Len(code) \in 0 .. Len(code)
      BY <1>1
    <3> QED
      BY <1>5, <2>1, <3>1, SavedBelow
  <2>2. CASE i = n
    <3>1. i - 1 = Len(code)
      BY <1>1, <1>2, <2>2
    <3> QED
      BY <1>3, <1>4, <1>6, <2>2, <3>1
  <2> QED
    BY <1>1, <1>2, <2>1, <2>2
<1> QED
  BY <1>4, <1>8, <1>9 DEF Saved

-----------------------------------------------------------------------------
(* Every step keeps the ambient state fitting                                *)

\* When the host works, nothing is muted or quiet.
LEMMA HostIsPlain ==
  ASSUME TypeOK, Saved, code = <<>>
  PROVE  muted = FALSE /\ quiet = FALSE /\ scope = Root
<1>1. Len(code) = 0 /\ muted \in BOOLEAN /\ quiet \in BOOLEAN
  BY DEF TypeOK
<1>2. Fits(code, 0, scope, muted, quiet)
  BY <1>1 DEF Saved
<1> QED
  BY <1>1, <1>2 DEF Fits, InnerScope

\* What the ambient state says of the innermost piece of code.
LEMMA TopFits ==
  ASSUME TypeOK, Saved, code # <<>>
  PROVE  /\ Top \in Frame
         /\ muted => Top.provoked
         /\ Top.provoked /\ ~Top.afterExit => muted
         /\ quiet => Top.provoked \/ \E k \in 1 .. Len(code) : code[k].kind = "timer"
         /\ Top.kind = "body" => scope = Top.owner
<1>1. PICK n \in Nat \ {0} : n = Len(code)
  BY DEF TypeOK
<1>2. Fits(code, n, scope, muted, quiet) /\ Top = code[n]
  BY <1>1 DEF Saved, Top
<1>3. Top \in Frame
  BY <1>1, <1>2 DEF TypeOK
<1>4. code[n].kind = "body" => scope = code[n].owner
  BY <1>1, <1>2, InnerScopeOfTop DEF Fits
<1> QED
  BY <1>1, <1>2, <1>3, <1>4 DEF Fits

LEMMA SavedRemains ==
  /\ Init => Saved /\ JobsFit
  /\ TypeOK /\ Saved /\ JobsFit /\ [Next]_vars => Saved' /\ JobsFit'
<1>1. ASSUME Init PROVE Saved /\ JobsFit
  <2>1. Len(code) = 0 /\ 1 .. Len(code) = {} /\ 1 .. 0 = {}
    BY <1>1 DEF Init
  <2>2. Fits(code, 0, scope, muted, quiet)
    BY <1>1, <2>1 DEF Init, Fits, InnerScope
  <2> QED
    BY <1>1, <2>1, <2>2, EmptySeq DEF Saved, JobsFit, Init
<1>2. ASSUME TypeOK, Saved, JobsFit, [Next]_vars PROVE Saved' /\ JobsFit'
  <2>0. \A m : OwnerOf(m) \in Owners
    BY OwnersAreTyped
  <2>1. ASSUME NEW kind, NEW sink, Behave(kind, sink) PROVE Saved' /\ JobsFit'
    BY <1>2, <2>1, SavedOnCharge DEF Behave, JobsFit, deferred
  <2>2. ASSUME NEW d \in Delays, QueueTimer(d) PROVE Saved' /\ JobsFit'
    <3>1. Saved'
      BY <1>2, <2>2, SavedOnCharge DEF QueueTimer
    <3>2. QueuedJob(d) \in Fitting
      <4>1. code # <<>>
        BY <2>2 DEF QueueTimer, MayAct
      <4> QED
        BY <1>2, <4>1, TopFits DEF QueuedJob, Job, Queued, Fitting, Frame, TypeOK
    <3>3. CASE Full
      BY <1>2, <2>2, <3>1, <3>3 DEF QueueTimer, JobsFit
    <3>4. CASE ~Full
      <4>1. pending' = Append(pending, QueuedJob(d)) /\ pending \in Seq(Fitting)
        BY <1>2, <2>2, <3>4 DEF QueueTimer, JobsFit
      <4>2. pending' \in Seq(Fitting)
        BY <3>2, <4>1, AppendProperties
      <4> QED
        BY <3>1, <4>2 DEF JobsFit
    <3> QED
      BY <3>3, <3>4
  <2>3. CASE OnExit
    BY <1>2, <2>3, SavedOnCharge DEF OnExit, JobsFit
  <2>4. ASSUME NEW m \in Module, Require(m) PROVE Saved' /\ JobsFit'
    <3>1. /\ code # <<>> /\ UNCHANGED <<muted, quiet, pending>>
          /\ Run("body", OwnerOf(m), Top.provoked, Top.afterExit) /\ scope' = OwnerOf(m)
      BY <2>4 DEF Require, MayAct, Body, deferred
    <3>2. /\ Top.provoked \in BOOLEAN /\ Top.afterExit \in BOOLEAN
          /\ muted => Top.provoked
          /\ Top.provoked /\ ~Top.afterExit => muted
          /\ quiet => Top.provoked \/ \E k \in 1 .. Len(code) : code[k].kind = "timer"
      BY <1>2, <3>1, TopFits DEF Frame
    <3>3. Saved'
      BY <1>2, <2>0, <3>1, <3>2, SavedOnRun
    <3> QED
      BY <1>2, <3>1, <3>3 DEF JobsFit
  <2>5. CASE Returns
    BY <1>2, <2>5, SavedOnReturn DEF Returns, JobsFit, deferred
  <2>6. ASSUME NEW owner \in Owners, NEW provoked \in BOOLEAN, NEW kind \in {"body", "export"},
               code = <<>>, Run(kind, owner, provoked, FALSE),
               scope' = IF kind = "body" THEN owner ELSE scope,
               muted' = provoked, quiet' = provoked
        PROVE  Saved'
    BY <1>2, <2>6, SavedOnRun
  <2>7. CASE Script
    <3>1. Now.on \in Owners
      BY <1>2, <2>7, Planned DEF Script, Step
    <3>2. muted' = FALSE /\ quiet' = FALSE /\ code = <<>> /\ UNCHANGED pending
      BY <1>2, <2>7, HostIsPlain DEF Script, Hosting, deferred
    <3>3. Run("body", Now.on, FALSE, FALSE) /\ scope' = Now.on
      BY <2>7 DEF Script
    <3> QED
      BY <1>2, <2>6, <3>1, <3>2, <3>3 DEF JobsFit
  <2>8. CASE Import
    <3>1. muted' = FALSE /\ quiet' = FALSE /\ code = <<>> /\ UNCHANGED <<muted, quiet, pending>>
      BY <1>2, <2>8, HostIsPlain DEF Import, Hosting, deferred
    <3>2. CASE Cached(Now.on)
      BY <1>2, <2>8, <3>1, <3>2 DEF Import, Saved, JobsFit
    <3>3. CASE ~Cached(Now.on)
      <4>1. Run("body", OwnerOf(Now.on), FALSE, FALSE) /\ scope' = OwnerOf(Now.on)
        BY <2>8, <3>3 DEF Import, Body
      <4> QED
        BY <1>2, <2>0, <2>6, <3>1, <4>1 DEF JobsFit
    <3> QED
      BY <3>2, <3>3
  <2>9. CASE SweepLoad
    BY <1>2, <2>0, <2>6, <2>9 DEF SweepLoad, Hosting, Body, JobsFit, deferred
  <2>10. CASE Fuzz
    BY <1>2, <2>0, <2>6, <2>10 DEF Fuzz, Hosting, JobsFit, deferred
  <2>11. CASE DrainTimer
    <3>1. PICK i \in 1 .. Len(pending) :
             /\ pending' = RemoveAt(pending, i) /\ muted' = pending[i].muted /\ quiet' = TRUE
             /\ Run("timer", pending[i].owner, pending[i].provoked, pending[i].afterExit)
      BY <2>11 DEF DrainTimer
    <3>2. pending \in Seq(Fitting) /\ pending[i] \in Fitting
      BY <1>2 DEF JobsFit
    <3>3. pending' \in Seq(Fitting)
      BY <3>1, <3>2, Removing
    <3>4. /\ pending[i].owner \in Owners /\ pending[i].provoked \in BOOLEAN
          /\ pending[i].afterExit \in BOOLEAN
          /\ muted' => pending[i].provoked
          /\ pending[i].provoked /\ ~pending[i].afterExit => muted'
      BY <3>1, <3>2 DEF Fitting, Queued
    <3>5. scope' = scope
      BY <2>11 DEF DrainTimer
    <3>6. Saved'
      BY <1>2, <3>1, <3>4, <3>5, SavedOnRun
    <3> QED
      BY <3>3, <3>6 DEF JobsFit
  <2>12. CASE FireExit
    <3>1. /\ Head(exits).owner \in Owners /\ Head(exits).provoked \in BOOLEAN
      <4>1. exits \in Seq([owner : Owners, provoked : BOOLEAN]) /\ exits # <<>>
        BY <1>2, <2>12 DEF FireExit, ExitGoesOn, TypeOK
      <4>2. Head(exits) \in [owner : Owners, provoked : BOOLEAN]
        BY <4>1, HeadTailProperties
      <4> QED
        BY <4>2
    <3>2. /\ Run("exit", Head(exits).owner, Head(exits).provoked, TRUE)
          /\ muted' = FALSE /\ quiet' = FALSE /\ scope' = scope /\ UNCHANGED pending
      BY <1>2, <2>12, HostIsPlain DEF FireExit, Hosting, ambient
    <3>3. Saved'
      BY <1>2, <3>1, <3>2, SavedOnRun
    <3> QED
      BY <1>2, <3>2, <3>3 DEF JobsFit
  <2>13. ASSUME UNCHANGED <<code, ambient>> PROVE Saved'
    BY <1>2, <2>13 DEF Saved, ambient
  <2>14. CASE DrainEnds
    BY <2>13, <2>14, EmptySeq DEF DrainEnds, JobsFit
  <2>15. CASE ExitEnds
    BY <1>2, <2>13, <2>15 DEF ExitEnds, JobsFit
  <2>16. CASE Skip
    BY <1>2, <2>13, <2>16 DEF Skip, JobsFit, deferred
  <2>17. CASE Abort
    BY <1>2, <2>13, <2>17 DEF Abort, JobsFit, deferred
  <2>18. CASE UNCHANGED vars
    BY <1>2, <2>13, <2>18 DEF vars, JobsFit, deferred
  <2> QED
    BY <1>2, <2>1, <2>2, <2>3, <2>4, <2>5, <2>7, <2>8, <2>9, <2>10, <2>11, <2>12,
       <2>14, <2>15, <2>16, <2>17, <2>18
       DEF Next, CodeStep, HostStep, Record, Delete, Decoded, Done
<1> QED
  BY <1>1, <1>2

\* AmbientOK: at any depth of nesting the scope is that of the innermost module
\* or script, and nothing is muted or quiet when the host goes on, however the
\* code ended (SetScope, SetMuted and setQuiet around every piece of code).
THEOREM AmbientIsRestored == Spec => []AmbientOK
<1>1. TypeOK /\ Saved => AmbientOK
  <2> SUFFICES ASSUME TypeOK, Saved PROVE AmbientOK
    OBVIOUS
  <2>1. ScopeIsTheModules
    BY DEF Saved, Fits, ScopeIsTheModules
  <2>2. HostIsAudible
    BY HostIsPlain DEF HostIsAudible
  <2> QED
    BY <2>1, <2>2 DEF AmbientOK
<1> QED
  BY <1>1, SavedRemains, TypeCorrect, PTL DEF Spec

-----------------------------------------------------------------------------
(* Where what the code does is filed                                         *)

Filed == GenuineIsHeard /\ ExclusionsHold

\* A step that records nothing breaks no promise about what is filed.
LEMMA SilenceIsFine == last = Nothing => Filed
  BY DEF Nothing, Filed, GenuineIsHeard, GenuineIsAudible, DeletionsRecordedOutsideTimers,
         ExclusionsHold, SweepScoresOnlyFromExits, Scores, DevModulesNeverScored

\* A step other than the three that record is silent.
LEMMA OthersAreSilent ==
  ASSUME Next
  PROVE  Record \/ Delete \/ Decoded \/ last' = Nothing \/ UNCHANGED vars
  BY DEF Next, CodeStep, HostStep, QueueTimer, OnExit, Require, Returns, Script, Import,
         SweepLoad, Fuzz, DrainTimer, DrainEnds, FireExit, ExitEnds, Skip, Abort, Done, Silent

\* What is recorded under an ambient state that fits is filed as promised.
LEMMA FiledOnBehave ==
  ASSUME TypeOK, Saved, NEW kind, NEW sink, Behave(kind, sink),
         \/ kind = "record" /\ sink = Sink
         \/ kind = "delete" /\ sink = IF quiet THEN "nowhere" ELSE Sink
         \/ kind = "decoded" /\ sink = ScoredSink
  PROVE  Filed'
<1>1. /\ MayAct /\ Charge /\ code # <<>> /\ last' = [kind |-> kind, sink |-> sink]
  BY DEF Behave, MayAct
<1>2. PICK n \in Nat \ {0} : n = Len(code)
  BY <1>1, Charging
<1>3. /\ Len(code') = n
      /\ \A i \in 1 .. n : Same(code'[i], code[i])
  BY <1>1, <1>2, Charging
<1>4. /\ Top'.kind = Top.kind /\ Top'.owner = Top.owner
      /\ Top'.provoked = Top.provoked /\ Top'.afterExit = Top.afterExit
  <2>1. Top' = code'[n] /\ Top = code[n] /\ n \in 1 .. n
    BY <1>2, <1>3 DEF Top
  <2> QED
    BY <1>3, <2>1 DEF Same
<1>5. (\E k \in 1 .. n : code[k].kind = "timer") => InTimer'
  <2>1. DOMAIN code' = 1 .. n
    BY <1>1, <1>3, Charging
  <2>2. InTimer' = \E k \in 1 .. n : code'[k].kind = "timer"
    BY <2>1 DEF InTimer
  <2>3. \A k \in 1 .. n : code'[k].kind = code[k].kind
    BY <1>3 DEF Same
  <2> QED
    BY <2>2, <2>3
<1>6. /\ Top \in Frame
      /\ muted => Top.provoked
      /\ Top.provoked /\ ~Top.afterExit => muted
      /\ quiet => Top.provoked \/ \E k \in 1 .. n : code[k].kind = "timer"
      /\ Top.kind = "body" => scope = Top.owner
  BY <1>1, <1>2, TopFits
<1>7. last'.kind = kind /\ last'.sink = sink
  BY <1>1
<1>8. GenuineIsAudible'
  <2>1. sink = "muted" => muted
    BY DEF Sink, ScoredSink
  <2> QED
    BY <1>4, <1>6, <1>7, <2>1 DEF GenuineIsAudible
<1>9. DeletionsRecordedOutsideTimers'
  <2>1. kind = "delete" /\ sink = "nowhere" => quiet
    BY DEF Sink
  <2> QED
    BY <1>4, <1>5, <1>6, <1>7, <2>1 DEF DeletionsRecordedOutsideTimers
<1>10. SweepScoresOnlyFromExits'
  <2>1. kind \in {"record", "delete"} /\ sink = "main" => ~muted
    BY DEF Sink
  <2> QED
    BY <1>4, <1>6, <1>7, <2>1 DEF SweepScoresOnlyFromExits, Scores
<1>11. DevModulesNeverScored'
  <2>1. sink = "main" => scope \notin DevDeps
    BY DEF Sink, ScoredSink
  <2> QED
    BY <1>4, <1>6, <1>7, <2>1 DEF DevModulesNeverScored
<1> QED
  BY <1>8, <1>9, <1>10, <1>11 DEF Filed, GenuineIsHeard, ExclusionsHold

LEMMA FiledRemains ==
  /\ Init => Filed
  /\ TypeOK /\ Saved /\ Filed /\ [Next]_vars => Filed'
<1>1. ASSUME Init PROVE Filed
  BY <1>1, SilenceIsFine DEF Init
<1>2. ASSUME TypeOK, Saved, Filed, [Next]_vars PROVE Filed'
  <2>1. CASE last' = Nothing
    BY <2>1, SilenceIsFine
    DEF Nothing, Filed, GenuineIsHeard, GenuineIsAudible, DeletionsRecordedOutsideTimers,
        ExclusionsHold, SweepScoresOnlyFromExits, Scores, DevModulesNeverScored
  <2>2. CASE Record
    BY <1>2, <2>2, FiledOnBehave DEF Record
  <2>3. CASE Delete
    BY <1>2, <2>3, FiledOnBehave DEF Delete
  <2>4. CASE Decoded
    BY <1>2, <2>4, FiledOnBehave DEF Decoded
  <2>5. CASE UNCHANGED vars
    BY <1>2, <2>5
    DEF vars, Filed, GenuineIsHeard, GenuineIsAudible, DeletionsRecordedOutsideTimers, InTimer,
        Top, ExclusionsHold, SweepScoresOnlyFromExits, Scores, DevModulesNeverScored
  <2> QED
    BY <1>2, <2>1, <2>2, <2>3, <2>4, <2>5, OthersAreSilent
<1> QED
  BY <1>1, <1>2

LEMMA Attribution == Spec => [](TypeOK /\ Saved /\ JobsFit /\ Filed)
<1>1. Init => TypeOK /\ Saved /\ JobsFit /\ Filed
  BY TypesRemain, SavedRemains, FiledRemains
<1>2. TypeOK /\ Saved /\ JobsFit /\ Filed /\ [Next]_vars => (TypeOK /\ Saved /\ JobsFit /\ Filed)'
  BY TypesRemain, SavedRemains, FiledRemains
<1> QED
  BY <1>1, <1>2, PTL DEF Spec

\* GenuineIsHeard: whatever nests, what the sample does without being provoked
\* is never filed as muted, and its deletions outside timer callbacks are
\* recorded (runtime.go:540, builtins.go:298).
THEOREM GenuineIsAlwaysHeard == Spec => []GenuineIsHeard
  BY Attribution, PTL DEF Filed

\* ExclusionsHold: nothing the sweep provokes is filed among the scored
\* indicators unless it stems from an exit handler, and nothing that the body
\* of a dev module does is (tracer.go:63-74).
THEOREM ExclusionsAlwaysHold == Spec => []ExclusionsHold
  BY Attribution, PTL DEF Filed

=============================================================================
