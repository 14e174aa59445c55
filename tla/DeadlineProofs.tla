--------------------------- MODULE DeadlineProofs ---------------------------
(***************************************************************************)
(* Proofs about the two modules that stop an analysis which does not end    *)
(* by itself.                                                               *)
(*                                                                          *)
(* VMGuard, inside the process, for every number of calls, depth of nesting *)
(* and mix of kinds: the budget holds unless it races a nested call, and    *)
(* the timeout of a call holds as long as it makes no other.                *)
(*                                                                          *)
(* JailPipe, outside it, for every message length and pipe capacity:        *)
(* nothing is lost in the pipes (Flow), the child answers with a report     *)
(* only after the whole request (Honest), and what the parent knows is what *)
(* the child said (Known).                                                  *)
(***************************************************************************)
EXTENDS VMGuard, JailPipe, TLAPS

-----------------------------------------------------------------------------
(* VMGuard: the calls in progress *)

\* A call in the middle of the stack is running: it made the one above it.
BelowTopRuns == \A n \in 1 .. Len(stack) - 1 : stack[n].phase = "running"

\* Only calls that respect the abort test before they clear are nested.
NestedKinds == \A n \in 2 .. Len(stack) : Nestable(stack[n].kind)

\* The budget's timer aborts the run before it interrupts it.
AbortsFirst == budget \in {"firing", "fired"} => aborted

\* After the budget has struck, no nested call is about to clear the flag.
NoLateClear ==
  budget = "fired" /\ ~raced => \A n \in 2 .. Len(stack) : stack[n].phase # "clearing"

\* The timer of a call that was not made yet is idle.
FreshTimers == \A i \in Calls : i > calls => timer[i] = "idle"

Shape == TypeOK /\ BelowTopRuns /\ NestedKinds /\ AbortsFirst /\ FreshTimers

IInv == Shape /\ NoLateClear /\ BudgetHolds

-----------------------------------------------------------------------------
(* The stack operators *)

\* Move changes the phase of the innermost call and nothing else.
LEMMA MoveFacts ==
  ASSUME stack \in Seq(Frame), stack # <<>>, NEW p \in Phases
  PROVE  /\ Move(p) \in Seq(Frame)
         /\ Len(Move(p)) = Len(stack)
         /\ \A n \in 1 .. Len(stack) - 1 : Move(p)[n] = stack[n]
         /\ \A n \in 1 .. Len(stack) : Move(p)[n].kind = stack[n].kind /\ Move(p)[n].id = stack[n].id
         /\ Move(p)[Len(stack)].phase = p
<1>1. Len(stack) \in 1 .. Len(stack) /\ Len(stack) \in Nat \ {0}
  OBVIOUS
<1>2. stack[Len(stack)] \in Frame
  BY <1>1
<1>3. [stack[Len(stack)] EXCEPT !.phase = p] \in Frame
  BY <1>2 DEF Frame
<1>4. Move(p) \in Seq(Frame) /\ Len(Move(p)) = Len(stack)
  BY <1>1, <1>3 DEF Move
<1>5. \A n \in 1 .. Len(stack) - 1 : Move(p)[n] = stack[n]
  BY <1>1 DEF Move
<1>6. Move(p)[Len(stack)] = [stack[Len(stack)] EXCEPT !.phase = p]
  BY <1>1 DEF Move
<1>7. /\ Move(p)[Len(stack)].kind = stack[Len(stack)].kind
      /\ Move(p)[Len(stack)].id = stack[Len(stack)].id
      /\ Move(p)[Len(stack)].phase = p
  BY <1>2, <1>6 DEF Frame
<1>8. \A n \in 1 .. Len(stack) : n \in 1 .. Len(stack) - 1 \/ n = Len(stack)
  BY <1>1
<1> QED
  BY <1>4, <1>5, <1>7, <1>8

\* Front drops the innermost call and nothing else.
LEMMA FrontFacts ==
  ASSUME stack \in Seq(Frame), stack # <<>>
  PROVE  /\ Front(stack) \in Seq(Frame)
         /\ Len(Front(stack)) = Len(stack) - 1
         /\ \A n \in 1 .. Len(stack) - 1 : Front(stack)[n] = stack[n]
<1>1. Len(stack) \in Nat \ {0} /\ Len(stack) - 1 \in Nat
  OBVIOUS
<1>2. Front(stack) = SubSeq(stack, 1, Len(stack) - 1)
  BY DEF Front
<1>3. Len(Front(stack)) = Len(stack) - 1
  <2>1. PICK k \in Nat : k = Len(stack) - 1
    BY <1>1
  <2>2. Front(stack) = SubSeq(stack, 1, k)
    BY <1>2, <2>1
  <2> QED
    BY <2>1, <2>2
<1>4. \A n \in 1 .. Len(stack) - 1 : Front(stack)[n] = stack[n]
  BY <1>1, <1>2
<1>5. Front(stack) \in Seq(Frame)
  BY <1>1, <1>2
<1> QED
  BY <1>3, <1>4, <1>5

\* What a step that moves or drops the innermost call to a phase in which it
\* does not run leaves: the calls below it, and none of them new.
Settles(s) ==
  /\ s \in Seq(Frame)
  /\ Len(s) \in {Len(stack), Len(stack) - 1}
  /\ \A n \in 1 .. Len(stack) - 1 : s[n] = stack[n]
  /\ Len(s) = Len(stack) =>
       /\ s[Len(stack)].phase # "running"
       /\ s[Len(stack)].kind = stack[Len(stack)].kind
       /\ s[Len(stack)].id = stack[Len(stack)].id

LEMMA SettlesFacts ==
  ASSUME stack \in Seq(Frame), stack # <<>>
  PROVE  /\ Settles(Front(stack))
         /\ \A p \in Phases \ {"running"} : Settles(Move(p))
         /\ Settles(Left)
<1>1. Len(stack) \in Nat \ {0} /\ Len(stack) - 1 # Len(stack)
  OBVIOUS
<1>2. Settles(Front(stack))
  BY <1>1, FrontFacts DEF Settles
<1>3. \A p \in Phases \ {"running"} : Settles(Move(p))
  BY <1>1, MoveFacts DEF Settles
<1>4. "returned" \in Phases \ {"running"}
  BY DEF Phases
<1> QED
  BY <1>2, <1>3, <1>4 DEF Left

\* Such a step keeps the shape of the stack and brings no call to run.
LEMMA SettlesShape ==
  ASSUME stack \in Seq(Frame), stack # <<>>, Len(stack) <= MaxDepth,
         BelowTopRuns, NestedKinds, Settles(stack')
  PROVE  /\ stack' \in Seq(Frame) /\ Len(stack') <= MaxDepth
         /\ BelowTopRuns' /\ NestedKinds'
         /\ \A n \in 1 .. Len(stack') : stack'[n].phase = "running" =>
              n \in 1 .. Len(stack) - 1 /\ stack'[n] = stack[n]
<1>1. Len(stack) \in Nat \ {0} /\ Len(stack') \in Nat /\ MaxDepth \in Nat
  BY CallsAssumption DEF Settles
<1>2. Len(stack') <= Len(stack)
  BY <1>1 DEF Settles
<1>3. BelowTopRuns'
  BY <1>1, <1>2 DEF Settles, BelowTopRuns
<1>4. NestedKinds'
  <2> SUFFICES ASSUME NEW n \in 2 .. Len(stack') PROVE Nestable(stack'[n].kind)
    BY DEF NestedKinds
  <2>1. n \in 2 .. Len(stack)
    BY <1>1, <1>2
  <2>2. stack'[n].kind = stack[n].kind
    <3>1. CASE n \in 1 .. Len(stack) - 1
      BY <3>1 DEF Settles
    <3>2. CASE n = Len(stack)
      BY <1>1, <1>2, <3>2 DEF Settles
    <3> QED
      BY <1>1, <2>1, <3>1, <3>2
  <2> QED
    BY <2>1, <2>2 DEF NestedKinds, Nestable
<1>5. \A n \in 1 .. Len(stack') : stack'[n].phase = "running" =>
              n \in 1 .. Len(stack) - 1 /\ stack'[n] = stack[n]
  BY <1>1, <1>2 DEF Settles
<1> QED
  BY <1>1, <1>2, <1>3, <1>4, <1>5 DEF Settles

-----------------------------------------------------------------------------
(* The inductive invariant *)

LEMMA InitIInv == Init => IInv
<1> SUFFICES ASSUME Init PROVE IInv
  OBVIOUS
<1>1. stack = <<>> /\ Len(stack) = 0 /\ stack \in Seq(Frame)
  BY DEF Init
<1>2. TypeOK
  <2>1. Len(stack) <= MaxDepth /\ calls \in 0 .. MaxCalls
    BY <1>1, CallsAssumption DEF Init
  <2>2. flag \in BOOLEAN
    BY DEF Init
  <2> QED
    BY <1>1, <2>1, <2>2 DEF Init, TypeOK
<1> QED
  BY <1>1, <1>2 DEF IInv, Shape, BelowTopRuns, NestedKinds, AbortsFirst, FreshTimers,
       NoLateClear, BudgetHolds, Init, Calls

\* A step by which the innermost call stops running, is done or is dropped.
LEMMA SettleStep ==
  ASSUME IInv, Return \/ Unwind \/ Check \/ ClearInterrupt \/ StopTimer
  PROVE  IInv'
<1> USE DEF IInv, Shape
<1>1. stack \in Seq(Frame) /\ stack # <<>> /\ Len(stack) <= MaxDepth /\ Len(stack) \in Nat \ {0}
  BY DEF TypeOK, Return, Unwind, Check, ClearInterrupt, StopTimer, Running
<1>2. stack[Len(stack)] \in Frame
  BY <1>1
<1>3. Settles(stack')
  BY <1>1, SettlesFacts DEF Return, Unwind, Unwound, Check, ClearInterrupt, StopTimer, Phases
<1>4. /\ stack' \in Seq(Frame) /\ Len(stack') <= MaxDepth
      /\ BelowTopRuns' /\ NestedKinds'
      /\ \A n \in 1 .. Len(stack') : stack'[n].phase = "running" =>
           n \in 1 .. Len(stack) - 1 /\ stack'[n] = stack[n]
  BY <1>1, <1>3, SettlesShape
<1>5. /\ UNCHANGED <<aborted, budget, calls, raced>>
      /\ flag' \in {flag, FALSE}
  BY DEF Return, Unwind, Check, ClearInterrupt, StopTimer
<1>7. /\ timer' \in [Calls -> {"idle", "armed", "firing", "fired", "stopped"}]
      /\ FreshTimers'
  BY <1>5 DEF TypeOK, FreshTimers, Return, Unwind, Check, ClearInterrupt, StopTimer
<1>8. TypeOK'
  BY <1>4, <1>5, <1>7, CallsAssumption DEF TypeOK
<1>9. AbortsFirst'
  BY <1>5 DEF AbortsFirst
<1>10. NoLateClear'
  <2> SUFFICES ASSUME budget' = "fired", ~raced', NEW n \in 2 .. Len(stack')
               PROVE  stack'[n].phase # "clearing"
    BY DEF NoLateClear
  <2>1. budget = "fired" /\ ~raced /\ aborted
    BY <1>5 DEF AbortsFirst
  <2>2. Len(stack') \in Nat /\ Len(stack') <= Len(stack)
    BY <1>1, <1>3 DEF Settles
  <2>3. n \in 2 .. Len(stack)
    BY <1>1, <2>2
  <2>4. CASE n \in 1 .. Len(stack) - 1
    BY <1>3, <2>1, <2>3, <2>4 DEF Settles, NoLateClear
  <2>5. CASE n = Len(stack)
    <3>1. Len(stack') = Len(stack) /\ Len(stack) # 1
      BY <1>1, <2>2, <2>3, <2>5
    <3>2. Nestable(stack[Len(stack)].kind)
      BY <2>3, <2>5 DEF NestedKinds
    <3>3. Len(Front(stack)) # Len(stack)
      BY <1>1, FrontFacts
    <3>4. CASE Return \/ Unwind
      <4>1. stack' = Move("returned")
        BY <3>1, <3>3, <3>4 DEF Return, Unwind, Unwound, Left
      <4> QED
        BY <1>1, <2>5, <4>1, MoveFacts DEF Phases
    <3>5. CASE Check
      <4>1. ~MayClear
        BY <2>1, <3>2 DEF MayClear, Nestable, Top
      <4>2. stack' = Move("closing")
        BY <3>5, <4>1 DEF Check
      <4> QED
        BY <1>1, <2>5, <4>2, MoveFacts DEF Phases
    <3>6. CASE ClearInterrupt
      BY <1>1, <2>5, <3>6, MoveFacts DEF ClearInterrupt, Phases
    <3>7. CASE StopTimer
      BY <3>1, <3>3, <3>7 DEF StopTimer
    <3> QED
      BY <3>4, <3>5, <3>6, <3>7
  <2> QED
    BY <1>1, <2>3, <2>4, <2>5
<1>11. BudgetHolds'
  <2> SUFFICES ASSUME budget' = "fired", ~raced', NEW n \in 1 .. Len(stack'),
                      stack'[n].phase = "running", Refusing(stack'[n].kind)
               PROVE  flag'
    BY DEF BudgetHolds, Refusing
  <2>1. budget = "fired" /\ ~raced
    BY <1>5
  <2>2. n \in 1 .. Len(stack) - 1 /\ stack'[n] = stack[n]
    BY <1>4
  <2>3. n \in 1 .. Len(stack) /\ Len(stack) \in 2 .. Len(stack)
    BY <1>1, <2>2
  <2>4. flag
    BY <2>1, <2>2, <2>3 DEF BudgetHolds
  <2>5. CASE Unwind
    <3>1. Len(stack) # 1
      <4>1. n \in 1 .. Len(stack) - 1
        BY <2>2
      <4>2. ASSUME Len(stack) = 1 PROVE FALSE
        BY <4>1, <4>2
      <4> QED
        BY <4>2
    <3> QED
      BY <2>4, <2>5, <3>1 DEF Unwind, ClearedByUnwind
  <2>6. CASE ClearInterrupt
    <3>1. stack[Len(stack)].phase # "clearing"
      BY <2>1, <2>3 DEF NoLateClear
    <3> QED
      BY <2>6, <3>1 DEF ClearInterrupt, Top
  <2>7. CASE Return \/ Check \/ StopTimer
    BY <2>4, <2>7 DEF Return, Check, StopTimer
  <2> QED
    BY <2>5, <2>6, <2>7
<1> QED
  BY <1>4, <1>7, <1>8, <1>9, <1>10, <1>11

LEMMA CallStep ==
  ASSUME IInv, NEW kind \in Kinds, Call(kind)
  PROVE  IInv'
<1> USE DEF IInv, Shape
<1> DEFINE f == [id |-> calls + 1, kind |-> kind, phase |-> "running"]
<1>1. calls \in Nat /\ MaxCalls \in Nat /\ MaxDepth \in Nat /\ calls + 1 \in Calls
  BY CallsAssumption DEF TypeOK, Call, Calls
<1>2. f \in Frame
  BY <1>1, KindsAssumption DEF Frame, Phases
<1>3. stack \in Seq(Frame) /\ Len(stack) \in Nat /\ stack' = Append(stack, f)
  BY DEF TypeOK, Call
<1>4. /\ stack' \in Seq(Frame)
      /\ Len(stack') = Len(stack) + 1
      /\ \A n \in 1 .. Len(stack) : stack'[n] = stack[n]
      /\ stack'[Len(stack) + 1] = f
  BY <1>2, <1>3
<1>5. TypeOK'
  <2>1. Len(stack') <= MaxDepth
    BY <1>1, <1>3, <1>4 DEF Call, Room
  <2>2. calls' \in 0 .. MaxCalls
    BY <1>1, CallsAssumption DEF Call, TypeOK
  <2>3. timer' \in [Calls -> {"idle", "armed", "firing", "fired", "stopped"}]
    BY DEF Call, TypeOK
  <2> QED
    BY <1>4, <2>1, <2>2, <2>3 DEF TypeOK, Call
<1>6. FreshTimers'
  BY <1>1 DEF FreshTimers, Call, TypeOK, Calls
<1>7. BelowTopRuns'
  <2> SUFFICES ASSUME NEW n \in 1 .. Len(stack) PROVE stack[n].phase = "running"
    BY <1>3, <1>4 DEF BelowTopRuns
  <2>1. stack # <<>>
    BY <1>3
  <2>2. stack[Len(stack)].phase = "running"
    BY <2>1 DEF Call, Running, Top
  <2> QED
    BY <1>3, <2>2 DEF BelowTopRuns
<1>8. NestedKinds'
  <2> SUFFICES ASSUME NEW n \in 2 .. Len(stack) + 1 PROVE Nestable(stack'[n].kind)
    BY <1>4 DEF NestedKinds
  <2>1. CASE n \in 2 .. Len(stack)
    BY <1>3, <1>4, <2>1 DEF NestedKinds
  <2>2. CASE n = Len(stack) + 1
    <3>1. stack # <<>>
      BY <1>3, <2>2
    <3> QED
      BY <1>4, <2>2, <3>1 DEF Call
  <2> QED
    BY <1>3, <2>1, <2>2
<1>9. UNCHANGED <<aborted, flag, budget, raced>>
  BY DEF Call
<1>10. NoLateClear'
  <2> SUFFICES ASSUME budget = "fired", ~raced, NEW n \in 2 .. Len(stack) + 1
               PROVE  stack'[n].phase # "clearing"
    BY <1>4, <1>9 DEF NoLateClear
  <2>1. CASE n \in 2 .. Len(stack)
    BY <1>3, <1>4, <2>1 DEF NoLateClear
  <2>2. CASE n = Len(stack) + 1
    BY <1>4, <2>2
  <2> QED
    BY <1>3, <2>1, <2>2
<1>11. BudgetHolds'
  <2> SUFFICES ASSUME budget = "fired", ~raced, NEW n \in 1 .. Len(stack) + 1,
                      stack'[n].phase = "running", Refusing(stack'[n].kind)
               PROVE  flag
    BY <1>4, <1>9 DEF BudgetHolds, Refusing
  <2>1. CASE n \in 1 .. Len(stack)
    BY <1>3, <1>4, <2>1 DEF BudgetHolds
  <2>2. CASE n = Len(stack) + 1
    <3>1. Refusing(kind) /\ aborted
      BY <1>4, <2>2 DEF AbortsFirst
    <3> QED
      BY <3>1 DEF Call, Refused
  <2> QED
    BY <1>3, <2>1, <2>2
<1> QED
  BY <1>5, <1>6, <1>7, <1>8, <1>9, <1>10, <1>11 DEF AbortsFirst

\* A step that leaves the stack alone.
LEMMA TimerStep ==
  ASSUME IInv, Close \/ (\E i \in Calls : Expire(i) \/ Deliver(i)) \/ Abort \/ DeliverBudget
               \/ UNCHANGED vars
  PROVE  IInv'
<1> USE DEF IInv, Shape
<1>1. stack' = stack /\ calls' = calls
  BY DEF Close, Expire, Deliver, Abort, DeliverBudget, vars
<1>2. BelowTopRuns' /\ NestedKinds'
  BY <1>1 DEF BelowTopRuns, NestedKinds
<1>3. MaxCalls \in Nat
  BY CallsAssumption
<1>4. /\ timer' \in [Calls -> {"idle", "armed", "firing", "fired", "stopped"}]
      /\ FreshTimers'
  BY <1>1 DEF Close, Expire, Deliver, Abort, DeliverBudget, vars, TypeOK, FreshTimers
<1>5. flag' = flag \/ (flag' \in BOOLEAN /\ flag')
  <2>1. ASSUME NEW i \in Calls, Deliver(i) PROVE flag' \in BOOLEAN /\ flag'
    BY <1>3, <2>1 DEF Deliver, Calls
  <2>2. CASE DeliverBudget
    BY <1>3, <2>2 DEF DeliverBudget
  <2> QED
    BY <2>1, <2>2 DEF Close, Expire, Abort, vars
<1>6. TypeOK'
  BY <1>1, <1>4, <1>5 DEF Close, Expire, Deliver, Abort, DeliverBudget, vars, TypeOK
<1>7. AbortsFirst'
  BY DEF Close, Expire, Deliver, Abort, DeliverBudget, vars, AbortsFirst
<1>8. CASE DeliverBudget
  <2>1. flag'
    BY <1>3, <1>8 DEF DeliverBudget
  <2>2. NoLateClear'
    BY <1>1, <1>8 DEF DeliverBudget, NestedClearing, NoLateClear
  <2> QED
    BY <1>2, <1>4, <1>6, <1>7, <2>1, <2>2 DEF BudgetHolds
<1>9. CASE ~DeliverBudget
  <2>1. raced' = raced /\ (budget' = "fired" => budget = "fired")
    BY <1>9 DEF Close, Expire, Deliver, Abort, vars
  <2>2. NoLateClear'
    BY <1>1, <2>1 DEF NoLateClear
  <2>3. BudgetHolds'
    BY <1>1, <1>5, <2>1 DEF BudgetHolds
  <2> QED
    BY <1>2, <1>4, <1>6, <1>7, <2>2, <2>3
<1> QED
  BY <1>8, <1>9

LEMMA NextIInv == IInv /\ [Next]_vars => IInv'
<1> SUFFICES ASSUME IInv, [Next]_vars PROVE IInv'
  OBVIOUS
<1>1. CASE \E kind \in Kinds : Call(kind)
  BY <1>1, CallStep
<1>2. CASE Return \/ Unwind \/ Check \/ ClearInterrupt \/ StopTimer
  BY <1>2, SettleStep
<1>3. CASE Close \/ (\E i \in Calls : Expire(i) \/ Deliver(i)) \/ Abort \/ DeliverBudget
           \/ UNCHANGED vars
  BY <1>3, TimerStep
<1> QED
  BY <1>1, <1>2, <1>3 DEF Next, Done

LEMMA InductiveInvariant == Spec => []IInv
<1> QED
  BY InitIInv, NextIInv, PTL DEF Spec

\* Every state of every run has the declared types, and the call stack never
\* exceeds its bound (runtime.go: the state of Runtime).
THEOREM TypeCorrect == Spec => []TypeOK
<1>1. IInv => TypeOK
  BY DEF IInv, Shape
<1> QED
  BY <1>1, InductiveInvariant, PTL

\* Once the budget has struck, safeCall, runProgram and pumpMicrotasks run no
\* code without a pending interrupt, however deep calls nest and whatever their
\* timers do, unless the budget struck between a nested call's abort test and
\* its ClearInterrupt.
THEOREM BudgetIsFinal == Spec => []BudgetHolds
<1>1. IInv => BudgetHolds
  BY DEF IInv
<1> QED
  BY <1>1, InductiveInvariant, PTL

-----------------------------------------------------------------------------
(* The timeout of a call *)

\* The calls in progress, and all but the innermost of them, by age.
Ages ==
  /\ \A n \in 1 .. Len(stack) : stack[n].id <= calls
  /\ \A n \in 1 .. Len(stack) - 1 : stack[n].id < calls

\* Calls are numbered as they are made, so those below the innermost one are
\* older than the last call made.
LEMMA AgesStep == IInv /\ Ages /\ [Next]_vars => Ages'
<1> SUFFICES ASSUME IInv, Ages, [Next]_vars PROVE Ages'
  OBVIOUS
<1> USE DEF IInv, Shape
<1>1. stack \in Seq(Frame) /\ Len(stack) \in Nat /\ calls \in Nat
  BY CallsAssumption DEF TypeOK
<1>2. ASSUME NEW kind \in Kinds, Call(kind) PROVE Ages'
  <2> DEFINE f == [id |-> calls + 1, kind |-> kind, phase |-> "running"]
  <2>1. f \in Frame
    BY <1>1, <1>2, KindsAssumption, CallsAssumption DEF Frame, Phases, Call, Calls, TypeOK
  <2>2. /\ Len(stack') = Len(stack) + 1
        /\ \A n \in 1 .. Len(stack) : stack'[n] = stack[n]
        /\ stack'[Len(stack) + 1] = f
        /\ calls' = calls + 1
    BY <1>1, <1>2, <2>1 DEF Call
  <2>3. ASSUME NEW n \in 1 .. Len(stack) PROVE stack'[n].id <= calls' /\ stack'[n].id < calls'
    <3>1. stack[n] \in Frame
      BY <1>1
    <3>2. stack[n].id \in Nat
      BY <3>1, CallsAssumption DEF Frame, Calls
    <3> QED
      BY <1>1, <2>2, <3>2 DEF Ages
  <2>4. \A n \in 1 .. Len(stack') : n \in 1 .. Len(stack) \/ n = Len(stack) + 1
    BY <1>1, <2>2
  <2>5. \A n \in 1 .. Len(stack') - 1 : n \in 1 .. Len(stack)
    BY <1>1, <2>2
  <2>6. stack'[Len(stack) + 1].id <= calls'
    BY <1>1, <2>2
  <2> QED
    BY <2>3, <2>4, <2>5, <2>6 DEF Ages
<1>3. CASE Return \/ Unwind \/ Check \/ ClearInterrupt \/ StopTimer
  <2>1. stack # <<>> /\ calls' = calls
    BY <1>3 DEF Return, Unwind, Check, ClearInterrupt, StopTimer, Running
  <2>2. Settles(stack')
    BY <1>1, <1>3, <2>1, SettlesFacts DEF Return, Unwind, Unwound, Check, ClearInterrupt, StopTimer, Phases
  <2>3. /\ Len(stack) \in Nat \ {0} /\ Len(stack') \in {Len(stack), Len(stack) - 1}
        /\ \A n \in 1 .. Len(stack) - 1 : stack'[n] = stack[n]
        /\ Len(stack') = Len(stack) => stack'[Len(stack)].id = stack[Len(stack)].id
    BY <1>1, <2>1, <2>2 DEF Settles
  <2>4. ASSUME NEW n \in 1 .. Len(stack') PROVE stack'[n].id <= calls
    <3>1. n \in 1 .. Len(stack) - 1 \/ (n = Len(stack) /\ Len(stack') = Len(stack))
      BY <2>3
    <3> QED
      BY <2>3, <3>1 DEF Ages
  <2>5. ASSUME NEW n \in 1 .. Len(stack') - 1 PROVE stack'[n].id < calls
    <3>1. n \in 1 .. Len(stack) - 1
      BY <2>3
    <3> QED
      BY <2>3, <3>1 DEF Ages
  <2> QED
    BY <2>1, <2>4, <2>5 DEF Ages
<1>4. CASE Close \/ (\E i \in Calls : Expire(i) \/ Deliver(i)) \/ Abort \/ DeliverBudget
           \/ UNCHANGED vars
  BY <1>4 DEF Close, Expire, Deliver, Abort, DeliverBudget, vars, Ages
<1> QED
  BY <1>2, <1>3, <1>4 DEF Next, Done

\* The timeout of a call (runtime.go: Config.Timeout) is not lost as long as the
\* call makes no other: once its timer has struck, it runs only with the
\* interrupt pending, at any depth of nesting and whatever other timers do.
THEOREM TimeoutIsKept == Spec => []TimeoutHolds
<1>1. IInv /\ Ages /\ TimeoutHolds /\ [Next]_vars => TimeoutHolds'
  <2> SUFFICES ASSUME IInv, Ages, TimeoutHolds, [Next]_vars, Running',
                      Top.id' = calls', timer'[Top.id'] = "fired"
               PROVE  flag'
    BY DEF TimeoutHolds
  <2> USE DEF IInv, Shape
  <2>1. stack \in Seq(Frame) /\ Len(stack) \in Nat /\ calls \in Nat
    BY CallsAssumption DEF TypeOK
  <2>2. ASSUME NEW kind \in Kinds, Call(kind) PROVE FALSE
    <3>1. calls + 1 \in Calls /\ calls + 1 > calls
      BY <2>1, <2>2, CallsAssumption DEF Call, Calls
    <3>2. timer'[calls + 1] # "fired" /\ calls' = calls + 1
      BY <2>2, <3>1 DEF Call, FreshTimers, TypeOK
    <3> QED
      BY <3>2
  <2>3. CASE Return \/ Unwind \/ Check \/ ClearInterrupt \/ StopTimer
    <3>1. stack # <<>> /\ calls' = calls
      BY <2>3 DEF Return, Unwind, Check, ClearInterrupt, StopTimer, Running
    <3>2. Settles(stack')
      BY <2>1, <2>3, <3>1, SettlesFacts
         DEF Return, Unwind, Unwound, Check, ClearInterrupt, StopTimer, Phases
    <3>3. Len(stack') = Len(stack) - 1 /\ Len(stack') \in 1 .. Len(stack) - 1
      BY <2>1, <3>1, <3>2 DEF Settles, Running, Top
    <3>4. stack'[Len(stack')].id < calls
      BY <2>1, <3>2, <3>3 DEF Settles, Ages
    <3> QED
      BY <2>1, <3>1, <3>4, <3>3 DEF Top, Ages
  <2>4. ASSUME NEW i \in Calls, Expire(i) \/ Deliver(i) PROVE flag'
    <3>1. CASE Deliver(i)
      BY <3>1 DEF Deliver
    <3>2. CASE Expire(i)
      BY <3>2 DEF TimeoutHolds, Expire, TypeOK, Running, Top
    <3> QED
      BY <2>4, <3>1, <3>2
  <2>5. CASE Close \/ Abort \/ UNCHANGED vars
    BY <2>5 DEF TimeoutHolds, Close, Abort, vars, Running, Top
  <2>6. CASE DeliverBudget
    BY <2>6 DEF DeliverBudget
  <2> QED
    BY <2>2, <2>3, <2>4, <2>5, <2>6 DEF Next, Done
<1>2. Init => TimeoutHolds /\ Ages
  BY DEF Init, TimeoutHolds, Running, Ages
<1> QED
  BY <1>1, <1>2, AgesStep, InductiveInvariant, PTL DEF Spec

-----------------------------------------------------------------------------
(* JailPipe: messages, child and parent *)

Flow ==
  /\ got + inPipe = sent
  /\ received + outPipe = answered
  /\ answered <= AnswerLen[answer]

Honest ==
  /\ child = "reading" => got < ReqLen
  /\ child = "detonating" => got = ReqLen
  /\ child \in {"reading", "detonating"} => answer = "none"
  /\ child \in {"answering", "exited"} => answer # "none"
  /\ answer = "report" => got = ReqLen
  /\ child = "exited" => answered = AnswerLen[answer]

Known ==
  /\ parent = "reaping" => Complete
  /\ parent \in {"failed", "asking", "returned"} => ~Alive
  /\ parent # "returned" => outcome = "none"

JailIInv == JailTypeOK /\ Flow /\ Honest /\ Known /\ ReportIsComplete

\* The lengths are positive numbers.
LEMMA Lengths ==
  /\ ReqLen \in Nat /\ RespLen \in Nat /\ ErrLen \in Nat /\ Capacity \in Nat
  /\ ReqLen > 0 /\ RespLen > 0 /\ ErrLen > 0 /\ Capacity > 0
  /\ AnswerLen["none"] = 0 /\ AnswerLen["report"] = RespLen /\ AnswerLen["error"] = ErrLen
<1>1. ReqLen \in Nat \ {0} /\ RespLen \in Nat \ {0} /\ ErrLen \in Nat \ {0} /\ Capacity \in Nat \ {0}
  BY SizeAssumption
<1> QED
  BY <1>1 DEF AnswerLen

\* So are the counters.
LEMMA Counters ==
  ASSUME JailTypeOK
  PROVE  /\ sent \in Nat /\ sent <= ReqLen /\ inPipe \in Nat /\ inPipe <= Capacity
         /\ outPipe \in Nat /\ outPipe <= Capacity /\ got \in Nat /\ got <= ReqLen
         /\ answered \in Nat /\ received \in Nat
         /\ AnswerLen[answer] \in Nat /\ AnswerLen[answer] <= RespLen + ErrLen
<1>1. CASE answer = "none"
  BY <1>1, Lengths DEF JailTypeOK
<1>2. CASE answer = "report"
  BY <1>2, Lengths DEF JailTypeOK
<1>3. CASE answer = "error"
  BY <1>3, Lengths DEF JailTypeOK
<1> QED
  BY <1>1, <1>2, <1>3 DEF JailTypeOK

LEMMA JailInitIInv == JailInit => JailIInv
<1> SUFFICES ASSUME JailInit PROVE JailIInv
  OBVIOUS
<1>1. stdinOpen \in BOOLEAN /\ expired \in BOOLEAN
  BY DEF JailInit
<1>2. JailTypeOK
  BY <1>1, Lengths DEF JailInit, JailTypeOK
<1> QED
  BY <1>2, Lengths DEF JailInit, JailIInv, Flow, Honest, Known, ReportIsComplete, Alive

\* The encoder.
LEMMA EncoderStep ==
  ASSUME JailIInv, Encoder \/ EncodeFails
  PROVE  JailIInv'
<1>0. JailTypeOK /\ Flow /\ Honest /\ Known /\ ReportIsComplete
  BY DEF JailIInv
<1>1. CASE SendChunk
  <2>1. JailTypeOK'
    BY <1>1, <1>0, Lengths, Counters
       DEF SendChunk, RoomIn, JailTypeOK, Flow, Honest, Complete, Alive, worker, jailed
  <2>2. Flow'
    BY <1>1, <1>0, Lengths, Counters DEF SendChunk, RoomIn, Flow, Honest, Alive, worker, jailed
  <2>3. Honest'
    BY <1>1, <1>0, Lengths, Counters DEF SendChunk, RoomIn, JailTypeOK, Flow, Honest, Alive, worker, jailed
  <2>4. Known' /\ ReportIsComplete'
    BY <1>1, <1>0, Lengths
       DEF SendChunk, RoomIn, JailTypeOK, Honest, Known, ReportIsComplete, Complete, Alive, worker,
       jailed
  <2> QED
    BY <2>1, <2>2, <2>3, <2>4 DEF JailIInv
<1>2. CASE EncodeFails \/ WriteFails \/ Encoded \/ CloseStdin
  <2>1. JailTypeOK'
    <3>1. stdinOpen' \in BOOLEAN
      BY <1>2, <1>0 DEF EncodeFails, WriteFails, Encoded, CloseStdin, JailTypeOK
    <3> QED
      BY <1>2, <1>0, <3>1, Lengths, Counters DEF EncodeFails, WriteFails, Encoded, CloseStdin, JailTypeOK,
                                                worker, jailed
  <2>2. Flow'
    BY <1>2, <1>0, Lengths, Counters
       DEF EncodeFails, WriteFails, Encoded, CloseStdin, Flow, Honest, Alive, worker, jailed
  <2>3. Honest'
    BY <1>2, <1>0, Lengths, Counters
       DEF EncodeFails, WriteFails, Encoded, CloseStdin, JailTypeOK, Flow, Honest, Alive, worker,
       jailed
  <2>4. Known' /\ ReportIsComplete'
    BY <1>2, <1>0, Lengths
       DEF EncodeFails, WriteFails, Encoded, CloseStdin, JailTypeOK, Honest, Known, ReportIsComplete,
       Complete, Alive, worker, jailed
  <2> QED
    BY <2>1, <2>2, <2>3, <2>4 DEF JailIInv
<1> QED
  BY <1>1, <1>2 DEF Encoder

\* The child, and its death.
LEMMA WorkerStep ==
  ASSUME JailIInv, Worker \/ Detonated \/ Crash \/ DeadlinePasses
  PROVE  JailIInv'
<1>0. JailTypeOK /\ Flow /\ Honest /\ Known /\ ReportIsComplete
  BY DEF JailIInv
<1>1. CASE ReadChunk
  <2>1. JailTypeOK'
    BY <1>1, <1>0, Lengths, Counters
       DEF ReadChunk, JailTypeOK, Flow, Honest, Complete, Alive, encoder, jailed
  <2>2. Flow'
    BY <1>1, <1>0, Lengths, Counters DEF ReadChunk, Flow, Honest, Alive, encoder, jailed
  <2>3. Honest'
    BY <1>1, <1>0, Lengths, Counters DEF ReadChunk, JailTypeOK, Flow, Honest, Alive, encoder, jailed
  <2>4. Known' /\ ReportIsComplete'
    BY <1>1, <1>0, Lengths
       DEF ReadChunk, JailTypeOK, Honest, Known, ReportIsComplete, Complete, Alive, encoder, jailed
  <2> QED
    BY <2>1, <2>2, <2>3, <2>4 DEF JailIInv
<1>2. CASE ReadEOF
  <2>1. JailTypeOK'
    BY <1>2, <1>0, Lengths, Counters
       DEF ReadEOF, EOFAnswered, JailTypeOK, Flow, Honest, Complete, Alive, encoder, jailed
  <2>2. Flow'
    BY <1>2, <1>0, Lengths, Counters DEF ReadEOF, EOFAnswered, Flow, Honest, Alive, encoder, jailed
  <2>3. Honest'
    BY <1>2, <1>0, Lengths, Counters
       DEF ReadEOF, EOFAnswered, JailTypeOK, Flow, Honest, Alive, encoder, jailed
  <2>4. Known' /\ ReportIsComplete'
    BY <1>2, <1>0, Lengths
       DEF ReadEOF, EOFAnswered, JailTypeOK, Honest, Known, ReportIsComplete, Complete, Alive, encoder,
       jailed
  <2> QED
    BY <2>1, <2>2, <2>3, <2>4 DEF JailIInv
<1>3. CASE Detonated
  <2>1. JailTypeOK'
    BY <1>3, <1>0, Lengths, Counters
       DEF Detonated, JailTypeOK, Flow, Honest, Complete, Alive, encoder, jailed
  <2>2. Flow'
    BY <1>3, <1>0, Lengths, Counters DEF Detonated, Flow, Honest, Alive, encoder, jailed
  <2>3. Honest'
    BY <1>3, <1>0, Lengths, Counters DEF Detonated, JailTypeOK, Flow, Honest, Alive, encoder, jailed
  <2>4. Known' /\ ReportIsComplete'
    BY <1>3, <1>0, Lengths
       DEF Detonated, JailTypeOK, Honest, Known, ReportIsComplete, Complete, Alive, encoder, jailed
  <2> QED
    BY <2>1, <2>2, <2>3, <2>4 DEF JailIInv
<1>4. CASE AnswerChunk
  <2>1. JailTypeOK'
    BY <1>4, <1>0, Lengths, Counters
       DEF AnswerChunk, JailTypeOK, Flow, Honest, Complete, Alive, encoder, jailed
  <2>2. Flow'
    BY <1>4, <1>0, Lengths, Counters DEF AnswerChunk, Flow, Honest, Alive, encoder, jailed
  <2>3. Honest'
    BY <1>4, <1>0, Lengths, Counters DEF AnswerChunk, JailTypeOK, Flow, Honest, Alive, encoder, jailed
  <2>4. Known' /\ ReportIsComplete'
    BY <1>4, <1>0, Lengths
       DEF AnswerChunk, JailTypeOK, Honest, Known, ReportIsComplete, Complete, Alive, encoder, jailed
  <2> QED
    BY <2>1, <2>2, <2>3, <2>4 DEF JailIInv
<1>5. CASE Exit
  <2>1. JailTypeOK'
    BY <1>5, <1>0, Lengths, Counters DEF Exit, JailTypeOK, Flow, Honest, Complete, Alive, encoder, jailed
  <2>2. Flow'
    BY <1>5, <1>0, Lengths, Counters DEF Exit, Flow, Honest, Alive, encoder, jailed
  <2>3. Honest'
    BY <1>5, <1>0, Lengths, Counters DEF Exit, JailTypeOK, Flow, Honest, Alive, encoder, jailed
  <2>4. Known' /\ ReportIsComplete'
    BY <1>5, <1>0, Lengths
       DEF Exit, JailTypeOK, Honest, Known, ReportIsComplete, Complete, Alive, encoder, jailed
  <2> QED
    BY <2>1, <2>2, <2>3, <2>4 DEF JailIInv
<1>6. CASE Crash \/ DeadlinePasses
  <2>1. JailTypeOK'
    <3>1. expired' \in BOOLEAN
      BY <1>6, <1>0 DEF Crash, DeadlinePasses, JailTypeOK
    <3>2. child' \in {child, "dead"}
      BY <1>6 DEF Crash, DeadlinePasses, Kill
    <3> QED
      BY <1>6, <1>0, <3>1, <3>2, Lengths, Counters DEF Crash, DeadlinePasses, JailTypeOK, encoder, jailed
  <2>2. Flow'
    BY <1>6, <1>0, Lengths, Counters DEF Crash, DeadlinePasses, Kill, Flow, Honest, Alive, encoder, jailed
  <2>3. Honest'
    BY <1>6, <1>0, Lengths, Counters
       DEF Crash, DeadlinePasses, Kill, JailTypeOK, Flow, Honest, Alive, encoder, jailed
  <2>4. Known' /\ ReportIsComplete'
    BY <1>6, <1>0, Lengths
       DEF Crash, DeadlinePasses, Kill, JailTypeOK, Honest, Known, ReportIsComplete, Complete, Alive,
       encoder, jailed
  <2> QED
    BY <2>1, <2>2, <2>3, <2>4 DEF JailIInv
<1> QED
  BY <1>1, <1>2, <1>3, <1>4, <1>5, <1>6 DEF Worker

\* runJailed.
LEMMA ParentStep ==
  ASSUME JailIInv, Parent
  PROVE  JailIInv'
<1>0. JailTypeOK /\ Flow /\ Honest /\ Known /\ ReportIsComplete
  BY DEF JailIInv
<1>1. CASE Receive
  <2>1. JailTypeOK'
    BY <1>1, <1>0, Lengths, Counters DEF Receive, JailTypeOK, Flow, Honest, Complete, Alive, encoder, worker
  <2>2. Flow'
    BY <1>1, <1>0, Lengths, Counters DEF Receive, Flow, Honest, Alive, encoder, worker
  <2>3. Honest'
    BY <1>1, <1>0, Lengths, Counters DEF Receive, JailTypeOK, Flow, Honest, Alive, encoder, worker
  <2>4. Known' /\ ReportIsComplete'
    BY <1>1, <1>0, Lengths
       DEF Receive, JailTypeOK, Honest, Known, ReportIsComplete, Complete, Alive, encoder, worker
  <2> QED
    BY <2>1, <2>2, <2>3, <2>4 DEF JailIInv
<1>2. CASE DecodeDone \/ DecodeFails
  <2>1. JailTypeOK'
    BY <1>2, <1>0, Lengths, Counters
       DEF DecodeDone, DecodeFails, JailTypeOK, Flow, Honest, Complete, Alive, encoder, worker
  <2>2. Flow'
    BY <1>2, <1>0, Lengths, Counters DEF DecodeDone, DecodeFails, Flow, Honest, Alive, encoder, worker
  <2>3. Honest'
    BY <1>2, <1>0, Lengths, Counters
       DEF DecodeDone, DecodeFails, JailTypeOK, Flow, Honest, Alive, encoder, worker
  <2>4. Known' /\ ReportIsComplete'
    BY <1>2, <1>0, Lengths
       DEF DecodeDone, DecodeFails, JailTypeOK, Honest, Known, ReportIsComplete, Complete, Alive,
       encoder, worker
  <2> QED
    BY <2>1, <2>2, <2>3, <2>4 DEF JailIInv
<1>3. CASE ReapFailed \/ AskEncoder
  <2>1. JailTypeOK'
    BY <1>3, <1>0, Lengths, Counters
       DEF ReapFailed, AskEncoder, Gone, ReturnWith, JailTypeOK, Flow, Honest, Complete, Alive,
       encoder, worker
  <2>2. Flow'
    BY <1>3, <1>0, Lengths, Counters
       DEF ReapFailed, AskEncoder, Gone, ReturnWith, Flow, Honest, Alive, encoder, worker
  <2>3. Honest'
    BY <1>3, <1>0, Lengths, Counters
       DEF ReapFailed, AskEncoder, Gone, ReturnWith, JailTypeOK, Flow, Honest, Alive, encoder, worker
  <2>4. Known' /\ ReportIsComplete'
    BY <1>3, <1>0, Lengths
       DEF ReapFailed, AskEncoder, Gone, ReturnWith, JailTypeOK, Honest, Known, ReportIsComplete,
       Complete, Alive, encoder, worker
  <2> QED
    BY <2>1, <2>2, <2>3, <2>4 DEF JailIInv
<1>4. CASE Reap
  <2>1. JailTypeOK'
    BY <1>4, <1>0, Lengths, Counters
       DEF Reap, Gone, ReturnWith, Verdict, JailTypeOK, Flow, Honest, Complete, Alive, encoder, worker
  <2>2. Flow'
    BY <1>4, <1>0, Lengths, Counters
       DEF Reap, Gone, ReturnWith, Verdict, Flow, Honest, Alive, encoder, worker
  <2>3. Honest'
    BY <1>4, <1>0, Lengths, Counters
       DEF Reap, Gone, ReturnWith, Verdict, JailTypeOK, Flow, Honest, Alive, encoder, worker
  <2>4. Known' /\ ReportIsComplete'
    BY <1>4, <1>0, Lengths
       DEF Reap, Gone, ReturnWith, Verdict, JailTypeOK, Honest, Known, ReportIsComplete, Complete,
       Alive, encoder, worker
  <2> QED
    BY <2>1, <2>2, <2>3, <2>4 DEF JailIInv
<1> QED
  BY <1>1, <1>2, <1>3, <1>4 DEF Parent

LEMMA JailInductive == JailSpec => []JailIInv
<1>1. JailIInv /\ UNCHANGED jailVars => JailIInv'
  BY
     DEF jailVars, encoder, worker, jailed, JailIInv, JailTypeOK, Flow, Honest, Known,
     ReportIsComplete, Complete, Alive
<1>2. JailIInv /\ [JailNext]_jailVars => JailIInv'
  BY <1>1, EncoderStep, WorkerStep, ParentStep DEF JailNext, JailDone
<1> QED
  BY JailInitIInv, <1>2, PTL DEF JailSpec

\* Types: in particular no pipe holds more than its capacity, and neither side
\* takes more chunks from one than were put into it.
THEOREM JailTypesHold == JailSpec => []JailTypeOK
<1>1. JailIInv => JailTypeOK
  BY DEF JailIInv
<1> QED
  BY <1>1, JailInductive, PTL

\* A report is returned only for a request that was read whole and a child that
\* exited by itself.
THEOREM ReportsAreComplete == JailSpec => []ReportIsComplete
<1>1. JailIInv => ReportIsComplete
  BY DEF JailIInv
<1> QED
  BY <1>1, JailInductive, PTL

\* runJailed does not return before the child is gone.
THEOREM ChildrenAreReaped == JailSpec => []ChildIsReaped
<1>1. JailIInv => ChildIsReaped
  BY DEF JailIInv, Known, ChildIsReaped
<1> QED
  BY <1>1, JailInductive, PTL
=============================================================================
