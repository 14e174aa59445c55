------------------------------- MODULE VMGuard -------------------------------
(* The deadlines of one sandboxed run (internal/sandbox/runtime.go and        *)
(* explore.go).                                                               *)
(*                                                                            *)
(* One goroutine drives a goja virtual machine.  The only way to stop it is   *)
(* Interrupt, a flag which the interpreter tests before every instruction.    *)
(* Two kinds of timer set the flag, each from a goroutine of its own: one per *)
(* guarded call (Config.Timeout) and one for the whole run                    *)
(* (Config.TotalBudget), which first sets `aborted`.  Nobody but the          *)
(* interpreter's own goroutine clears it: after a guarded call unless the run *)
(* is aborted, and inside goja whenever an interrupt empties its call stack.  *)
(*                                                                            *)
(* A call made while another one runs (a callback, an emitted event, a        *)
(* required module) is a frame above it.  The flag has no owner: whoever      *)
(* clears it clears what any timer has set.                                   *)
EXTENDS Naturals, Sequences, SequencesExt

CONSTANTS
    MaxCalls,   \* bound: number of calls into the virtual machine in one run
    MaxDepth,   \* Config.MaxCallStack: how deep they nest
    Kinds       \* which ways into the virtual machine the run uses

(* guarded    safeCall and runProgram: refused once aborted, own timer        *)
(* pump       pumpMicrotasks: refused once aborted, no timer                  *)
(* construct  tryConstruct: never refused, own timer, clears unconditionally  *)
(* get        safeGet, safeKeys, safeOwnNames, safeToObject: a getter or a    *)
(*            proxy trap of the sample, never refused, no timer               *)
AllKinds == {"guarded", "pump", "construct", "get"}

ASSUME CallsAssumption == MaxCalls \in Nat /\ MaxDepth \in Nat
ASSUME KindsAssumption == Kinds \subseteq AllKinds

VARIABLES
    aborted,    \* Runtime.aborted
    flag,       \* vm.interrupted
    budget,     \* Runtime.budgetTmr
    timer,      \* the timer of every call
    stack,      \* the calls in progress, the innermost last
    calls,      \* how many calls were made
    raced       \* history: the budget struck between the test and the clear of
                \* a nested call

vars == <<aborted, flag, budget, timer, stack, calls, raced>>

Calls  == 1 .. MaxCalls

Phases == {"running", "returned", "clearing", "closing"}
Frame  == [id : Calls, kind : AllKinds, phase : Phases]

Timed(kind)   == kind \in {"guarded", "construct"}
Refusing(kind) == kind \in {"guarded", "pump"}
Nestable(kind) == kind \in {"guarded", "get"}

Top       == stack[Len(stack)]
Running   == stack # <<>> /\ Top.phase = "running"
OnStack(i) == \E n \in 1 .. Len(stack) : stack[n].id = i
Move(phase) == [stack EXCEPT ![Len(stack)].phase = phase]

TypeOK ==
    /\ aborted \in BOOLEAN
    /\ flag \in BOOLEAN
    /\ budget \in {"armed", "firing", "fired", "stopped"}
    /\ timer \in [Calls -> {"idle", "armed", "firing", "fired", "stopped"}]
    /\ stack \in Seq(Frame)
    /\ Len(stack) <= MaxDepth
    /\ calls \in 0 .. MaxCalls
    /\ raced \in BOOLEAN

Init ==
    /\ aborted = FALSE
    /\ flag = FALSE
    /\ budget = "armed"
    /\ timer = [i \in Calls |-> "idle"]
    /\ stack = <<>>
    /\ calls = 0
    /\ raced = FALSE

-----------------------------------------------------------------------------
(* The interpreter's goroutine.                                               *)

(* Config.MaxCallStack bounds the nesting.                                    *)
Room == Len(stack) < MaxDepth

(* A call into the virtual machine, from the host or from a hook the running  *)
(* code reached.  The two guarded kinds are refused once the run is aborted.  *)
\* Variant: no abort test at the head of a call.
NeverRefused(kind) == FALSE
Refused(kind) == Refusing(kind) /\ aborted

Call(kind) ==
    /\ calls < MaxCalls
    /\ Room
    /\ stack # <<>> => Running /\ Nestable(kind)
    /\ budget # "stopped"
    /\ ~Refused(kind)
    /\ calls' = calls + 1
    /\ stack' = Append(stack, [id |-> calls + 1, kind |-> kind, phase |-> "running"])
    /\ timer' = IF Timed(kind) THEN [timer EXCEPT ![calls + 1] = "armed"] ELSE timer
    /\ UNCHANGED <<aborted, flag, budget, raced>>

(* The call ends by itself: the flag was clear at its last instruction.  A    *)
(* pump and a read have nothing to do afterwards.                             *)
Left == IF Timed(Top.kind) THEN Move("returned") ELSE Front(stack)

Return ==
    /\ Running
    /\ stack' = Left
    /\ UNCHANGED <<aborted, flag, budget, timer, calls, raced>>

(* The interpreter finds the flag set and unwinds the innermost call.  goja   *)
(* clears the flag only when its own call stack is empty and the call was     *)
(* made through Callable, Constructor or RunProgram.  The code under analysis *)
(* cannot catch the interrupt.                                                *)
\* Variant: a try statement of the sample catches it.
Caught == stack
Unwound == Left

ClearedByUnwind == Len(stack) = 1 /\ Top.kind # "get"

Unwind ==
    /\ Running
    /\ flag
    /\ flag' = ~ClearedByUnwind
    /\ stack' = Unwound
    /\ UNCHANGED <<aborted, budget, timer, calls, raced>>

(* if !r.stopped() in safeCall and runProgram; tryConstruct does not ask.     *)
\* Variant: no abort test before the flag is cleared.
ClearsAlways == TRUE
MayClear == Top.kind = "construct" \/ ~aborted

Check ==
    /\ stack # <<>>
    /\ Top.phase = "returned"
    /\ stack' = Move(IF MayClear THEN "clearing" ELSE "closing")
    /\ UNCHANGED <<aborted, flag, budget, timer, calls, raced>>

ClearInterrupt ==
    /\ stack # <<>>
    /\ Top.phase = "clearing"
    /\ flag' = FALSE
    /\ stack' = Move("closing")
    /\ UNCHANGED <<aborted, budget, timer, calls, raced>>

(* The deferred timer.Stop.  It does not wait for a timer that has fired      *)
(* already, whose Interrupt may still be on its way.                          *)
StopTimer ==
    /\ stack # <<>>
    /\ Top.phase = "closing"
    /\ timer' = [timer EXCEPT ![Top.id] = IF @ = "armed" THEN "stopped" ELSE @]
    /\ stack' = Front(stack)
    /\ UNCHANGED <<aborted, flag, budget, calls, raced>>

(* Runtime.Close, when the run is over: nothing is called after it.  It       *)
(* changes nothing once the budget has struck.                                *)
Close ==
    /\ stack = <<>>
    /\ budget = "armed"
    /\ budget' = "stopped"
    /\ UNCHANGED <<aborted, flag, timer, stack, calls, raced>>

-----------------------------------------------------------------------------
(* The timers' goroutines.                                                    *)

(* All calls have the same timeout, so timers expire in the order in which    *)
(* they were armed.                                                           *)
Expire(i) ==
    /\ timer[i] = "armed"
    /\ \A j \in Calls : timer[j] = "armed" => i <= j
    /\ timer' = [timer EXCEPT ![i] = "firing"]
    /\ UNCHANGED <<aborted, flag, budget, stack, calls, raced>>

(* vm.Interrupt("timeout exceeded")                                           *)
Deliver(i) ==
    /\ timer[i] = "firing"
    /\ timer' = [timer EXCEPT ![i] = "fired"]
    /\ flag' = TRUE
    /\ UNCHANGED <<aborted, budget, stack, calls, raced>>

(* r.aborted.Store(true)                                                      *)
Abort ==
    /\ budget = "armed"
    /\ budget' = "firing"
    /\ aborted' = TRUE
    /\ UNCHANGED <<flag, timer, stack, calls, raced>>

(* r.vm.Interrupt("total analysis budget exceeded").  A nested call between   *)
(* its test of `aborted` and its ClearInterrupt is about to wipe it.          *)
NestedClearing == \E n \in 2 .. Len(stack) : stack[n].phase = "clearing"

DeliverBudget ==
    /\ budget = "firing"
    /\ budget' = "fired"
    /\ flag' = TRUE
    /\ raced' = (raced \/ NestedClearing)
    /\ UNCHANGED <<aborted, timer, stack, calls>>

-----------------------------------------------------------------------------
(* Nothing is left to do; a timer may still be on its way.                    *)
Over == stack = <<>> /\ (calls = MaxCalls \/ budget # "armed")

Done == Over /\ UNCHANGED vars

Next ==
    \/ \E kind \in Kinds : Call(kind)
    \/ Return
    \/ Unwind
    \/ Check
    \/ ClearInterrupt
    \/ StopTimer
    \/ Close
    \/ \E i \in Calls : Expire(i) \/ Deliver(i)
    \/ Abort
    \/ DeliverBudget
    \/ Done

Spec == Init /\ [][Next]_vars

(* The host's own steps and the timers are not delayed for ever.  The code    *)
(* under analysis is under no obligation: Call and Return have no fairness.   *)
Fairness ==
    /\ WF_vars(Unwind)
    /\ WF_vars(Check)
    /\ WF_vars(ClearInterrupt)
    /\ WF_vars(StopTimer)
    /\ \A i \in Calls : WF_vars(Expire(i)) /\ WF_vars(Deliver(i))
    /\ WF_vars(Abort)
    /\ WF_vars(DeliverBudget)

FairSpec == Spec /\ Fairness

-----------------------------------------------------------------------------
(* What should hold.                                                          *)

(* Once the budget has struck, a call that goes through the abort test runs   *)
(* only with the interrupt pending, so that its next instruction ends it -    *)
(* unless a nested call had already passed its own test (raced).              *)
BudgetHolds ==
    budget = "fired" /\ ~raced =>
        \A n \in 1 .. Len(stack) :
            stack[n].phase = "running" /\ Refusing(stack[n].kind) => flag

(* The same without the exception.  It is false.                              *)
BudgetAlwaysHolds ==
    budget = "fired" =>
        \A n \in 1 .. Len(stack) :
            stack[n].phase = "running" /\ Refusing(stack[n].kind) => flag

(* "wall-clock budget for each entry point / callback": a call whose own      *)
(* timer has struck runs only with the interrupt pending, as long as it has   *)
(* made no call of its own.                                                   *)
TimeoutHolds ==
    Running /\ Top.id = calls /\ timer[Top.id] = "fired" => flag

(* The same of calls that made others, whose end clears the flag, whoever set *)
(* it.  It is false.                                                          *)
TimeoutAlwaysHolds ==
    \A n \in 1 .. Len(stack) :
        stack[n].phase = "running" /\ timer[stack[n].id] = "fired" => flag

(* Whatever the code under analysis does, every call ends: its timer or the   *)
(* budget gets it, even when the timer was lost to a nested call.  Excepted   *)
(* are a budget lost to a nested call (raced) and getters that the host reads *)
(* outside any call.                                                          *)
HostReads == stack # <<>> /\ stack[1].kind = "get"

GuardedCallsReturn ==
    \A i \in Calls : OnStack(i) ~> (~OnStack(i) \/ raced \/ HostReads)

(* The same of getters too, where calls do not nest.  It is false.            *)
EntryReturns == \A i \in Calls : OnStack(i) ~> ~OnStack(i)

=============================================================================
