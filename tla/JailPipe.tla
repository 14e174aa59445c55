------------------------------ MODULE JailPipe ------------------------------
(* One jailed analysis: worker.go runJailed and runWorker.                    *)
(*                                                                            *)
(* The parent sends one request down a pipe from a goroutine of its own and   *)
(* reads one response from another pipe; the child reads, detonates and       *)
(* answers.  A message is a number of chunks and a pipe holds a few of them,  *)
(* so that either side can block.  The child may die at any point (it exists  *)
(* "for crash/OOM isolation"), the encoding of the request may fail, and a    *)
(* context kills the child once it has run for too long.                      *)
EXTENDS Naturals

CONSTANTS
    ReqLen,     \* chunks of the request
    RespLen,    \* chunks of a report
    ErrLen,     \* chunks of an error answer
    Capacity    \* chunks a pipe holds

ASSUME SizeAssumption ==
    /\ {ReqLen, RespLen, ErrLen, Capacity} \subseteq Nat \ {0}

VARIABLES
    sent, encErr, stdinOpen,    \* the encoder goroutine
    inPipe, outPipe,            \* chunks in transit
    child, got, answered,       \* the child, what it read and what it wrote
    answer,                     \* what it says
    expired,                    \* the context's deadline has passed
    parent, received,           \* runJailed, and the chunks it decoded
    outcome                     \* what it returns

encoder  == <<sent, encErr, stdinOpen>>
worker   == <<child, got, answered, answer>>
jailed   == <<parent, received, outcome>>
jailVars == <<encoder, inPipe, outPipe, worker, expired, jailed>>

AnswerLen == [none |-> 0, report |-> RespLen, error |-> ErrLen]

Alive == child \notin {"exited", "dead"}

JailInit ==
    /\ sent = 0 /\ encErr = "none" /\ stdinOpen = TRUE
    /\ inPipe = 0 /\ outPipe = 0
    /\ child = "reading" /\ got = 0 /\ answered = 0 /\ answer = "none"
    /\ expired = FALSE
    /\ parent = "decoding" /\ received = 0 /\ outcome = "none"

JailTypeOK ==
    /\ sent \in 0 .. ReqLen /\ encErr \in {"none", "nil", "encode", "write"}
    /\ stdinOpen \in BOOLEAN /\ expired \in BOOLEAN
    /\ inPipe \in 0 .. Capacity /\ outPipe \in 0 .. Capacity
    /\ child \in {"reading", "detonating", "answering", "exited", "dead"}
    /\ got \in 0 .. ReqLen /\ answered \in 0 .. RespLen + ErrLen
    /\ answer \in {"none", "report", "error"}
    /\ parent \in {"decoding", "failed", "reaping", "asking", "returned"}
    /\ received \in 0 .. RespLen + ErrLen
    /\ outcome \in {"none", "report", "childError", "timeout", "exitStatus",
                    "requestError", "decodeError"}

-----------------------------------------------------------------------------
(* The encoder goroutine: enc.Encode, encErr <- err, stdin.Close().           *)

RoomIn == inPipe < Capacity

SendChunk ==
    /\ encErr = "none" /\ sent < ReqLen
    /\ Alive /\ RoomIn
    /\ sent' = sent + 1
    /\ inPipe' = inPipe + 1
    /\ UNCHANGED <<encErr, stdinOpen, outPipe, worker, expired, jailed>>

(* The request cannot be encoded; what was written stays written.             *)
EncodeFails ==
    /\ encErr = "none" /\ sent < ReqLen
    /\ encErr' = "encode"
    /\ UNCHANGED <<sent, stdinOpen, inPipe, outPipe, worker, expired, jailed>>

(* Nobody reads the pipe any more.                                            *)
WriteFails ==
    /\ encErr = "none" /\ sent < ReqLen
    /\ ~Alive
    /\ encErr' = "write"
    /\ UNCHANGED <<sent, stdinOpen, inPipe, outPipe, worker, expired, jailed>>

Encoded ==
    /\ encErr = "none" /\ sent = ReqLen
    /\ encErr' = "nil"
    /\ UNCHANGED <<sent, stdinOpen, inPipe, outPipe, worker, expired, jailed>>

(* The error is buffered before the pipe is closed.                           *)
\* Variant: the pipe is closed only after a request that went out whole.
CloseAfterSuccess ==
    /\ encErr = "nil" /\ stdinOpen
    /\ stdinOpen' = FALSE
    /\ UNCHANGED <<sent, encErr, inPipe, outPipe, worker, expired, jailed>>
CloseStdin ==
    /\ encErr # "none" /\ stdinOpen
    /\ stdinOpen' = FALSE
    /\ UNCHANGED <<sent, encErr, inPipe, outPipe, worker, expired, jailed>>

Encoder == SendChunk \/ WriteFails \/ Encoded \/ CloseStdin

-----------------------------------------------------------------------------
(* The child.                                                                 *)

ReadChunk ==
    /\ child = "reading" /\ inPipe > 0
    /\ inPipe' = inPipe - 1
    /\ got' = got + 1
    /\ child' = IF got' = ReqLen THEN "detonating" ELSE child
    /\ UNCHANGED <<encoder, outPipe, answered, answer, expired, jailed>>

(* The request ends too early: answer with the error of the decoder.          *)
\* Variant: a truncated request is detonated as far as it goes.
EOFTolerated ==
    /\ child' = "answering"
    /\ answer' = "report"
EOFAnswered ==
    /\ child' = "answering"
    /\ answer' = "error"

ReadEOF ==
    /\ child = "reading" /\ inPipe = 0 /\ ~stdinOpen
    /\ EOFAnswered
    /\ UNCHANGED <<encoder, inPipe, outPipe, got, answered, expired, jailed>>

(* The detonation ends, if it does.                                           *)
Detonated ==
    /\ child = "detonating"
    /\ child' = "answering"
    /\ answer' = "report"
    /\ UNCHANGED <<encoder, inPipe, outPipe, got, answered, expired, jailed>>

AnswerChunk ==
    /\ child = "answering" /\ answered < AnswerLen[answer]
    /\ outPipe < Capacity
    /\ answered' = answered + 1
    /\ outPipe' = outPipe + 1
    /\ UNCHANGED <<encoder, inPipe, child, got, answer, expired, jailed>>

Exit ==
    /\ child = "answering" /\ answered = AnswerLen[answer]
    /\ child' = "exited"
    /\ UNCHANGED <<encoder, inPipe, outPipe, got, answered, answer, expired, jailed>>

(* The child crashes or runs out of memory.                                   *)
Crash ==
    /\ Alive
    /\ child' = "dead"
    /\ UNCHANGED <<encoder, inPipe, outPipe, got, answered, answer, expired, jailed>>

Worker == ReadChunk \/ ReadEOF \/ AnswerChunk \/ Exit

(* The deadline passes: a child that is still there is killed.                *)
\* Variant: the context is not the command's.
Spare == child' = child
Kill == child' = IF Alive THEN "dead" ELSE child

DeadlinePasses ==
    /\ parent # "returned" /\ ~expired
    /\ expired' = TRUE
    /\ Kill
    /\ UNCHANGED <<encoder, inPipe, outPipe, got, answered, answer, jailed>>

-----------------------------------------------------------------------------
(* runJailed after cmd.Start.                                                 *)

Complete == answer # "none" /\ received = AnswerLen[answer]

Receive ==
    /\ parent = "decoding" /\ outPipe > 0
    /\ outPipe' = outPipe - 1
    /\ received' = received + 1
    /\ UNCHANGED <<encoder, inPipe, worker, expired, parent, outcome>>

DecodeDone ==
    /\ parent = "decoding" /\ Complete
    /\ parent' = "reaping"
    /\ UNCHANGED <<encoder, inPipe, outPipe, worker, expired, received, outcome>>

(* The pipe is closed at its other end before the answer is complete.         *)
DecodeFails ==
    /\ parent = "decoding" /\ ~Complete
    /\ outPipe = 0 /\ ~Alive
    /\ parent' = "failed"
    /\ UNCHANGED <<encoder, inPipe, outPipe, worker, expired, received, outcome>>

(* What cmd.Wait waits for.                                                   *)
\* Variant: the child is not waited for.
Unwaited == TRUE
Gone == ~Alive

ReturnWith(result) == parent' = "returned" /\ outcome' = result

(* cmd.Wait after a decode error, then ctx.Err.                               *)
ReapFailed ==
    /\ parent = "failed" /\ Gone
    /\ IF expired THEN ReturnWith("timeout")
                  ELSE parent' = "asking" /\ outcome' = outcome
    /\ UNCHANGED <<encoder, inPipe, outPipe, worker, expired, received>>

(* <-encErr: prefer the cause.                                                *)
AskEncoder ==
    /\ parent = "asking" /\ encErr # "none"
    /\ ReturnWith(IF encErr = "nil" THEN "decodeError" ELSE "requestError")
    /\ UNCHANGED <<encoder, inPipe, outPipe, worker, expired, received>>

(* cmd.Wait after a complete answer, then resp.Err.                           *)
Verdict == IF child = "dead" THEN (IF expired THEN "timeout" ELSE "exitStatus")
           ELSE IF answer = "error" THEN "childError" ELSE "report"

Reap ==
    /\ parent = "reaping" /\ Gone
    /\ ReturnWith(Verdict)
    /\ UNCHANGED <<encoder, inPipe, outPipe, worker, expired, received>>

Parent == Receive \/ DecodeDone \/ DecodeFails \/ ReapFailed \/ AskEncoder \/ Reap

-----------------------------------------------------------------------------
JailDone == parent = "returned" /\ UNCHANGED jailVars

JailNext == Encoder \/ EncodeFails \/ Worker \/ Detonated \/ Crash \/ DeadlinePasses \/ Parent \/ JailDone

JailSpec == JailInit /\ [][JailNext]_jailVars

(* The goroutines run and time passes.  Nothing obliges the detonation to     *)
(* end, the child to crash or the encoding to fail.                           *)
FairJailSpec ==
    /\ JailSpec
    /\ WF_jailVars(Encoder)
    /\ WF_jailVars(Worker)
    /\ WF_jailVars(Parent)
    /\ WF_jailVars(DeadlinePasses)

-----------------------------------------------------------------------------
(* What should hold.                                                          *)

(* A report is returned only for a request the child read to its end and      *)
(* detonated, and only once the child is gone and said so itself.             *)
ReportIsComplete ==
    outcome = "report" => got = ReqLen /\ answer = "report" /\ received = RespLen
                            /\ child = "exited"

(* The call does not return while the child runs.                             *)
ChildIsReaped == parent = "returned" => ~Alive

(* Blocked writers, a hanging detonation or a crash: the call returns.        *)
Returns == <>(parent = "returned")

(* The encoder does not outlive the call for ever.                            *)
EncoderEnds == <>(encErr # "none" /\ ~stdinOpen)

(* Whatever blocks, hangs, crashes or fails to encode, runJailed returns and  *)
(* leaves no goroutine behind (worker.go:62-100).                             *)
BothEnd == Returns /\ EncoderEnds
=============================================================================
