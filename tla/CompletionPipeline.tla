-------------------------- MODULE CompletionPipeline ---------------------------
(***************************************************************************)
(* BaseGenerator.complete of giskard-agents: a chain of middlewares around *)
(* the call of the model.  The built-in ones are a retry, outermost, and a *)
(* rate limiter inside it, so that each attempt enters throttle anew.      *)
(*                                                                         *)
(* The requests of a batch are the tasks that share the limiter; the       *)
(* attempts of a request are its calls of throttle, and MaxCalls is the    *)
(* max_attempts of the policy.  A request that backs off between two       *)
(* attempts is idle as the limiter sees it.                                *)
(***************************************************************************)
EXTENDS RateLimiter

ASSUME AttemptsAssumption == MaxCalls > 0

VARIABLES answer,    \* what complete returned or raised to each request
          failures   \* history: attempts that failed at the model

pipelineVars == <<vars, answer, failures>>

Answers == {"none", "ok", "error", "cancelled"}

PipelineInit ==
    /\ Init
    /\ answer = [c \in Tasks |-> "none"]
    /\ failures = [c \in Tasks |-> 0]

Answered(c, a) == answer' = [answer EXCEPT ![c] = a]

(* The retry calls the rest of the chain, for the first time or again.      *)
Attempt(c) ==
    /\ answer[c] = "none"
    /\ Enter(c) \/ Wait(c)
    /\ UNCHANGED <<failures, answer>>

Throttled(c) ==
    /\ Proceed(c) \/ Wake(c)
    /\ UNCHANGED <<failures, answer>>

Succeed(c) ==
    /\ Finish(c)
    /\ Answered(c, "ok")
    /\ UNCHANGED failures

(* Fault: every failure is retried at once, inside the throttle. *)
RetryInside(c, retryable) ==
    /\ pc[c] = "running"
    /\ failures' = [failures EXCEPT ![c] = @ + 1]
    /\ IF retryable /\ calls[c] < MaxCalls
       THEN calls' = [calls EXCEPT ![c] = @ + 1] /\ lastStart' = clock /\ UNCHANGED answer
       ELSE Answered(c, "error") /\ UNCHANGED <<calls, lastStart>>
    /\ UNCHANGED <<clock, pc, nextTime, permits, queue, slot, lastSlot>>

(* The model raises.  The permit goes back before the retry decides: it     *)
(* gives up when the policy does not want this error or has no attempt      *)
(* left, and raises the error itself.                                       *)
Fail(c, retryable) ==
    /\ Finish(c)
    /\ failures' = [failures EXCEPT ![c] = @ + 1]
    /\ IF retryable /\ calls[c] < MaxCalls THEN UNCHANGED answer ELSE Answered(c, "error")

(* Fault: a cancellation counts as a failed attempt, and is retried. *)
RetryCancelled(c) ==
    /\ answer[c] = "none"
    /\ \/ Finish(c) \/ CancelSleep(c) \/ CancelWait(c)
       \/ pc[c] = "idle" /\ calls[c] > 0 /\ UNCHANGED vars
    /\ IF calls[c] < MaxCalls THEN UNCHANGED answer ELSE Answered(c, "cancelled")
    /\ UNCHANGED failures

(* Cancelled at the model, in the throttle or while backing off: that is    *)
(* never retried.                                                           *)
Cancel(c) ==
    /\ answer[c] = "none"
    /\ \/ Finish(c) \/ CancelSleep(c) \/ CancelWait(c)
       \/ pc[c] = "idle" /\ calls[c] > 0 /\ UNCHANGED vars
    /\ Answered(c, "cancelled")
    /\ UNCHANGED failures

TimePasses == Tick /\ UNCHANGED <<failures, answer>>

PipelineNext ==
    \/ TimePasses
    \/ \E c \in Tasks :
         \/ Attempt(c) \/ Throttled(c) \/ Succeed(c) \/ Cancel(c)
         \/ \E retryable \in BOOLEAN : Fail(c, retryable)

PipelineSpec == PipelineInit /\ [][PipelineNext]_pipelineVars

(* As for the limiter; besides, back-offs end and the model answers.        *)
PipelineFairSpec ==
    /\ PipelineSpec
    /\ WF_pipelineVars(TimePasses)
    /\ \A c \in Tasks :
         /\ WF_pipelineVars(Attempt(c)) /\ WF_pipelineVars(Throttled(c))
         /\ WF_pipelineVars(Succeed(c) \/ \E retryable \in BOOLEAN : Fail(c, retryable))

-----------------------------------------------------------------------------
(* Type invariant. *)
PipelineTypeOK ==
    /\ TypeOK
    /\ answer \in [Tasks -> Answers]
    /\ failures \in [Tasks -> Nat]

InProgress(c) == pc[c] # "idle"

(* The books of the retry balance, whoever is cancelled: every attempt but  *)
(* the one in progress, or the one that ended the request, failed at the    *)
(* model.  An attempt that never reached the model is not repeated, none is *)
(* made beyond the policy, and nobody holds a permit without an attempt.    *)
AttemptsAccounted ==
    \A c \in Tasks :
        /\ failures[c] <= calls[c] /\ calls[c] <= failures[c] + 1
        /\ answer[c] = "none" => (InProgress(c) <=> calls[c] = failures[c] + 1)
        /\ answer[c] = "ok" => calls[c] = failures[c] + 1
        /\ answer[c] = "error" => calls[c] = failures[c] /\ calls[c] > 0
        /\ answer[c] # "none" => ~InProgress(c)

(* Every request of a batch is answered in the end, though attempts fail    *)
(* and requests compete for permits in every round.                         *)
EveryRequestAnswered == \A c \in Tasks : <>(answer[c] # "none")
=============================================================================
