----------------------- MODULE CompletionPipeline_proofs -----------------------
(***************************************************************************)
(* First the limiter, for every set of tasks, every interval, every number *)
(* of permits and every lateness; the semaphore's part is cited from       *)
(* AsyncSemaphore_proofs, one lemma for each operation.  Then the pipeline *)
(* uses the limiter as RateLimiter says it may be used, so all that is     *)
(* proved of the limiter holds in the pipeline; and the books of the retry *)
(* balance, for any number of requests and attempts.                       *)
(***************************************************************************)
EXTENDS CompletionPipeline, AsyncSemaphore_proofs

USE IntervalAssumption, LatenessAssumption, BoundsAssumption

(* The positions of the throttle, as the semaphore sees them. *)
LEMMA ThrottlePositions ==
    /\ Outside("idle") /\ "sleeping" \in Inside /\ "running" \in Inside
    /\ AfterReserve \in Inside
BY DEF Outside, Inside, Holding, AfterReserve

(* The semaphore's invariant, and the types of what the throttle keeps.     *)
Control == TypeOK /\ SemInv

LEMMA InitControl == Init => Control
<1> SUFFICES ASSUME Init PROVE Control
  OBVIOUS
<1>1. SemInv
  <2>1. SemInit /\ pc = [c \in Tasks |-> pc[c]] /\ \A c \in Tasks : Outside(pc[c])
    BY ThrottlePositions DEF Init
  <2> QED
    BY <2>1, SemInvInit, MaxPermitsAssumption
<1>2. TypeOK
  BY <1>1, MaxPermitsAssumption DEF Init, TypeOK, Positions, SemInv, Lists
<1> QED
  BY <1>1, <1>2 DEF Control

LEMMA ReserveType ==
    ASSUME TypeOK, NEW c \in Tasks, Reserve(c)
    PROVE  /\ slot' \in [Tasks -> Nat]
           /\ nextTime' \in Nat
           /\ lastStart' \in Int /\ lastSlot' \in Int
BY DEF TypeOK, Reserve, Due

(* Where one step may leave a task, given where it leaves its own.          *)
LEMMA MovesType ==
    ASSUME Control, NEW c \in Tasks, NEW p \in Positions, SemInv',
           Resume(c, p) \/ Release(c, p) \/ Withdraw(c, p)
    PROVE  pc' \in [Tasks -> Positions]
<1>1. pc' = [d \in Tasks |-> pc'[d]]
  BY DEF SemInv, Lists
<1>2. \A d \in Tasks : pc'[d] = "granted" \/ pc'[d] = IF d = c THEN p ELSE pc[d]
  BY SemMoves DEF Control
<1>3. \A d \in Tasks : pc'[d] \in Positions
  BY <1>2 DEF Control, TypeOK, Positions
<1> QED
  BY <1>1, <1>3

LEMMA NextControl == Control /\ [Next]_vars => Control'
<1> SUFFICES ASSUME Control, [Next]_vars PROVE Control'
  OBVIOUS
<1>0. TypeOK /\ SemInv
  BY DEF Control
<1>a. ASSUME SemInv', pc' \in [Tasks -> Positions], clock' \in Nat, nextTime' \in Nat,
             slot' \in [Tasks -> Nat], calls' \in [Tasks -> Nat],
             lastStart' \in Int, lastSlot' \in Int
      PROVE  Control'
  BY <1>a DEF Control, TypeOK, SemInv, Lists
<1>1. CASE Tick
  <2>1. SemInv'
    BY <1>0, <1>1, SemInvStutter DEF Tick
  <2> QED
    BY <1>0, <1>1, <1>a, <2>1 DEF Tick, TypeOK
<1>2. ASSUME NEW c \in Tasks, Enter(c) PROVE Control'
  <2>1. pc[c] = "idle" /\ Acquire(c, AfterReserve) /\ Reserve(c)
    BY <1>2 DEF Enter
  <2>2. SemInv'
    BY <1>0, <2>1, ThrottlePositions, AcquireSemInv
  <2>3. pc' \in [Tasks -> Positions]
    BY <1>0, <2>1 DEF Acquire, AfterReserve, TypeOK, Positions
  <2>4. calls' \in [Tasks -> Nat] /\ clock' \in Nat
    BY <1>0, <1>2 DEF Enter, TypeOK
  <2> QED
    BY <1>0, <1>a, <2>1, <2>2, <2>3, <2>4, ReserveType
<1>3. ASSUME NEW c \in Tasks, Wait(c) PROVE Control'
  <2>1. pc[c] = "idle" /\ Enqueue(c)
    BY <1>3 DEF Wait
  <2>2. SemInv'
    BY <1>0, <2>1, ThrottlePositions, EnqueueSemInv
  <2>3. pc' \in [Tasks -> Positions]
    BY <1>0, <2>1 DEF Enqueue, TypeOK, Positions
  <2>4. calls' \in [Tasks -> Nat]
    BY <1>0, <1>3 DEF Wait, TypeOK
  <2> QED
    BY <1>0, <1>3, <1>a, <2>2, <2>3, <2>4 DEF Wait, TypeOK
<1>4. ASSUME NEW c \in Tasks, Proceed(c) PROVE Control'
  <2>1. Resume(c, AfterReserve) /\ Reserve(c) /\ AfterReserve \in Positions
    BY <1>4 DEF Proceed, AfterReserve, Positions
  <2>2. SemInv'
    BY <1>0, <2>1, ThrottlePositions, ResumeSemInv
  <2>3. pc' \in [Tasks -> Positions]
    BY <2>1, <2>2, MovesType
  <2>4. calls' \in [Tasks -> Nat] /\ clock' \in Nat
    BY <1>0, <1>4 DEF Proceed, TypeOK
  <2> QED
    BY <1>0, <1>a, <2>1, <2>2, <2>3, <2>4, ReserveType
<1>5. ASSUME NEW c \in Tasks, Wake(c) PROVE Control'
  <2>1. pc[c] \in Inside /\ pc' = [pc EXCEPT ![c] = "running"] /\ UNCHANGED <<permits, queue>>
    BY <1>5, ThrottlePositions DEF Wake
  <2>2. SemInv'
    BY <1>0, <2>1, ThrottlePositions, MoveSemInv
  <2>3. pc' \in [Tasks -> Positions]
    BY <1>0, <2>1 DEF TypeOK, Positions
  <2> QED
    BY <1>0, <1>5, <1>a, <2>2, <2>3 DEF Wake, TypeOK
<1>6. ASSUME NEW c \in Tasks, Finish(c) \/ CancelSleep(c) \/ CancelWait(c) PROVE Control'
  <2>1. \/ Release(c, "idle") /\ pc[c] \in Inside
        \/ Withdraw(c, "idle")
    BY <1>6, ThrottlePositions DEF Finish, CancelSleep, CancelWait
  <2>2. SemInv'
    BY <1>0, <2>1, ThrottlePositions, ReleaseSemInv, WithdrawSemInv
  <2>3. pc' \in [Tasks -> Positions]
    BY <2>1, <2>2, MovesType DEF Positions
  <2> QED
    BY <1>0, <1>6, <1>a, <2>2, <2>3 DEF Finish, CancelSleep, CancelWait, TypeOK
<1>7. CASE UNCHANGED vars
  <2>1. SemInv'
    BY <1>0, <1>7, SemInvStutter DEF vars
  <2> QED
    BY <1>0, <1>7, <1>a, <2>1 DEF vars, TypeOK
<1> QED
  BY <1>1, <1>2, <1>3, <1>4, <1>5, <1>6, <1>7 DEF Next

(* The types of the throttle's state hold in every reachable state. *)
THEOREM TypeCorrect == Spec => []TypeOK
<1>1. Control => TypeOK
  BY DEF Control
<1> QED
  BY InitControl, NextControl, <1>1, PTL DEF Spec

(* The semaphore's queue lists exactly the callers that wait, each once, in *)
(* spite of cancellations in the middle of it.                              *)
THEOREM QueueCorrect == Spec => []QueueIsWaiting
<1>1. Control => QueueIsWaiting
  BY SemInvQueue DEF Control
<1> QED
  BY InitControl, NextControl, <1>1, PTL DEF Spec

(* No permit is lost or minted, wherever a caller is cancelled. *)
THEOREM PermitsAreConserved == Spec => []PermitsConserved
<1>1. Control => PermitsConserved
  BY DEF Control, SemInv
<1> QED
  BY InitControl, NextControl, <1>1, PTL DEF Spec

(* A caller never queues for a free permit that nobody will hand on.        *)
THEOREM WakeupsAreNotLost == Spec => []NoLostWakeup
<1>1. Control => NoLostWakeup
  BY DEF Control, SemInv
<1> QED
  BY InitControl, NextControl, <1>1, PTL DEF Spec

-----------------------------------------------------------------------------
(* Pacing.  SlotsApart is inductive with StartOnSlot: a late sleeper that   *)
(* starts after the owner of a later slot needs the bound on lateness.      *)
Pacing == Control /\ SlotsApart /\ StartOnSlot

LEMMA InitPacing == Init => Pacing
BY InitControl DEF Init, Pacing, SlotsApart, StartOnSlot, At

(* Whoever sleeps or starts after the caller c has reserved its slot.       *)
LEMMA ReservePacing ==
    ASSUME Pacing, NEW c \in Tasks, Reserve(c), clock' = clock, Control',
           \A d \in Tasks : pc'[d] = "sleeping" =>
               \/ d # c /\ pc[d] = "sleeping"
               \/ d = c /\ nextTime > clock
    PROVE  (SlotsApart /\ StartOnSlot)'
<1> USE DEF Pacing, Control, TypeOK
<1>1. CASE nextTime > clock
  <2>1. /\ slot' = [slot EXCEPT ![c] = nextTime] /\ nextTime' = nextTime + Interval
        /\ lastStart' = lastStart /\ lastSlot' = lastSlot
    BY <1>1 DEF Reserve, Due
  <2>2. SlotsApart'
    BY SMTT(30), <1>1, <2>1 DEF SlotsApart, Apart, At
  <2>3. StartOnSlot'
    BY <1>1, <2>1 DEF StartOnSlot, At
  <2> QED
    BY <2>2, <2>3
<1>2. CASE ~(nextTime > clock)
  <2>1. /\ slot' = [slot EXCEPT ![c] = clock] /\ nextTime' = clock + Interval
        /\ lastStart' = clock /\ lastSlot' = clock
    BY <1>2 DEF Reserve, Due
  <2>2. \A d \in Tasks : pc'[d] = "sleeping" =>
            /\ pc[d] = "sleeping" /\ slot'[d] = slot[d]
            /\ slot[d] \in Nat /\ slot[d] + Interval <= nextTime
    BY <1>2, <2>1 DEF SlotsApart, At
  <2>3. \A d \in Tasks : pc'[d] = "sleeping" => slot[d] + Interval <= clock
    BY SMTT(30), <1>2, <2>2
  <2>4. SlotsApart'
    BY SMTT(30), <1>2, <2>1, <2>2, <2>3 DEF SlotsApart, Apart, At
  <2>5. StartOnSlot'
    BY <1>2, <2>1 DEF StartOnSlot, At
  <2> QED
    BY <2>4, <2>5
<1> QED
  BY <1>1, <1>2

(* Steps that change neither slots nor clock and put nobody to sleep.       *)
LEMMA QuietPacing ==
    ASSUME Pacing, UNCHANGED <<clock, nextTime, slot, lastStart, lastSlot>>,
           \A d \in Tasks : pc'[d] = "sleeping" => pc[d] = "sleeping"
    PROVE  (SlotsApart /\ StartOnSlot)'
BY DEF Pacing, SlotsApart, StartOnSlot, At

(* What one step does to sleepers and starts: the heart of both proofs.     *)
LEMMA StepPacing ==
    ASSUME Pacing, [Next]_vars
    PROVE  /\ Pacing'
           /\ \A d \in Tasks : Starts(d) => clock - lastStart >= Interval - Lateness
<1> DEFINE Paced == \A d \in Tasks : Starts(d) => clock - lastStart >= Interval - Lateness
<1>0. Control' /\ Control /\ TypeOK /\ TypeOK'
  BY NextControl DEF Pacing, Control
<1> SUFFICES (SlotsApart /\ StartOnSlot)' /\ Paced
  BY <1>0 DEF Pacing
<1>a. nextTime - lastStart >= Interval - Lateness
  BY <1>0 DEF Pacing, SlotsApart, StartOnSlot, TypeOK
<1>1. CASE Tick
  <2>1. Paced
    BY <1>1 DEF Tick, Starts
  <2>2. (SlotsApart /\ StartOnSlot)'
    BY <1>0, <1>1 DEF Tick, Pacing, SlotsApart, StartOnSlot, At, TypeOK
  <2> QED
    BY <2>1, <2>2
<1>2. ASSUME NEW c \in Tasks, Enter(c) PROVE (SlotsApart /\ StartOnSlot)' /\ Paced
  <2>1. pc' = [pc EXCEPT ![c] = AfterReserve] /\ Reserve(c) /\ clock' = clock
    BY <1>2 DEF Enter, Acquire
  <2>2. Paced
    BY SMTT(30), <1>0, <1>a, <2>1 DEF Starts, AfterReserve, TypeOK
  <2> QED
    BY <1>0, <2>1, <2>2, ReservePacing DEF AfterReserve, TypeOK
<1>3. ASSUME NEW c \in Tasks, Wait(c) PROVE (SlotsApart /\ StartOnSlot)' /\ Paced
  BY <1>0, <1>3, QuietPacing DEF Wait, Enqueue, Starts, TypeOK
<1>4. ASSUME NEW c \in Tasks, Proceed(c) PROVE (SlotsApart /\ StartOnSlot)' /\ Paced
  <2>1. Reserve(c) /\ clock' = clock /\ Resume(c, AfterReserve) /\ pc[c] = "granted"
    BY <1>4 DEF Proceed, Resume
  <2>2. \A d \in Tasks : pc'[d] = "granted" \/ pc'[d] = IF d = c THEN AfterReserve ELSE pc[d]
    BY <1>0, <2>1, SemMoves DEF Control
  <2>3. \A d \in Tasks : Starts(d) => AfterReserve = "running"
    BY <2>2 DEF Starts
  <2>4. AfterReserve = "running" => ~(nextTime > clock)
    BY DEF AfterReserve
  <2>5. ~(nextTime > clock) => clock - lastStart >= Interval - Lateness
    BY <1>0, <1>a DEF TypeOK
  <2>6. Paced
    BY <2>3, <2>4, <2>5
  <2> QED
    BY <1>0, <2>1, <2>2, <2>6, ReservePacing DEF AfterReserve
<1>5. ASSUME NEW c \in Tasks, Wake(c) PROVE (SlotsApart /\ StartOnSlot)' /\ Paced
  <2>1. /\ pc[c] = "sleeping" /\ clock >= slot[c] /\ pc' = [pc EXCEPT ![c] = "running"]
        /\ lastStart' = clock /\ lastSlot' = slot[c]
        /\ clock' = clock /\ slot' = slot /\ nextTime' = nextTime
    BY <1>5 DEF Wake
  <2>2. clock <= slot[c] + Lateness /\ Apart(slot[c], lastSlot) /\ slot[c] + Interval <= nextTime
    BY <2>1 DEF Pacing, SlotsApart, StartOnSlot, At
  <2>3. clock - lastStart >= Interval - Lateness
    BY <1>0, <2>1, <2>2 DEF Pacing, StartOnSlot, Apart, TypeOK
  <2>4. Paced
    BY <2>3
  <2>5. \A d \in Tasks : pc'[d] = "sleeping" => d # c /\ pc[d] = "sleeping"
    BY <1>0, <2>1 DEF TypeOK
  <2>6. SlotsApart'
    BY <1>0, <2>1, <2>2, <2>5 DEF Pacing, SlotsApart, At
  <2>7. StartOnSlot'
    BY <1>0, <2>1, <2>2, <2>5 DEF Pacing, StartOnSlot, At, TypeOK
  <2> QED
    BY <2>4, <2>6, <2>7
<1>6. ASSUME NEW c \in Tasks, Finish(c) \/ CancelSleep(c) \/ CancelWait(c)
      PROVE  (SlotsApart /\ StartOnSlot)' /\ Paced
  <2>1. Release(c, "idle") \/ Withdraw(c, "idle")
    BY <1>6 DEF Finish, CancelSleep, CancelWait
  <2>2. \A d \in Tasks : pc'[d] = "granted" \/ pc'[d] = IF d = c THEN "idle" ELSE pc[d]
    BY <1>0, <2>1, SemMoves DEF Control
  <2>3. \A d \in Tasks : pc'[d] = "granted" \/ pc'[d] = "idle" \/ pc'[d] = pc[d]
    BY <2>2
  <2> QED
    BY <1>6, <2>3, QuietPacing DEF Finish, CancelSleep, CancelWait, Starts
<1>8. CASE UNCHANGED vars
  BY <1>8, QuietPacing DEF vars, Starts
<1> QED
  BY <1>1, <1>2, <1>3, <1>4, <1>5, <1>6, <1>8 DEF Next

(* Reserved slots keep the interval, whoever is cancelled or late.          *)
THEOREM SlotsAreApart == Spec => []SlotsApart
<1>1. Pacing /\ [Next]_vars => Pacing'
  BY StepPacing
<1>2. Pacing => SlotsApart
  BY DEF Pacing
<1> QED
  BY InitPacing, <1>1, <1>2, PTL DEF Spec

(* Two consecutive requests start at least min_interval less the lateness   *)
(* of the loop apart.                                                       *)
THEOREM StartsArePaced == Spec => StartsPaced
<1>1. Pacing /\ [Next]_vars => Pacing'
  BY StepPacing
<1>2. Pacing /\ [Next]_vars =>
        [\A c \in Tasks : Starts(c) => clock - lastStart >= Interval - Lateness]_vars
  BY StepPacing
<1> QED
  BY InitPacing, <1>1, <1>2, PTL DEF Spec, StartsPaced

-----------------------------------------------------------------------------
(* Every step of the pipeline is a step of the limiter or leaves it alone.  *)
LEMMA PipelineStep == [PipelineNext]_pipelineVars => [Next]_vars
<1> SUFFICES ASSUME [PipelineNext]_pipelineVars PROVE [Next]_vars
  OBVIOUS
<1>1. CASE TimePasses
  BY <1>1 DEF TimePasses, Next
<1>2. ASSUME NEW c \in Tasks, Attempt(c) PROVE Next
  BY <1>2 DEF Attempt, Next
<1>3. ASSUME NEW c \in Tasks, Throttled(c) PROVE Next
  BY <1>3 DEF Throttled, Next
<1>4. ASSUME NEW c \in Tasks, Succeed(c) PROVE Next
  BY <1>4 DEF Succeed, Next
<1>5. ASSUME NEW c \in Tasks, Cancel(c) PROVE [Next]_vars
  BY <1>5 DEF Cancel, Next
<1>6. ASSUME NEW c \in Tasks, NEW retryable \in BOOLEAN, Fail(c, retryable) PROVE Next
  BY <1>6 DEF Fail, Next
<1>7. CASE UNCHANGED pipelineVars
  BY <1>7 DEF pipelineVars
<1> QED
  BY <1>1, <1>2, <1>3, <1>4, <1>5, <1>6, <1>7 DEF PipelineNext

(* The pipeline implements the limiter that its requests share: retries do  *)
(* not get round the throttle.                                              *)
THEOREM PipelineThrottles == PipelineSpec => Spec
<1>1. PipelineInit => Init
  BY DEF PipelineInit
<1> QED
  BY <1>1, PipelineStep, PTL DEF PipelineSpec, Spec

(* Retries keep the pace of the limiter: consecutive attempts of whatever   *)
(* requests are the interval apart, less the lateness of the loop.          *)
THEOREM AttemptsArePaced == PipelineSpec => StartsPaced
BY PipelineThrottles, StartsArePaced

(* No permit is lost or kept through failures, back-offs and cancellations. *)
THEOREM PipelinePermits == PipelineSpec => []PermitsConserved
BY PipelineThrottles, PermitsAreConserved

-----------------------------------------------------------------------------
Books == Control /\ PipelineTypeOK /\ AttemptsAccounted

LEMMA InitBooks == PipelineInit => Books
<1> SUFFICES ASSUME PipelineInit PROVE Books
  OBVIOUS
<1>1. Control /\ TypeOK
  BY InitControl DEF PipelineInit, Control
<1>2. PipelineTypeOK
  BY <1>1 DEF PipelineInit, PipelineTypeOK, Answers
<1>3. AttemptsAccounted
  BY DEF PipelineInit, Init, AttemptsAccounted, InProgress
<1> QED
  BY <1>1, <1>2, <1>3 DEF Books

(* What the steps of the limiter do to the progress of the tasks.           *)
LEMMA Begins ==
    ASSUME Control, NEW c \in Tasks, Enter(c) \/ Wait(c)
    PROVE  /\ ~InProgress(c) /\ InProgress(c)'
           /\ \A d \in Tasks : d # c => (InProgress(d)' <=> InProgress(d))
           /\ calls' = [calls EXCEPT ![c] = @ + 1] /\ calls[c] < MaxCalls
<1>1. pc[c] = "idle" /\ pc \in [Tasks -> Positions]
  BY DEF Enter, Wait, Control, TypeOK
<1>2. PICK p \in {"sleeping", "running", "waiting"} : pc' = [pc EXCEPT ![c] = p]
  BY DEF Enter, Wait, Acquire, Enqueue, AfterReserve
<1> QED
  BY <1>1, <1>2 DEF Enter, Wait, InProgress

LEMMA GoesOn ==
    ASSUME Control, NEW c \in Tasks, Proceed(c) \/ Wake(c)
    PROVE  /\ \A d \in Tasks : InProgress(d)' <=> InProgress(d)
           /\ calls' = calls
<1>1. CASE Proceed(c)
  <2>1. Resume(c, AfterReserve) /\ pc[c] = "granted"
    BY <1>1 DEF Proceed, Resume
  <2>2. AfterReserve \in {"sleeping", "running"}
    BY DEF AfterReserve
  <2>3. \A d \in Tasks :
          \/ pc'[d] = IF d = c THEN AfterReserve ELSE pc[d]
          \/ pc'[d] = "granted" /\ pc[d] = "waiting" /\ d # c
    BY <2>1, <2>2, SemGrants DEF Control
  <2>4. \A d \in Tasks : pc'[d] # "idle" <=> pc[d] # "idle"
    BY <2>1, <2>2, <2>3
  <2> QED
    BY <1>1, <2>4 DEF Proceed, InProgress
<1>2. CASE Wake(c)
  BY <1>2 DEF Wake, InProgress, Control, TypeOK
<1> QED
  BY <1>1, <1>2

LEMMA Leaves ==
    ASSUME Control, NEW c \in Tasks, Finish(c) \/ CancelSleep(c) \/ CancelWait(c)
    PROVE  /\ InProgress(c) /\ ~InProgress(c)'
           /\ \A d \in Tasks : d # c => (InProgress(d)' <=> InProgress(d))
           /\ calls' = calls
<1>1. \/ Release(c, "idle") /\ pc[c] # "waiting" /\ pc[c] # "idle"
      \/ Withdraw(c, "idle") /\ pc[c] # "idle"
  BY DEF Finish, CancelSleep, CancelWait, Withdraw
<1>2. \A d \in Tasks :
        \/ pc'[d] = IF d = c THEN "idle" ELSE pc[d]
        \/ pc'[d] = "granted" /\ pc[d] = "waiting" /\ d # c
  BY <1>1, SemGrants DEF Control
<1>3. pc[c] # "idle" /\ pc'[c] = "idle"
  BY <1>1, <1>2
<1>4. \A d \in Tasks : d # c => (pc'[d] # "idle" <=> pc[d] # "idle")
  BY <1>2
<1>5. calls' = calls
  BY DEF Finish, CancelSleep, CancelWait
<1> QED
  BY <1>3, <1>4, <1>5 DEF InProgress

(* The books of one request. *)
Balanced(c) ==
    /\ failures[c] <= calls[c] /\ calls[c] <= failures[c] + 1
    /\ answer[c] = "none" => (InProgress(c) <=> calls[c] = failures[c] + 1)
    /\ answer[c] = "ok" => calls[c] = failures[c] + 1
    /\ answer[c] = "error" => calls[c] = failures[c] /\ calls[c] > 0
    /\ answer[c] # "none" => ~InProgress(c)

LEMMA BooksBalanced == AttemptsAccounted <=> \A c \in Tasks : Balanced(c)
BY DEF AttemptsAccounted, Balanced

LEMMA UntouchedBooks ==
    ASSUME NEW d, Balanced(d), answer'[d] = answer[d], failures'[d] = failures[d],
           calls'[d] = calls[d], InProgress(d)' <=> InProgress(d)
    PROVE  Balanced(d)'
BY DEF Balanced

LEMMA NextBooks == Books /\ [PipelineNext]_pipelineVars => Books'
<1> SUFFICES ASSUME Books, [PipelineNext]_pipelineVars PROVE Books'
  OBVIOUS
<1>0. /\ Control /\ TypeOK /\ answer \in [Tasks -> Answers] /\ failures \in [Tasks -> Nat]
      /\ calls \in [Tasks -> Nat] /\ \A d \in Tasks : Balanced(d)
  BY BooksBalanced DEF Books, PipelineTypeOK, Control, TypeOK
<1>00. Control' /\ TypeOK'
  BY <1>0, PipelineStep, NextControl DEF Control
<1>a. ASSUME answer' \in [Tasks -> Answers], failures' \in [Tasks -> Nat],
             \A d \in Tasks : Balanced(d)'
      PROVE  Books'
  BY <1>00, <1>a DEF Books, PipelineTypeOK, AttemptsAccounted, Balanced
<1>1. CASE TimePasses \/ UNCHANGED pipelineVars
  <2>1. UNCHANGED <<pc, calls, answer, failures>>
    BY <1>1 DEF TimePasses, Tick, pipelineVars, vars
  <2> QED
    BY <1>0, <1>a, <2>1 DEF Balanced, InProgress
<1>2. ASSUME NEW c \in Tasks, Attempt(c) PROVE Books'
  <2>1. answer[c] = "none" /\ (Enter(c) \/ Wait(c)) /\ UNCHANGED <<failures, answer>>
    BY <1>2 DEF Attempt
  <2>2. /\ ~InProgress(c) /\ InProgress(c)'
        /\ \A d \in Tasks : d # c => (InProgress(d)' <=> InProgress(d))
        /\ calls' = [calls EXCEPT ![c] = @ + 1]
    BY <1>0, <2>1, Begins
  <2>3. calls[c] = failures[c] /\ calls[c] \in Nat /\ failures[c] \in Nat
    BY <1>0, <2>1, <2>2 DEF Balanced
  <2>4. calls'[c] = calls[c] + 1 /\ \A d \in Tasks : d # c => calls'[d] = calls[d]
    BY <1>0, <2>2
  <2>5. Balanced(c)'
    BY <2>1, <2>2, <2>3, <2>4 DEF Balanced
  <2>6. \A d \in Tasks : d # c => Balanced(d)'
    BY <1>0, <2>1, <2>2, <2>4, UntouchedBooks
  <2> QED
    BY <1>0, <1>a, <2>1, <2>5, <2>6
<1>3. ASSUME NEW c \in Tasks, Throttled(c) PROVE Books'
  <2>1. /\ UNCHANGED <<calls, answer, failures>>
        /\ \A d \in Tasks : InProgress(d)' <=> InProgress(d)
    BY <1>0, <1>3, GoesOn DEF Throttled
  <2> QED
    BY <1>0, <1>a, <2>1, UntouchedBooks
<1>4. ASSUME NEW c \in Tasks, Succeed(c) PROVE Books'
  <2>1. /\ InProgress(c) /\ ~InProgress(c)' /\ calls' = calls /\ failures' = failures
        /\ \A d \in Tasks : d # c => (InProgress(d)' <=> InProgress(d))
        /\ answer' = [answer EXCEPT ![c] = "ok"]
    BY <1>0, <1>4, Leaves DEF Succeed, Answered
  <2>2. answer'[c] = "ok" /\ \A d \in Tasks : d # c => answer'[d] = answer[d]
    BY <1>0, <2>1
  <2>3. calls[c] = failures[c] + 1 /\ calls[c] \in Nat /\ failures[c] \in Nat
    BY <1>0, <2>1 DEF Balanced
  <2>4. Balanced(c)'
    BY <2>1, <2>2, <2>3 DEF Balanced
  <2>5. \A d \in Tasks : d # c => Balanced(d)'
    BY <1>0, <2>1, <2>2, UntouchedBooks
  <2>6. answer' \in [Tasks -> Answers]
    BY <1>0, <2>1 DEF Answers
  <2> QED
    BY <1>0, <1>a, <2>1, <2>4, <2>5, <2>6
<1>5. ASSUME NEW c \in Tasks, NEW retryable \in BOOLEAN, Fail(c, retryable) PROVE Books'
  <2>1. /\ InProgress(c) /\ ~InProgress(c)' /\ calls' = calls
        /\ failures' = [failures EXCEPT ![c] = @ + 1]
        /\ \A d \in Tasks : d # c => (InProgress(d)' <=> InProgress(d))
        /\ answer' = answer \/ answer' = [answer EXCEPT ![c] = "error"]
    BY <1>0, <1>5, Leaves DEF Fail, Answered
  <2>2. answer[c] = "none" /\ calls[c] = failures[c] + 1
        /\ calls[c] \in Nat /\ failures[c] \in Nat
    BY <1>0, <2>1 DEF Balanced
  <2>3. answer'[c] \in {"none", "error"} /\ \A d \in Tasks : d # c => answer'[d] = answer[d]
    BY <1>0, <2>1, <2>2
  <2>4. failures'[c] = failures[c] + 1 /\ \A d \in Tasks : d # c => failures'[d] = failures[d]
    BY <1>0, <2>1
  <2>5. Balanced(c)'
    BY <2>1, <2>2, <2>3, <2>4 DEF Balanced
  <2>6. \A d \in Tasks : d # c => Balanced(d)'
    BY <1>0, <2>1, <2>3, <2>4, UntouchedBooks
  <2>7. answer' \in [Tasks -> Answers] /\ failures' \in [Tasks -> Nat]
    BY <1>0, <2>1 DEF Answers
  <2> QED
    BY <1>a, <2>5, <2>6, <2>7
<1>6. ASSUME NEW c \in Tasks, Cancel(c) PROVE Books'
  <2>1. /\ answer[c] = "none" /\ answer' = [answer EXCEPT ![c] = "cancelled"]
        /\ failures' = failures /\ calls' = calls /\ ~InProgress(c)'
        /\ \A d \in Tasks : d # c => (InProgress(d)' <=> InProgress(d))
    BY <1>0, <1>6, Leaves DEF Cancel, Answered, vars, InProgress
  <2>2. answer'[c] = "cancelled" /\ \A d \in Tasks : d # c => answer'[d] = answer[d]
    BY <1>0, <2>1
  <2>3. Balanced(c)'
    BY <1>0, <2>1, <2>2 DEF Balanced
  <2>4. \A d \in Tasks : d # c => Balanced(d)'
    BY <1>0, <2>1, <2>2, UntouchedBooks
  <2>5. answer' \in [Tasks -> Answers]
    BY <1>0, <2>1 DEF Answers
  <2> QED
    BY <1>0, <1>a, <2>1, <2>3, <2>4, <2>5
<1> QED
  BY <1>1, <1>2, <1>3, <1>4, <1>5, <1>6 DEF PipelineNext

(* The state of the pipeline keeps its types.                               *)
THEOREM PipelineTypeCorrect == PipelineSpec => []PipelineTypeOK
<1>1. Books => PipelineTypeOK
  BY DEF Books
<1> QED
  BY InitBooks, NextBooks, <1>1, PTL DEF PipelineSpec

(* Every attempt is accounted for: only an attempt that failed at the model *)
(* is followed by another one, for any number of requests and attempts.     *)
THEOREM AttemptsAreAccounted == PipelineSpec => []AttemptsAccounted
<1>1. Books => AttemptsAccounted
  BY DEF Books
<1> QED
  BY InitBooks, NextBooks, <1>1, PTL DEF PipelineSpec
=============================================================================
