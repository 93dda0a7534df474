------------------------------- MODULE SuiteRun -------------------------------
(***************************************************************************)
(* Suite.run of giskard-checks.  Serially, scenarios are awaited one after *)
(* the other.  In parallel, each is a task of an asyncio.TaskGroup, inside *)
(* a semaphore of max_concurrency permits or none at all.  A scenario may  *)
(* end in a result, raise, or let a CancelledError through; the caller may *)
(* cancel the run.                                                         *)
(*                                                                         *)
(* The group hears of a task by a callback that runs after the task ended. *)
(* The first exception it hears of makes it cancel all unfinished tasks,   *)
(* and so does the cancellation of the run.  A request to cancel reaches a *)
(* task when that runs next.                                               *)
(***************************************************************************)
EXTENDS Results, AsyncSemaphore

CONSTANT Count   \* number of scenarios; scenario i is task i

ASSUME TasksAssumption == Count \in Nat /\ Tasks = 1..Count

VARIABLES parallel,    \* argument parallel
          verdict,     \* status of each scenario that ended in a result
          tally,       \* _SuiteProgress._counts
          cancelling,  \* tasks asked to cancel that have not run since
          noticed,     \* tasks whose completion callback has run
          errors,      \* exceptions the group has collected, by task
          aborting,    \* the group has cancelled its tasks
          abandoned,   \* the caller has cancelled the run
          answer       \* what run returned or raised

group == <<cancelling, noticed, errors, aborting, abandoned>>
vars == <<parallel, pc, permits, queue, verdict, tally, group, answer>>

Undecided == [kind |-> "none", results |-> <<>>, errors |-> {}]
Returned(results) == [kind |-> "returned", results |-> results, errors |-> {}]
Raised(failed) == [kind |-> "raised", results |-> <<>>, errors |-> failed]
Cancelled == [kind |-> "cancelled", results |-> <<>>, errors |-> {}]

Working == {"running", "alone"}
Ended == {"done", "failed", "cancelled"}

Init ==
    /\ parallel \in BOOLEAN
    /\ pc = [i \in Tasks |-> "created"]
    /\ SemInit
    /\ verdict = [i \in Tasks |-> "none"]
    /\ tally = [st \in Statuses |-> 0]
    /\ cancelling = {} /\ noticed = {} /\ errors = {}
    /\ aborting = FALSE /\ abandoned = FALSE
    /\ answer = Undecided

-----------------------------------------------------------------------------
(* Scenarios start. *)

(* _run_serial: the next scenario, once all before it have a result.        *)
StartAlone(i) ==
    /\ ~parallel /\ answer = Undecided
    /\ pc[i] = "created" /\ \A j \in 1..(i - 1) : pc[j] = "done"
    /\ pc' = [pc EXCEPT ![i] = "alone"]
    /\ UNCHANGED <<parallel, permits, queue, verdict, tally, group, answer>>

(* run_scenario enters the semaphore at once, or after a wait.              *)
Start(i) ==
    /\ parallel /\ pc[i] = "created"
    /\ Acquire(i, "running") \/ Enqueue(i)
    /\ UNCHANGED <<parallel, verdict, tally, group, answer>>

Proceed(i) ==
    /\ i \notin cancelling
    /\ Resume(i, "running")
    /\ UNCHANGED <<parallel, verdict, tally, group, answer>>

-----------------------------------------------------------------------------
(* Scenarios end. *)

(* Fault: the permit is released on success only. *)
LeaveOnSuccess(i, p) ==
    IF parallel /\ p = "done" THEN Release(i, p)
    ELSE pc' = [pc EXCEPT ![i] = p] /\ UNCHANGED <<permits, queue>>

Leave(i, p) ==
    IF parallel THEN Release(i, p)
    ELSE pc' = [pc EXCEPT ![i] = p] /\ UNCHANGED <<permits, queue>>

(* Fault: a scenario that completes while the group aborts is not counted.  *)
RecordUnlessAborting(i, st) ==
    /\ verdict' = [verdict EXCEPT ![i] = st]
    /\ tally' = IF aborting THEN tally ELSE [tally EXCEPT ![st] = @ + 1]

Record(i, st) ==
    /\ verdict' = [verdict EXCEPT ![i] = st]
    /\ tally' = [tally EXCEPT ![st] = @ + 1]

Complete(i, st) ==
    /\ pc[i] \in Working /\ i \notin cancelling
    /\ Record(i, st)
    /\ Leave(i, "done")
    /\ UNCHANGED <<parallel, group, answer>>

(* An exception, from the scenario or from its cleanup when cancelled.  In  *)
(* a serial run it goes straight to the caller.                             *)
Fail(i) ==
    /\ pc[i] \in Working
    /\ Leave(i, "failed")
    /\ cancelling' = cancelling \ {i}
    /\ answer' = IF parallel THEN answer ELSE Raised({i})
    /\ UNCHANGED <<parallel, verdict, tally, noticed, errors, aborting, abandoned>>

(* A CancelledError leaves the scenario, whether or not anybody asked.      *)
LetThrough(i) ==
    /\ pc[i] \in Working
    /\ Leave(i, "cancelled")
    /\ cancelling' = cancelling \ {i}
    /\ answer' = IF parallel THEN answer ELSE Cancelled
    /\ UNCHANGED <<parallel, verdict, tally, noticed, errors, aborting, abandoned>>

(* The target or a check swallows the CancelledError and goes on.           *)
Swallow(i) ==
    /\ pc[i] \in Working /\ i \in cancelling
    /\ cancelling' = cancelling \ {i}
    /\ UNCHANGED <<parallel, pc, permits, queue, verdict, tally,
                   noticed, errors, aborting, abandoned, answer>>

(* Cancelled between being handed a permit and running.                     *)
GiveBack(i) ==
    /\ pc[i] = "granted" /\ i \in cancelling
    /\ Withdraw(i, "cancelled")
    /\ cancelling' = cancelling \ {i}
    /\ UNCHANGED <<parallel, verdict, tally, noticed, errors, aborting, abandoned, answer>>

-----------------------------------------------------------------------------
(* The task group. *)

(* TaskGroup._abort: tasks that have not begun, or wait for a permit, end   *)
(* there; the rest get the request.                                         *)
Abort ==
    /\ aborting' = TRUE
    /\ pc' = [i \in Tasks |-> IF pc[i] \in {"created", "waiting"} THEN "cancelled" ELSE pc[i]]
    /\ queue' = <<>>
    /\ cancelling' = {i \in Tasks : pc[i] \in {"granted", "running"}}
    /\ UNCHANGED permits

NoAbort == UNCHANGED <<aborting, pc, permits, queue, cancelling>>

(* TaskGroup._on_task_done. *)
Notice(i) ==
    /\ parallel /\ pc[i] \in Ended /\ i \notin noticed
    /\ noticed' = noticed \cup {i}
    /\ IF pc[i] = "failed"
       THEN errors' = errors \cup {i} /\ (IF aborting THEN NoAbort ELSE Abort)
       ELSE UNCHANGED errors /\ NoAbort
    /\ UNCHANGED <<parallel, verdict, tally, abandoned, answer>>

(* The caller cancels the run.  A serial run passes that to the scenario it *)
(* awaits; a parallel one aborts, unless it does so already.                *)
CallerCancels ==
    /\ answer = Undecided /\ ~abandoned
    /\ abandoned' = TRUE
    /\ IF parallel
       THEN IF aborting THEN NoAbort ELSE Abort
       ELSE /\ At("alone") # {}
            /\ cancelling' = At("alone")
            /\ UNCHANGED <<aborting, pc, permits, queue>>
    /\ UNCHANGED <<parallel, verdict, tally, noticed, errors, answer>>

(* Fault: the cancellation of the run hides the exceptions of scenarios.    *)
AnswerCancelledFirst ==
    /\ parallel /\ answer = Undecided /\ noticed = Tasks
    /\ answer' = IF abandoned \/ At("cancelled") # {} THEN Cancelled
                 ELSE IF errors # {} THEN Raised(errors)
                 ELSE Returned(verdict)
    /\ UNCHANGED <<parallel, pc, permits, queue, verdict, tally, group>>

(* The group has heard of all its tasks: exceptions come before the         *)
(* cancellation of the run, and only then are the results collected, which  *)
(* raises when a task was cancelled.                                        *)
Answer ==
    /\ parallel /\ answer = Undecided /\ noticed = Tasks
    /\ answer' = IF errors # {} THEN Raised(errors)
                 ELSE IF abandoned \/ At("cancelled") # {} THEN Cancelled
                 ELSE Returned(verdict)
    /\ UNCHANGED <<parallel, pc, permits, queue, verdict, tally, group>>

AnswerAlone ==
    /\ ~parallel /\ answer = Undecided /\ At("done") = Tasks
    /\ answer' = Returned(verdict)
    /\ UNCHANGED <<parallel, pc, permits, queue, verdict, tally, group>>

Over == answer # Undecided /\ UNCHANGED vars

Progress ==
    \/ Answer \/ AnswerAlone
    \/ \E i \in Tasks :
         \/ StartAlone(i) \/ Start(i) \/ Proceed(i)
         \/ Fail(i) \/ LetThrough(i) \/ GiveBack(i) \/ Notice(i)
         \/ \E st \in Statuses : Complete(i, st)

Next == Progress \/ CallerCancels \/ Over \/ \E i \in Tasks : Swallow(i)

Spec == Init /\ [][Next]_vars

(* The loop runs every task that is ready, and scenarios come to an end.    *)
FairSpec ==
    /\ Spec
    /\ WF_vars(Answer) /\ WF_vars(AnswerAlone)
    /\ \A i \in Tasks :
         /\ WF_vars(StartAlone(i)) /\ WF_vars(Start(i)) /\ WF_vars(Proceed(i))
         /\ WF_vars(GiveBack(i)) /\ WF_vars(Notice(i))
         /\ WF_vars(Fail(i) \/ LetThrough(i) \/ \E st \in Statuses : Complete(i, st))

-----------------------------------------------------------------------------
(* Type invariant. *)
Answers ==
    [kind : {"none", "returned", "raised", "cancelled"},
     results : Seq(Statuses), errors : SUBSET Tasks]

TypeOK ==
    /\ parallel \in BOOLEAN
    /\ pc \in [Tasks -> {"created", "waiting", "granted"} \cup Working \cup Ended]
    /\ permits \in Nat
    /\ queue \in Seq(Tasks)
    /\ verdict \in [Tasks -> Statuses \cup {"none"}]
    /\ tally \in [Statuses -> Nat]
    /\ cancelling \subseteq Tasks /\ noticed \subseteq Tasks /\ errors \subseteq Tasks
    /\ aborting \in BOOLEAN /\ abandoned \in BOOLEAN
    /\ answer \in Answers

(* The suite keeps its promise to the caller: no scenario outlives the run, *)
(* results are complete and in suite order, no exception goes unreported.   *)
Settled ==
    [i \in Tasks |-> IF pc[i] = "done" THEN verdict[i]
                     ELSE IF pc[i] \in {"failed", "cancelled"} THEN pc[i] ELSE "none"]

AtWork == {i \in Tasks : pc[i] \notin Ended /\ (parallel \/ pc[i] # "created")}

Contract == INSTANCE SuiteContract WITH
    Scenarios <- Tasks, Verdicts <- Statuses, settled <- Settled, working <- AtWork

KeepsContract == Contract!Spec

(* The live summary of _SuiteProgress (suite.py:60) never shows a scenario  *)
(* that did not end, never forgets one that did, even while the run aborts. *)
TallyIsTrue ==
    \A st \in Statuses :
        tally[st] = Cardinality({i \in At("done") : verdict[i] = st})

(* Every run comes to an end, provided that its scenarios do: no permit and *)
(* no callback is lost, however scenarios end.                              *)
RunEnds == <>(answer # Undecided)
=============================================================================
