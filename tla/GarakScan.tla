------------------------------- MODULE GarakScan ------------------------------
(***************************************************************************)
(* GarakScanAdapter.run of giskard-scan.  Each probe runs in a thread of a *)
(* pool of its own, and there calls the target, turn by turn: it puts a    *)
(* coroutine on the loop of the scan and blocks until that is done.  The   *)
(* coroutine brings the prompt into the input of the target, which takes a *)
(* template (TemplateCache), which takes a call of a model, which takes a  *)
(* thread of the default pool.                                             *)
(*                                                                         *)
(* The caller may cancel the scan.  Leaving the pool blocks the loop until *)
(* its threads have ended.                                                 *)
(***************************************************************************)
EXTENDS TemplateCache

CONSTANTS Workers,      \* threads for probes: the smaller of their number and a cap
          PoolThreads,  \* threads of the default pool of the loop
          MaxCalls      \* bound on the calls of the target that a probe makes

ASSUME GarakAssumption ==
    /\ Workers \in Nat \ {0} /\ PoolThreads \in Nat \ {0} /\ MaxCalls \in Nat

VARIABLES calls,      \* calls of the target that each probe made
          report,     \* what each probe gave: "none" yet, "scenarios", or "error"
          hurt,       \* the probes in which something failed (history)
          abandoned,  \* the caller has cancelled the scan
          closing,    \* the task group is left; the loop waits for the threads
          answer      \* "none", "given", or "cancelled"

scan == <<calls, report, hurt, abandoned, closing, answer>>
vars == <<pc, cache, scan>>

Idle == {"queued", "done", "dropped"}
Places == Idle \cup Holding \cup {"probing", "calling", "waiting", "prompting", "failed"}
Busy == {p \in Tasks : pc[p] \notin Idle}   \* the probes that have a thread

Init ==
    /\ CacheInit
    /\ pc = [p \in Tasks |-> "queued"]
    /\ calls = [p \in Tasks |-> 0]
    /\ report = [p \in Tasks |-> "none"]
    /\ hurt = {}
    /\ abandoned = FALSE /\ closing = FALSE /\ answer = "none"

-----------------------------------------------------------------------------
(* The threads.                                                            *)
StartProbe(p) ==
    /\ pc[p] = "queued" /\ Cardinality(Busy) < Workers
    /\ Goto(p, "probing")
    /\ UNCHANGED <<cache, scan>>

(* _call_model: the coroutine is handed to the loop, and the thread blocks. *)
CallTarget(p) ==
    /\ pc[p] = "probing" /\ calls[p] < MaxCalls
    /\ calls' = [calls EXCEPT ![p] = @ + 1]
    /\ Goto(p, "calling")
    /\ UNCHANGED <<cache, report, hurt, abandoned, closing, answer>>

(* The detectors are through with the attempts of the probe.               *)
Finish(p) ==
    /\ pc[p] = "probing"
    /\ Goto(p, "done")
    /\ report' = [report EXCEPT ![p] = "scenarios"]
    /\ UNCHANGED <<cache, calls, hurt, abandoned, closing, answer>>

(* Fault: what the probe had before it failed is all that is reported.     *)
RaiseQuietly(p) ==
    /\ pc[p] \in {"probing", "failed"}
    /\ Goto(p, "done")
    /\ report' = [report EXCEPT ![p] = "scenarios"]
    /\ hurt' = hurt \cup {p}
    /\ UNCHANGED <<cache, calls, abandoned, closing, answer>>

(* _run_probe_isolated: the probe raises, or a call of the target raised   *)
(* in it; it is reported as a scenario in error.                           *)
Raise(p) ==
    /\ pc[p] \in {"probing", "failed"}
    /\ Goto(p, "done")
    /\ report' = [report EXCEPT ![p] = "error"]
    /\ hurt' = hurt \cup {p}
    /\ UNCHANGED <<cache, calls, abandoned, closing, answer>>

-----------------------------------------------------------------------------
(* The loop.                                                               *)

(* Fault: the probes run in the threads that the model call needs.         *)
ThreadOfOnePool == Cardinality(Busy) < PoolThreads

ThreadFree == Cardinality(At("running")) < PoolThreads

Serve(p) ==
    /\ pc[p] = "asking" /\ ThreadFree
    /\ Goto(p, "running")
    /\ UNCHANGED cache

TargetReplies(p) ==
    /\ pc[p] = "prompting"
    /\ Goto(p, "probing") \/ Goto(p, "failed")
    /\ UNCHANGED cache

Coroutine(p) ==
    /\ ~closing
    /\ Look(p) \/ Enter(p) \/ Serve(p) \/ Answered(p) \/ TargetReplies(p)
    /\ hurt' = IF pc'[p] = "failed" THEN hurt \cup {p} ELSE hurt
    /\ UNCHANGED <<calls, report, abandoned, closing, answer>>

Ended == {p \in Tasks : pc[p] \in {"done", "dropped"}}

(* The task group is left when the probes have ended, or at once when the  *)
(* scan was cancelled: the tasks that wait for the threads are cancelled,  *)
(* the threads are not.                                                    *)
LeaveGroup ==
    /\ ~closing /\ (abandoned \/ Ended = Tasks)
    /\ closing' = TRUE
    /\ UNCHANGED <<pc, cache, calls, report, hurt, abandoned, answer>>

(* ThreadPoolExecutor.__exit__, and the results that follow it.            *)
LeavePool ==
    /\ closing /\ answer = "none" /\ Busy = {}
    /\ answer' = IF abandoned THEN "cancelled" ELSE "given"
    /\ UNCHANGED <<pc, cache, calls, report, hurt, abandoned, closing>>

(* The caller cancels the scan: probes that have no thread get none.       *)
Abandon ==
    /\ ~abandoned /\ ~closing
    /\ abandoned' = TRUE
    /\ pc' = [p \in Tasks |-> IF pc[p] = "queued" THEN "dropped" ELSE pc[p]]
    /\ UNCHANGED <<cache, calls, report, hurt, closing, answer>>

Thread(p) == StartProbe(p) \/ CallTarget(p) \/ Finish(p) \/ Raise(p)

Next ==
    \/ \E p \in Tasks : Thread(p) \/ Coroutine(p)
    \/ LeaveGroup \/ LeavePool \/ Abandon

Spec == Init /\ [][Next]_vars
FairSpec ==
    /\ Spec /\ WF_vars(LeaveGroup) /\ WF_vars(LeavePool)
    /\ \A p \in Tasks : WF_vars(Thread(p)) /\ WF_vars(Coroutine(p))

-----------------------------------------------------------------------------
(* Type invariant.                                                         *)
ScanTypeOK ==
    /\ pc \in [Tasks -> Places]
    /\ permits \in 0..MaxPermits /\ queue \in Seq(Tasks)
    /\ structured \in BOOLEAN /\ cached \in BOOLEAN /\ foreign \in BOOLEAN
    /\ calls \in [Tasks -> 0..MaxCalls] /\ hurt \subseteq Tasks
    /\ report \in [Tasks -> {"none", "scenarios", "error"}]
    /\ abandoned \in BOOLEAN /\ closing \in BOOLEAN
    /\ answer \in {"none", "given", "cancelled"}

(* One bad probe neither aborts the scan nor disappears from it: a scan    *)
(* that was not cancelled reports on every probe, and those and only those *)
(* in which something failed are in error.                                 *)
EveryProbeTells ==
    answer = "given" => \A p \in Tasks : report[p] = IF p \in hurt THEN "error" ELSE "scenarios"

(* Threads, loop and locks do not wait for each other for ever: a scan     *)
(* that is not cancelled ends.                                             *)
ScanEnds == <>(abandoned \/ answer # "none")

(* "The TaskGroup joins every probe before __exit__ shuts the executor     *)
(* down."                                                                  *)
JoinedBeforeShutdown == closing => Busy = {}
=============================================================================
