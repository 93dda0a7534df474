----------------------------- MODULE TemplateCache ----------------------------
(***************************************************************************)
(* DatasetInputGenerator._resolve_template of giskard-checks, for one      *)
(* input type: a template that a model is asked for once, behind a cache   *)
(* that is looked at before and after an asyncio.Lock is entered.  The     *)
(* lock is a semaphore of one permit.                                      *)
(*                                                                         *)
(* The lock is made once and outlives the event loops; it belongs to the   *)
(* loop in which a task first had to wait for it, and refuses to be waited *)
(* for in another.                                                         *)
(***************************************************************************)
EXTENDS AsyncSemaphore

ASSUME OneAtATime == MaxPermits = 1

VARIABLES structured,  \* the target takes a structured input
          cached,      \* the template is in _TEMPLATE_CACHE
          foreign      \* the lock belongs to a loop that is gone

cache == <<structured, cached, foreign, permits, queue>>

CacheInit ==
    /\ SemInit
    /\ structured \in BOOLEAN
    /\ cached = FALSE
    /\ foreign \in BOOLEAN

Goto(t, p) == pc' = [pc EXCEPT ![t] = p]

(* A prompt for a text is used as it is, and one for a known schema is put *)
(* into its template.  Otherwise the task enters the lock, or waits for it. *)
Look(t) ==
    /\ pc[t] = "calling"
    /\ \/ (~structured \/ cached)
          /\ Goto(t, "prompting") /\ UNCHANGED <<permits, queue>>
       \/ structured /\ ~cached /\ Acquire(t, "asking")
       \/ structured /\ ~cached /\ ~foreign /\ Enqueue(t)
       \/ structured /\ ~cached /\ foreign /\ Locked
          /\ Goto(t, "failed") /\ UNCHANGED <<permits, queue>>
    /\ UNCHANGED <<structured, cached, foreign>>

(* Fault: the cache is not looked at again behind the lock.                *)
EnterAndAsk(t) ==
    /\ Resume(t, "asking")
    /\ UNCHANGED <<structured, cached, foreign>>

(* Behind the lock the cache is looked at again; a hit leaves the lock     *)
(* without another await.                                                  *)
Enter(t) ==
    /\ pc[t] = "granted"
    /\ \/ cached /\ Release(t, "prompting")
       \/ ~cached /\ Resume(t, "asking")
    /\ UNCHANGED <<structured, cached, foreign>>

(* The model gives a template, or fails, or finds the schema unfit, which  *)
(* is not remembered.                                                      *)
Answered(t) ==
    /\ pc[t] = "running"
    /\ \/ cached' = TRUE /\ Release(t, "prompting")
       \/ Release(t, "failed") /\ UNCHANGED cached
    /\ UNCHANGED <<structured, foreign>>

-----------------------------------------------------------------------------
(* The model is asked by one task at a time, and by none once the template *)
(* is known.                                                               *)
OneCallPerTemplate ==
    /\ Cardinality(At("asking") \cup At("running")) <= 1
    /\ cached => At("asking") \cup At("running") = {}
=============================================================================
