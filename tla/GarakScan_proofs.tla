--------------------------- MODULE GarakScan_proofs ---------------------------
(***************************************************************************)
(* For any number of probes and threads: the model is asked for a template *)
(* once at a time, and not again.  The lock's part is cited from           *)
(* AsyncSemaphore_proofs.                                                  *)
(***************************************************************************)
EXTENDS GarakScan, AsyncSemaphore_proofs

USE OneAtATime, GarakAssumption

LEMMA ScanPositions ==
    /\ \A p \in Idle \cup {"probing", "calling", "prompting", "failed"} : Outside(p)
    /\ "asking" \in Inside /\ "running" \in Inside
BY DEF Outside, Inside, Holding, Idle

(* Who asks the model: once the template is known, nobody.                  *)
Asked == cached => At("asking") \cup At("running") = {}

ScanInv == ScanTypeOK /\ SemInv /\ Asked

LEMMA SoleHolder ==
  ASSUME SemInv, NEW c \in Holders
  PROVE  Holders = {c} /\ permits = 0
<1>1. permits \in Nat /\ IsFiniteSet(Holders) /\ permits + Cardinality(Holders) = 1
  BY DEF SemInv, PermitsConserved, Limited
<1>2. Cardinality({c}) = 1 /\ IsFiniteSet({c})
  BY FS_Singleton
<1>3. Cardinality(Holders) \in Nat /\ Cardinality({c}) <= Cardinality(Holders)
  BY <1>1, FS_CardinalityType, FS_Subset
<1>4. permits = 0 /\ Cardinality(Holders) = Cardinality({c})
  BY <1>1, <1>2, <1>3
<1> QED
  BY <1>1, <1>4, FS_Subset

LEMMA ScanInit == Init => ScanInv
<1> SUFFICES ASSUME Init PROVE ScanInv
  OBVIOUS
<1>1. SemInv
  <2>1. SemInit /\ pc = [c \in Tasks |-> pc[c]] /\ \A c \in Tasks : Outside(pc[c])
    BY ScanPositions DEF Init, CacheInit, Idle
  <2> QED
    BY <2>1, SemInvInit
<1>2. ScanTypeOK
  <2>1. pc \in [Tasks -> Places] /\ calls \in [Tasks -> 0..MaxCalls]
    BY DEF Init, Places, Idle
  <2>2. permits \in 0..MaxPermits /\ queue \in Seq(Tasks)
    BY <1>1 DEF Init, CacheInit, SemInit, SemInv, Lists
  <2> QED
    BY <2>1, <2>2 DEF Init, CacheInit, ScanTypeOK
<1>3. Asked
  BY DEF Init, CacheInit, Asked
<1> QED
  BY <1>1, <1>2, <1>3 DEF ScanInv

-----------------------------------------------------------------------------
(* A step that leaves the semaphore alone, and takes nobody into the lock. *)
LEMMA OutsideTheLock ==
  ASSUME ScanInv, NEW p \in Tasks, Outside(pc[p]), NEW to, Outside(to), Goto(p, to),
         UNCHANGED <<permits, queue, cached>>
  PROVE  SemInv' /\ Asked'
<1>1. SemInv'
  BY MoveSemInv DEF ScanInv, Goto
<1>2. Asked'
  BY DEF ScanInv, Asked, Goto, ScanTypeOK, At, Outside, Holding
<1> QED
  BY <1>1, <1>2

LEMMA MovesType ==
  ASSUME ScanInv, NEW c \in Tasks, NEW p \in Places, SemInv',
         Resume(c, p) \/ Release(c, p)
  PROVE  pc' \in [Tasks -> Places]
<1>1. pc' = [d \in Tasks |-> pc'[d]]
  BY DEF SemInv, Lists
<1>2. \A d \in Tasks : pc'[d] = "granted" \/ pc'[d] = IF d = c THEN p ELSE pc[d]
  BY SemMoves DEF ScanInv
<1>3. \A d \in Tasks : pc'[d] \in Places
  BY <1>2 DEF ScanInv, ScanTypeOK, Places, Holding
<1> QED
  BY <1>1, <1>3

(* Leaving the lock leaves nobody asking.                                  *)
LEMMA NobodyAsksAfter ==
  ASSUME ScanInv, NEW p \in Tasks, p \in Holders, NEW to, Outside(to), Release(p, to)
  PROVE  At("asking")' \cup At("running")' = {}
<1>1. Holders = {p}
  BY SoleHolder DEF ScanInv
<1>2. \A d \in Tasks : pc'[d] = "granted" \/ pc'[d] = IF d = p THEN to ELSE pc[d]
  BY SemMoves DEF ScanInv
<1>3. \A d \in Tasks : d # p => pc[d] \notin {"asking", "running"}
  BY <1>1 DEF Holders, Holding
<1> QED
  BY <1>2, <1>3 DEF At, Outside, Holding

(* A hit behind the lock gives the permit back as a cancelled waiter would. *)
LEMMA HitSemInv ==
  ASSUME SemInv, NEW p \in Tasks, pc[p] = "granted", NEW to, Outside(to), Release(p, to)
  PROVE  SemInv'
<1>1. permits = 0
  BY SoleHolder DEF Holders, Holding
<1>2. Withdraw(p, to)
  BY <1>1 DEF Release, Withdraw, Limited
<1> QED
  BY <1>2, WithdrawSemInv

LEMMA LookInv ==
  ASSUME ScanInv, NEW p \in Tasks, Look(p)
  PROVE  SemInv' /\ Asked' /\ pc' \in [Tasks -> Places]
<1>0. SemInv /\ pc \in [Tasks -> Places] /\ Outside(pc[p]) /\ cached' = cached
  BY ScanPositions DEF ScanInv, ScanTypeOK, Look
<1>1. CASE (structured => cached) /\ Goto(p, "prompting") /\ UNCHANGED <<permits, queue>>
  <2>1. pc' \in [Tasks -> Places]
    BY <1>0, <1>1 DEF Goto, Places
  <2> QED
    BY <1>0, <1>1, <2>1, ScanPositions, OutsideTheLock
<1>2. CASE ~cached /\ Acquire(p, "asking")
  <2>1. SemInv'
    BY <1>0, <1>2, ScanPositions, AcquireSemInv
  <2>2. pc' \in [Tasks -> Places]
    BY <1>0, <1>2 DEF Acquire, Places, Holding
  <2> QED
    BY <1>0, <1>2, <2>1, <2>2 DEF Asked
<1>3. CASE ~cached /\ Enqueue(p)
  <2>1. SemInv'
    BY <1>0, <1>3, EnqueueSemInv
  <2>2. pc' \in [Tasks -> Places]
    BY <1>0, <1>3 DEF Enqueue, Places
  <2> QED
    BY <1>0, <1>3, <2>1, <2>2 DEF Asked
<1>4. CASE Goto(p, "failed") /\ UNCHANGED <<permits, queue>>
  <2>1. pc' \in [Tasks -> Places]
    BY <1>0, <1>4 DEF Goto, Places
  <2> QED
    BY <1>0, <1>4, <2>1, ScanPositions, OutsideTheLock
<1> QED
  BY <1>1, <1>2, <1>3, <1>4 DEF Look

LEMMA EnterInv ==
  ASSUME ScanInv, NEW p \in Tasks, Enter(p)
  PROVE  SemInv' /\ Asked' /\ pc' \in [Tasks -> Places]
<1>0. SemInv /\ pc \in [Tasks -> Places] /\ pc[p] = "granted" /\ p \in Holders /\ cached' = cached
  BY DEF ScanInv, ScanTypeOK, Enter, Holders, Holding
<1>1. CASE cached /\ Release(p, "prompting")
  <2>1. SemInv'
    BY <1>0, <1>1, ScanPositions, HitSemInv
  <2>2. pc' \in [Tasks -> Places]
    BY <1>1, <2>1, MovesType DEF Places
  <2>3. Asked'
    BY <1>0, <1>1, ScanPositions, NobodyAsksAfter DEF Asked, At
  <2> QED
    BY <2>1, <2>2, <2>3
<1>2. CASE ~cached /\ Resume(p, "asking")
  <2>1. SemInv'
    BY <1>0, <1>2, ScanPositions, ResumeSemInv
  <2>2. pc' \in [Tasks -> Places]
    BY <1>2, <2>1, MovesType DEF Places, Holding
  <2> QED
    BY <1>0, <1>2, <2>1, <2>2 DEF Asked
<1> QED
  BY <1>1, <1>2 DEF Enter

LEMMA AnsweredInv ==
  ASSUME ScanInv, NEW p \in Tasks, Answered(p)
  PROVE  SemInv' /\ Asked' /\ pc' \in [Tasks -> Places]
<1>1. PICK to \in {"prompting", "failed"} : Release(p, to)
  BY DEF Answered
<1>2. SemInv /\ pc[p] = "running" /\ p \in Holders /\ Outside(to)
  BY ScanPositions DEF ScanInv, Answered, Holders, Holding
<1>3. SemInv'
  BY <1>1, <1>2, ScanPositions, ReleaseSemInv
<1>4. pc' \in [Tasks -> Places]
  BY <1>1, <1>3, MovesType DEF Places
<1>5. Asked'
  BY <1>1, <1>2, NobodyAsksAfter DEF Asked, At
<1> QED
  BY <1>3, <1>4, <1>5

LEMMA CoroutineInv ==
  ASSUME ScanInv, NEW p \in Tasks, Coroutine(p)
  PROVE  SemInv' /\ Asked' /\ pc' \in [Tasks -> Places]
<1>0. SemInv /\ Asked /\ pc \in [Tasks -> Places]
  BY DEF ScanInv, ScanTypeOK
<1>1. CASE Serve(p)
  <2>1. SemInv'
    BY <1>0, <1>1, ScanPositions, MoveSemInv DEF Serve, Goto, cache
  <2>2. pc' \in [Tasks -> Places]
    BY <1>0, <1>1 DEF Serve, Goto, Places, Holding
  <2>3. ~cached /\ cached' = cached
    BY <1>0, <1>1 DEF Serve, Asked, At, cache
  <2> QED
    BY <2>1, <2>2, <2>3 DEF Asked
<1>2. CASE TargetReplies(p)
  <2>1. PICK to \in {"probing", "failed"} : Goto(p, to)
    BY <1>2 DEF TargetReplies
  <2>2. pc' \in [Tasks -> Places]
    BY <1>0, <2>1 DEF Goto, Places
  <2>3. Outside(pc[p]) /\ Outside(to) /\ UNCHANGED <<permits, queue, cached>>
    BY <1>2, ScanPositions DEF TargetReplies, cache
  <2> QED
    BY <2>1, <2>2, <2>3, OutsideTheLock
<1> QED
  BY <1>1, <1>2, LookInv, EnterInv, AnsweredInv DEF Coroutine

LEMMA ThreadInv ==
  ASSUME ScanInv, NEW p \in Tasks, Thread(p)
  PROVE  SemInv' /\ Asked' /\ pc' \in [Tasks -> Places]
<1>1. PICK to \in {"probing", "calling", "done"} : Goto(p, to)
  BY DEF Thread, StartProbe, CallTarget, Finish, Raise
<1>2. Outside(pc[p]) /\ UNCHANGED <<permits, queue, cached>>
  BY ScanPositions DEF Thread, StartProbe, CallTarget, Finish, Raise, cache, Idle
<1>3. Outside(to)
  BY <1>1, ScanPositions DEF Idle
<1>4. pc' \in [Tasks -> Places]
  BY <1>1 DEF ScanInv, ScanTypeOK, Goto, Places, Idle
<1> QED
  BY <1>1, <1>2, <1>3, <1>4, OutsideTheLock

LEMMA ScanNext == ScanInv /\ [Next]_vars => ScanInv'
<1> SUFFICES ASSUME ScanInv, [Next]_vars PROVE ScanInv'
  OBVIOUS
<1>t. ScanTypeOK /\ SemInv /\ Asked
  BY DEF ScanInv
<1>1. ASSUME SemInv', Asked', pc' \in [Tasks -> Places],
             structured' \in BOOLEAN, cached' \in BOOLEAN, foreign' \in BOOLEAN,
             calls' \in [Tasks -> 0..MaxCalls], hurt' \subseteq Tasks,
             report' \in [Tasks -> {"none", "scenarios", "error"}],
             abandoned' \in BOOLEAN, closing' \in BOOLEAN,
             answer' \in {"none", "given", "cancelled"}
      PROVE  ScanInv'
  <2>1. permits' \in Nat /\ queue' \in Seq(Tasks) /\ permits' + Cardinality(Holders') = 1
        /\ IsFiniteSet(Holders')
    BY <1>1 DEF SemInv, Lists, PermitsConserved, Limited
  <2>2. Cardinality(Holders') \in Nat
    BY <2>1, FS_CardinalityType
  <2>3. permits' \in 0..MaxPermits
    BY <2>1, <2>2
  <2>4. ScanTypeOK'
    BY <1>1, <2>1, <2>3 DEF ScanTypeOK
  <2> QED
    BY <1>1, <2>4 DEF ScanInv
<1>2. ASSUME NEW p \in Tasks, Thread(p) PROVE ScanInv'
  <2>1. SemInv' /\ Asked' /\ pc' \in [Tasks -> Places]
    BY <1>2, ThreadInv
  <2>2. /\ calls' \in [Tasks -> 0..MaxCalls] /\ hurt' \subseteq Tasks
        /\ report' \in [Tasks -> {"none", "scenarios", "error"}]
    BY <1>2, <1>t DEF ScanTypeOK, Thread, StartProbe, CallTarget, Finish, Raise, scan
  <2>3. UNCHANGED <<structured, cached, foreign, abandoned, closing, answer>>
    BY <1>2 DEF Thread, StartProbe, CallTarget, Finish, Raise, scan, cache
  <2> QED
    BY <1>1, <1>t, <2>1, <2>2, <2>3 DEF ScanTypeOK
<1>3. ASSUME NEW p \in Tasks, Coroutine(p) PROVE ScanInv'
  <2>1. SemInv' /\ Asked' /\ pc' \in [Tasks -> Places]
    BY <1>3, CoroutineInv
  <2>2. structured' \in BOOLEAN /\ cached' \in BOOLEAN /\ foreign' \in BOOLEAN
    BY <1>3, <1>t DEF ScanTypeOK, Coroutine, Look, Enter, Serve, Answered, TargetReplies, cache
  <2>3. hurt' \subseteq Tasks /\ UNCHANGED <<calls, report, abandoned, closing, answer>>
    BY <1>3, <1>t DEF ScanTypeOK, Coroutine
  <2> QED
    BY <1>1, <1>t, <2>1, <2>2, <2>3 DEF ScanTypeOK
<1>4. ASSUME LeaveGroup \/ LeavePool PROVE ScanInv'
  <2>1. SemInv' /\ Asked'
    BY <1>4, <1>t, SemInvStutter DEF LeaveGroup, LeavePool, cache, Asked, At
  <2> QED
    BY <1>1, <1>4, <1>t, <2>1 DEF ScanTypeOK, LeaveGroup, LeavePool, cache
<1>5. CASE Abandon
  <2>1. pc' \in [Tasks -> Places]
    BY <1>5, <1>t DEF Abandon, ScanTypeOK, Places, Idle
  <2>2. /\ UNCHANGED <<permits, queue, cached>>
        /\ \A d \in Tasks : pc'[d] # pc[d] => pc[d] = "queued" /\ pc'[d] = "dropped"
        /\ pc' = [d \in Tasks |-> pc'[d]]
    BY <1>5, <1>t DEF Abandon, cache, ScanTypeOK
  <2>3. Holders' = Holders /\ At("granted")' = At("granted")
    BY <2>2 DEF Holders, Holding, At
  <2>4. Lists(queue', pc')
    BY <1>t, <2>2 DEF SemInv, Lists
  <2>5. SemInv'
    BY <1>t, <2>2, <2>3, <2>4 DEF SemInv, PermitsConserved, NoLostWakeup
  <2>6. Asked'
    BY <1>t, <2>2 DEF Asked, At
  <2> QED
    BY <1>1, <1>5, <1>t, <2>1, <2>5, <2>6 DEF ScanTypeOK, Abandon, cache
<1>6. CASE UNCHANGED vars
  <2>1. SemInv' /\ Asked'
    BY <1>6, <1>t, SemInvStutter DEF vars, cache, Asked, At
  <2> QED
    BY <1>1, <1>6, <1>t, <2>1 DEF ScanTypeOK, vars, cache, scan
<1> QED
  BY <1>2, <1>3, <1>4, <1>5, <1>6 DEF Next

LEMMA SpecScanInv == Spec => []ScanInv
<1> QED
  BY ScanInit, ScanNext, PTL DEF Spec

(* Threads, lock and loop keep their types.                                *)
THEOREM ScanTypeCorrect == Spec => []ScanTypeOK
<1> ScanInv => ScanTypeOK
  BY DEF ScanInv
<1> QED
  BY SpecScanInv, PTL

(* However many probes miss the cache together, the model is asked for the *)
(* template by one at a time, and no more once it is known.                *)
THEOREM TheModelIsAskedOnce == Spec => []OneCallPerTemplate
<1>1. ASSUME ScanInv PROVE OneCallPerTemplate
  <2>1. SemInv /\ Asked
    BY <1>1 DEF ScanInv
  <2> DEFINE A == At("asking") \cup At("running")
  <2>2. CASE A = {}
    BY <2>2, FS_EmptySet DEF OneCallPerTemplate
  <2>3. CASE A # {}
    <3>1. PICK p \in A : p \in Holders
      BY <2>3 DEF At, Holders, Holding
    <3>2. A = {p}
      BY <2>1, <3>1, SoleHolder DEF At, Holders, Holding
    <3>3. Cardinality(A) = 1
      BY <3>2, FS_Singleton
    <3> QED
      BY <2>1, <3>3 DEF OneCallPerTemplate, Asked
  <2> QED
    BY <2>2, <2>3
<1> QED
  BY <1>1, SpecScanInv, PTL

-----------------------------------------------------------------------------
(* What a probe has to tell, wherever it is; and the scan is only left with *)
(* an answer when every probe was through.                                 *)
Tells(p) ==
    /\ pc[p] = "done" => report[p] = IF p \in hurt THEN "error" ELSE "scenarios"
    /\ pc[p] # "done" /\ p \in hurt => pc[p] = "failed"
    /\ pc[p] = "dropped" => abandoned
    /\ closing /\ ~abandoned => pc[p] = "done"

Concluded == answer = "given" => closing /\ ~abandoned

TellInv == ScanInv /\ (\A p \in Tasks : Tells(p)) /\ Concluded

(* In a coroutine a probe stays between its call and its reply, and nobody  *)
(* else moves, save to a permit.                                           *)
LEMMA CoroutineMoves ==
  ASSUME ScanInv, NEW p \in Tasks, Coroutine(p)
  PROVE  /\ pc[p] \notin {"queued", "done", "dropped", "failed"}
         /\ pc'[p] \notin {"queued", "done", "dropped"}
         /\ \A d \in Tasks \ {p} : pc'[d] = pc[d] \/ (pc[d] = "waiting" /\ pc'[d] = "granted")
<1>1. SemInv /\ pc \in [Tasks -> Places]
  BY DEF ScanInv, ScanTypeOK
<1>2. ASSUME NEW to, pc' = [pc EXCEPT ![p] = to], to \notin {"queued", "done", "dropped"},
             pc[p] \notin {"queued", "done", "dropped", "failed"}
      PROVE  /\ pc[p] \notin {"queued", "done", "dropped", "failed"}
             /\ pc'[p] \notin {"queued", "done", "dropped"}
             /\ \A d \in Tasks \ {p} : pc'[d] = pc[d] \/ (pc[d] = "waiting" /\ pc'[d] = "granted")
  BY <1>1, <1>2
<1>3. ASSUME NEW to, to \notin {"waiting", "queued", "done", "dropped"},
             pc[p] \in {"granted", "running"}, Resume(p, to) \/ Release(p, to)
      PROVE  /\ pc[p] \notin {"queued", "done", "dropped", "failed"}
             /\ pc'[p] \notin {"queued", "done", "dropped"}
             /\ \A d \in Tasks \ {p} : pc'[d] = pc[d] \/ (pc[d] = "waiting" /\ pc'[d] = "granted")
  <2>1. \A d \in Tasks : \/ pc'[d] = IF d = p THEN to ELSE pc[d]
                         \/ pc'[d] = "granted" /\ pc[d] = "waiting" /\ d # p
    BY <1>1, <1>3, SemGrants
  <2> QED
    BY <1>3, <2>1
<1>4. CASE Look(p)
  BY <1>2, <1>4 DEF Look, Goto, Acquire, Enqueue
<1>5. CASE Enter(p)
  BY <1>3, <1>5 DEF Enter
<1>6. CASE Serve(p)
  BY <1>2, <1>6 DEF Serve, Goto
<1>7. CASE Answered(p)
  BY <1>3, <1>7 DEF Answered
<1>8. CASE TargetReplies(p)
  BY <1>2, <1>8 DEF TargetReplies, Goto
<1> QED
  BY <1>4, <1>5, <1>6, <1>7, <1>8 DEF Coroutine

LEMMA TellNext == TellInv /\ [Next]_vars => TellInv'
<1> SUFFICES ASSUME TellInv, [Next]_vars PROVE TellInv'
  OBVIOUS
<1>1. ScanInv' /\ ScanInv /\ pc \in [Tasks -> Places] /\ report \in [Tasks -> {"none", "scenarios", "error"}]
  BY ScanNext DEF TellInv, ScanInv, ScanTypeOK
<1>2. (\A p \in Tasks : Tells(p)) /\ Concluded
  BY DEF TellInv
<1>3. ASSUME NEW p \in Tasks, Thread(p) PROVE (\A d \in Tasks : Tells(d)') /\ Concluded'
  <2>1. UNCHANGED <<abandoned, closing, answer>>
    BY <1>3 DEF Thread, StartProbe, CallTarget, Finish, Raise, scan
  <2>2. Tells(p)'
    <3>1. CASE StartProbe(p) \/ CallTarget(p)
      BY <1>1, <1>2, <3>1 DEF StartProbe, CallTarget, Goto, scan, Tells
    <3>2. CASE Finish(p) \/ Raise(p)
      BY <1>1, <1>2, <3>2 DEF Finish, Raise, Goto, Tells
    <3> QED
      BY <1>3, <3>1, <3>2 DEF Thread
  <2>3. \A d \in Tasks \ {p} : pc'[d] = pc[d] /\ report'[d] = report[d] /\ (d \in hurt' <=> d \in hurt)
    BY <1>1, <1>3 DEF Thread, StartProbe, CallTarget, Finish, Raise, Goto, scan
  <2>4. \A d \in Tasks \ {p} : Tells(d)'
    BY <1>2, <2>1, <2>3 DEF Tells
  <2> QED
    BY <1>2, <2>1, <2>2, <2>4 DEF Concluded
<1>4. ASSUME NEW p \in Tasks, Coroutine(p) PROVE (\A d \in Tasks : Tells(d)') /\ Concluded'
  <2>1. /\ pc[p] \notin {"queued", "done", "dropped", "failed"}
        /\ pc'[p] \notin {"queued", "done", "dropped"}
        /\ \A d \in Tasks \ {p} : pc'[d] = pc[d] \/ (pc[d] = "waiting" /\ pc'[d] = "granted")
    BY <1>1, <1>4, CoroutineMoves
  <2>2. /\ ~closing /\ hurt' = IF pc'[p] = "failed" THEN hurt \cup {p} ELSE hurt
        /\ UNCHANGED <<report, abandoned, closing, answer>>
    BY <1>4 DEF Coroutine
  <2>3. Tells(p)'
    BY <1>2, <2>1, <2>2 DEF Tells
  <2>4. \A d \in Tasks \ {p} : Tells(d)'
    BY <1>2, <2>1, <2>2 DEF Tells
  <2> QED
    BY <1>2, <2>2, <2>3, <2>4 DEF Concluded
<1>5. CASE LeaveGroup
  <2>1. ~abandoned => \A p \in Tasks : pc[p] \in {"done", "dropped"}
    BY <1>5 DEF LeaveGroup, Ended
  <2> QED
    BY <1>1, <1>2, <1>5, <2>1 DEF LeaveGroup, TellInv, Tells, Concluded
<1>6. CASE LeavePool
  BY <1>1, <1>2, <1>6 DEF LeavePool, TellInv, Tells, Concluded
<1>7. CASE Abandon
  BY <1>1, <1>2, <1>7 DEF Abandon, TellInv, Tells, Concluded
<1>8. CASE UNCHANGED vars
  BY <1>1, <1>2, <1>8 DEF vars, scan, TellInv, Tells, Concluded
<1> QED
  BY <1>1, <1>3, <1>4, <1>5, <1>6, <1>7, <1>8 DEF Next, TellInv

(* GarakScanAdapter.run: one bad probe neither aborts the scan nor          *)
(* disappears from it.  A scan that was not cancelled reports on every one *)
(* of any number of probes, and those in which something failed, and no    *)
(* others, are in error.                                                   *)
THEOREM EveryProbeIsTold == Spec => []EveryProbeTells
<1>1. Init => TellInv
  BY ScanInit DEF Init, TellInv, Tells, Concluded
<1>2. TellInv => EveryProbeTells
  BY DEF TellInv, Tells, Concluded, EveryProbeTells
<1> QED
  BY <1>1, <1>2, TellNext, PTL DEF Spec
=============================================================================
