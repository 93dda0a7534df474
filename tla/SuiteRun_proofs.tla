---------------------------- MODULE SuiteRun_proofs ----------------------------
(***************************************************************************)
(* For any number of scenarios and permits, serial or parallel, however    *)
(* scenarios end and whenever the caller cancels: Suite.run keeps the      *)
(* contract of SuiteContract, and its live tally is true at every moment.  *)
(* The semaphore's part is cited from AsyncSemaphore_proofs.               *)
(***************************************************************************)
EXTENDS SuiteRun, AsyncSemaphore_proofs

USE TasksAssumption, MaxPermitsAssumption

Places == {"created", "waiting", "granted"} \cup Working \cup Ended

(* A task is where its kind of run can take it. *)
Placed ==
    \A i \in Tasks : IF parallel THEN pc[i] # "alone"
                     ELSE pc[i] \in {"created", "alone"} \cup Ended

(* What ended in a result has one. *)
Judged == \A i \in Tasks : pc[i] = "done" => verdict[i] \in Statuses

(* A serial run starts a scenario when all before it have a result, and     *)
(* goes on only while nothing else came of them.                            *)
OneByOne ==
    ~parallel =>
        /\ \A i, j \in Tasks : j < i /\ pc[i] # "created" => pc[j] = "done"
        /\ answer = Undecided => \A i \in Tasks : pc[i] \in {"created", "alone", "done"}

(* The group heard of tasks that ended, and has the exceptions of those     *)
(* that failed.                                                             *)
Heard ==
    /\ \A i \in noticed : pc[i] \in Ended
    /\ errors = {i \in noticed : pc[i] = "failed"}

(* After the answer nothing is left to happen. *)
Quiet ==
    answer # Undecided =>
        /\ \A i \in Tasks : pc[i] \in Ended \/ (~parallel /\ pc[i] = "created")
        /\ parallel => noticed = Tasks

SuiteInv == TypeOK /\ SemInv /\ Placed /\ Judged /\ OneByOne /\ Heard /\ Quiet

(* What a step may not undo. *)
Steady ==
    \A d \in Tasks : pc[d] \in Ended => pc'[d] = pc[d] /\ verdict'[d] = verdict[d]

LEMMA SuitePositions ==
    /\ \A p \in Ended \cup {"created", "alone"} : Outside(p)
    /\ "running" \in Inside
BY DEF Outside, Inside, Holding, Ended

LEMMA UndecidedIsAnswer == Undecided \in Answers /\ Cancelled \in Answers
BY EmptySeq DEF Answers, Undecided, Cancelled

LEMMA OnlyUndecided ==
    /\ Cancelled # Undecided
    /\ \A r : Returned(r) # Undecided /\ Raised(r) # Undecided
    /\ \A r, s : Returned(r) # Cancelled /\ Returned(r) # Raised(s) /\ Raised(s) # Cancelled
BY DEF Cancelled, Undecided, Returned, Raised

LEMMA StatusNames ==
    Statuses \cap (Ended \cup {"none"}) = {}
BY DEF Statuses, Ended

LEMMA SuiteInit == Init => SuiteInv
<1> SUFFICES ASSUME Init PROVE SuiteInv
  OBVIOUS
<1>1. SemInv
  BY SuitePositions, SemInvInit DEF Init
<1>2. TypeOK
  <2>1. permits \in Nat /\ queue \in Seq(Tasks)
    BY <1>1, SemInvQueue DEF SemInv
  <2>2. pc \in [Tasks -> {"created", "waiting", "granted"} \cup Working \cup Ended]
    BY DEF Init
  <2> QED
    BY <2>1, <2>2, UndecidedIsAnswer DEF Init, TypeOK
<1>3. Placed /\ Judged /\ OneByOne /\ Heard /\ Quiet
  BY DEF Init, Placed, Judged, OneByOne, Heard, Quiet
<1> QED
  BY <1>1, <1>2, <1>3 DEF SuiteInv

-----------------------------------------------------------------------------
(* A step that takes one task from a place to another, and may hand permits *)
(* to tasks that wait.                                                      *)
Moves(i, p) ==
    \A d \in Tasks :
        \/ pc'[d] = IF d = i THEN p ELSE pc[d]
        \/ pc'[d] = "granted" /\ pc[d] = "waiting" /\ d # i

LEMMA MovesPlaces ==
  ASSUME SuiteInv, SemInv', NEW i \in Tasks, NEW p \in Places, Moves(i, p)
  PROVE  pc' \in [Tasks -> Places]
<1>1. pc' = [d \in Tasks |-> pc'[d]]
  BY DEF SemInv, Lists
<1>2. \A d \in Tasks : pc'[d] \in Places
  BY DEF SuiteInv, TypeOK, Moves, Places
<1> QED
  BY <1>1, <1>2

LEMMA SetPlace ==
  ASSUME SuiteInv, NEW i \in Tasks, NEW p, pc' = [pc EXCEPT ![i] = p]
  PROVE  Moves(i, p)
BY DEF SuiteInv, SemInv, Lists, Moves

(* Types of what a step of one task sets besides the places.                *)
Rest ==
    /\ verdict' \in [Tasks -> Statuses \cup {"none"}]
    /\ tally' \in [Statuses -> Nat]
    /\ cancelling' \subseteq Tasks
    /\ aborting' \in BOOLEAN /\ abandoned' \in BOOLEAN
    /\ answer' \in Answers

LEMMA StepKeeps ==
  ASSUME SuiteInv, SemInv', NEW i \in Tasks, NEW p \in Places, Moves(i, p),
         pc[i] \notin Ended, p # "created", answer = Undecided,
         parallel => p # "alone" /\ answer' = Undecided,
         ~parallel => /\ p \in {"alone"} \cup Ended
                      /\ \A j \in 1..(i - 1) : pc[j] = "done"
                      /\ answer' = Undecided => p \in {"alone", "done"}
                      /\ answer' # Undecided => p \in Ended,
         \A d \in Tasks : d # i => verdict'[d] = verdict[d],
         p = "done" => verdict'[i] \in Statuses,
         Rest, UNCHANGED <<parallel, noticed, errors>>
  PROVE  SuiteInv' /\ Steady
<1>1. pc' \in [Tasks -> Places] /\ pc \in [Tasks -> Places]
  BY MovesPlaces DEF SuiteInv, TypeOK, Places
<1>2. pc'[i] = p /\ \A d \in Tasks : d # i => (pc'[d] = pc[d] \/ (pc'[d] = "granted" /\ pc[d] = "waiting"))
  BY DEF Moves
<1>3. Steady
  BY <1>2 DEF Steady, Ended
<1>4. TypeOK'
  <2>1. permits' \in Nat /\ queue' \in Seq(Tasks)
    BY DEF SemInv, Lists
  <2>2. parallel' \in BOOLEAN /\ noticed' \subseteq Tasks /\ errors' \subseteq Tasks
    BY DEF SuiteInv, TypeOK
  <2> QED
    BY <1>1, <2>1, <2>2 DEF TypeOK, Rest, Places
<1>5. Placed'
  BY <1>2 DEF SuiteInv, Placed, Ended
<1>6. Judged'
  BY <1>2 DEF SuiteInv, Judged
<1>7. ~parallel => \A d \in Tasks : d # i => pc'[d] = pc[d]
  BY <1>2 DEF SuiteInv, Placed, Ended
<1>8. ~parallel => \A d \in Tasks : d < i => pc[d] = "done"
  BY DEF SuiteInv
<1>9. ~parallel => \A d \in Tasks : d > i => pc[d] = "created"
  BY DEF SuiteInv, OneByOne, Ended
<1>10. OneByOne'
  <2> SUFFICES ASSUME ~parallel PROVE OneByOne'
    BY DEF OneByOne
  <2>1. \A k, j \in Tasks : j < k /\ pc'[k] # "created" => pc'[j] = "done"
    <3> SUFFICES ASSUME NEW k \in Tasks, NEW j \in Tasks, j < k, pc'[k] # "created"
                 PROVE pc'[j] = "done"
      OBVIOUS
    <3>1. ~(k > i)
      BY <1>7, <1>9
    <3>2. j < i
      BY <3>1
    <3> QED
      BY <3>2, <1>7, <1>8
  <2>2. answer' = Undecided => \A k \in Tasks : pc'[k] \in {"created", "alone", "done"}
    BY <1>2, <1>7 DEF SuiteInv, OneByOne
  <2> QED
    BY <2>1, <2>2 DEF OneByOne
<1>11. Heard'
  <2>1. \A d \in noticed : d # i /\ pc'[d] = pc[d]
    BY <1>2 DEF SuiteInv, Heard, Ended, TypeOK
  <2> QED
    BY <2>1 DEF SuiteInv, Heard
<1>12. Quiet'
  <2> SUFFICES ASSUME answer' # Undecided PROVE Quiet'
    BY DEF Quiet
  <2>1. ~parallel /\ p \in Ended
    OBVIOUS
  <2>2. \A d \in Tasks : pc'[d] \in Ended \/ pc'[d] = "created"
    <3> TAKE d \in Tasks
    <3>1. CASE d = i
      BY <2>1, <1>2, <3>1
    <3>2. CASE d < i
      BY <2>1, <1>7, <1>8, <3>2 DEF Ended
    <3>3. CASE d > i
      BY <2>1, <1>7, <1>9, <3>3
    <3> QED
      BY <3>1, <3>2, <3>3
  <2> QED
    BY <2>1, <2>2 DEF Quiet
<1> QED
  BY <1>3, <1>4, <1>5, <1>6, <1>10, <1>11, <1>12 DEF SuiteInv

(* A scenario leaves: from the semaphore in a parallel run. *)
LEMMA LeaveMoves ==
  ASSUME SuiteInv, NEW i \in Tasks, pc[i] \in Working, NEW p \in Ended, Leave(i, p)
  PROVE  SemInv' /\ Moves(i, p)
<1>1. CASE parallel
  <2>1. pc[i] = "running" /\ Release(i, p)
    BY <1>1 DEF SuiteInv, Placed, Working, Leave
  <2>2. SemInv'
    BY <2>1, SuitePositions, ReleaseSemInv DEF SuiteInv
  <2>3. p # "waiting"
    BY DEF Ended
  <2> QED
    BY <2>1, <2>2, <2>3, SemGrants DEF SuiteInv, Moves
<1>2. CASE ~parallel
  <2>1. pc[i] = "alone" /\ pc' = [pc EXCEPT ![i] = p] /\ UNCHANGED <<permits, queue>>
    BY <1>2 DEF SuiteInv, Placed, Working, Ended, Leave
  <2>2. SemInv'
    BY <2>1, SuitePositions, MoveSemInv DEF SuiteInv
  <2> QED
    BY <2>1, <2>2, SetPlace
<1> QED
  BY <1>1, <1>2

(* A scenario at work means that the run has not answered yet, and that in  *)
(* a serial run all scenarios before it have a result.                      *)
LEMMA AtWorkFacts ==
  ASSUME SuiteInv, NEW i \in Tasks, pc[i] \in Places \ Ended, pc[i] # "created" \/ parallel
  PROVE  /\ answer = Undecided
         /\ ~parallel => \A j \in 1..(i - 1) : pc[j] = "done"
<1>1. answer = Undecided
  BY DEF SuiteInv, Quiet, Ended
<1>2. ~parallel => \A j \in 1..(i - 1) : pc[j] = "done"
  BY DEF SuiteInv, OneByOne
<1> QED
  BY <1>1, <1>2

-----------------------------------------------------------------------------
(* One lemma for each action: the invariant holds and what ended stays so.  *)
LEMMA StartAloneKeeps ==
  ASSUME SuiteInv, NEW i \in Tasks, StartAlone(i)
  PROVE  SuiteInv' /\ Steady
<1>1. /\ ~parallel /\ answer = Undecided /\ pc[i] = "created"
      /\ \A j \in 1..(i - 1) : pc[j] = "done"
      /\ pc' = [pc EXCEPT ![i] = "alone"]
      /\ UNCHANGED <<parallel, permits, queue, verdict, tally, group, answer>>
  BY DEF StartAlone
<1>2. SemInv'
  BY <1>1, SuitePositions, MoveSemInv DEF SuiteInv
<1>3. Moves(i, "alone")
  BY <1>1, SetPlace
<1>4. Rest
  BY <1>1 DEF SuiteInv, TypeOK, Rest, group
<1>5. "alone" \in Places /\ pc[i] \notin Ended
  BY <1>1 DEF Places, Working, Ended
<1> QED
  BY <1>1, <1>2, <1>3, <1>4, <1>5, StepKeeps DEF group

LEMMA StartKeeps ==
  ASSUME SuiteInv, NEW i \in Tasks, Start(i)
  PROVE  SuiteInv' /\ Steady
<1>1. /\ parallel /\ pc[i] = "created"
      /\ Acquire(i, "running") \/ Enqueue(i)
      /\ UNCHANGED <<parallel, verdict, tally, group, answer>>
  BY DEF Start
<1>2. SemInv'
  BY <1>1, SuitePositions, AcquireSemInv, EnqueueSemInv DEF SuiteInv
<1>3. PICK p \in {"running", "waiting"} : pc' = [pc EXCEPT ![i] = p]
  BY <1>1 DEF Acquire, Enqueue
<1>4. Moves(i, p)
  BY <1>3, SetPlace
<1>5. answer = Undecided
  BY <1>1 DEF SuiteInv, Quiet, Ended
<1>6. Rest
  BY <1>1 DEF SuiteInv, TypeOK, Rest, group
<1>7. p \in Places /\ p # "created" /\ p # "alone" /\ p # "done" /\ pc[i] \notin Ended
  BY <1>1 DEF Places, Working, Ended
<1> QED
  BY <1>1, <1>2, <1>4, <1>5, <1>6, <1>7, StepKeeps DEF group

LEMMA ProceedKeeps ==
  ASSUME SuiteInv, NEW i \in Tasks, Proceed(i)
  PROVE  SuiteInv' /\ Steady
<1>1. /\ Resume(i, "running") /\ pc[i] = "granted"
      /\ UNCHANGED <<parallel, verdict, tally, group, answer>>
  BY DEF Proceed, Resume
<1>2. SemInv'
  BY <1>1, SuitePositions, ResumeSemInv DEF SuiteInv
<1>3. Moves(i, "running")
  BY <1>1, SemGrants DEF SuiteInv, Moves
<1>4. parallel /\ answer = Undecided
  BY <1>1 DEF SuiteInv, Placed, Quiet, Ended
<1>5. Rest
  BY <1>1 DEF SuiteInv, TypeOK, Rest, group
<1>6. "running" \in Places /\ pc[i] \notin Ended
  BY <1>1 DEF Places, Working, Ended
<1> QED
  BY <1>1, <1>2, <1>3, <1>4, <1>5, <1>6, StepKeeps DEF group

LEMMA WorkingFacts ==
  ASSUME SuiteInv, NEW i \in Tasks, pc[i] \in Working
  PROVE  /\ answer = Undecided /\ pc[i] \notin Ended
         /\ ~parallel => \A j \in 1..(i - 1) : pc[j] = "done"
BY AtWorkFacts DEF Working, Places, Ended

LEMMA CompleteKeeps ==
  ASSUME SuiteInv, NEW i \in Tasks, NEW st \in Statuses, Complete(i, st)
  PROVE  SuiteInv' /\ Steady /\ Moves(i, "done")
<1>1. /\ pc[i] \in Working /\ Leave(i, "done")
      /\ verdict' = [verdict EXCEPT ![i] = st] /\ tally' = [tally EXCEPT ![st] = @ + 1]
      /\ UNCHANGED <<parallel, group, answer>>
  BY DEF Complete, Record
<1>2. "done" \in Ended /\ "done" \in Places
  BY DEF Places, Ended
<1>3. SemInv' /\ Moves(i, "done")
  BY <1>1, <1>2, LeaveMoves
<1>4. /\ verdict' \in [Tasks -> Statuses \cup {"none"}] /\ verdict'[i] \in Statuses
      /\ \A d \in Tasks : d # i => verdict'[d] = verdict[d]
  BY <1>1 DEF SuiteInv, TypeOK
<1>5. tally' \in [Statuses -> Nat]
  BY <1>1 DEF SuiteInv, TypeOK
<1>6. Rest
  BY <1>1, <1>4, <1>5 DEF SuiteInv, TypeOK, Rest, group
<1> QED
  BY <1>1, <1>2, <1>3, <1>4, <1>6, WorkingFacts, StepKeeps DEF group

LEMMA FailKeeps ==
  ASSUME SuiteInv, NEW i \in Tasks, Fail(i)
  PROVE  SuiteInv' /\ Steady /\ Moves(i, "failed")
<1>1. /\ pc[i] \in Working /\ Leave(i, "failed") /\ cancelling' = cancelling \ {i}
      /\ answer' = IF parallel THEN answer ELSE Raised({i})
      /\ UNCHANGED <<parallel, verdict, tally, noticed, errors, aborting, abandoned>>
  BY DEF Fail
<1>2. "failed" \in Ended /\ "failed" \in Places
  BY DEF Places, Ended
<1>3. SemInv' /\ Moves(i, "failed")
  BY <1>1, <1>2, LeaveMoves
<1>4. Raised({i}) \in Answers /\ Raised({i}) # Undecided
  BY EmptySeq, OnlyUndecided DEF Raised, Answers
<1>5. Rest
  BY <1>1, <1>4 DEF SuiteInv, TypeOK, Rest
<1> QED
  BY <1>1, <1>2, <1>3, <1>4, <1>5, WorkingFacts, StepKeeps

LEMMA LetThroughKeeps ==
  ASSUME SuiteInv, NEW i \in Tasks, LetThrough(i)
  PROVE  SuiteInv' /\ Steady /\ Moves(i, "cancelled")
<1>1. /\ pc[i] \in Working /\ Leave(i, "cancelled") /\ cancelling' = cancelling \ {i}
      /\ answer' = IF parallel THEN answer ELSE Cancelled
      /\ UNCHANGED <<parallel, verdict, tally, noticed, errors, aborting, abandoned>>
  BY DEF LetThrough
<1>2. "cancelled" \in Ended /\ "cancelled" \in Places
  BY DEF Places, Ended
<1>3. SemInv' /\ Moves(i, "cancelled")
  BY <1>1, <1>2, LeaveMoves
<1>4. Cancelled \in Answers /\ Cancelled # Undecided
  BY UndecidedIsAnswer, OnlyUndecided
<1>5. Rest
  BY <1>1, <1>4 DEF SuiteInv, TypeOK, Rest
<1> QED
  BY <1>1, <1>2, <1>3, <1>4, <1>5, WorkingFacts, StepKeeps

LEMMA GiveBackKeeps ==
  ASSUME SuiteInv, NEW i \in Tasks, GiveBack(i)
  PROVE  SuiteInv' /\ Steady
<1>1. /\ pc[i] = "granted" /\ Withdraw(i, "cancelled") /\ cancelling' = cancelling \ {i}
      /\ UNCHANGED <<parallel, verdict, tally, noticed, errors, aborting, abandoned, answer>>
  BY DEF GiveBack
<1>2. "cancelled" \in Ended /\ "cancelled" \in Places /\ pc[i] \notin Ended
  BY <1>1 DEF Places, Ended
<1>3. SemInv'
  BY <1>1, <1>2, SuitePositions, WithdrawSemInv DEF SuiteInv
<1>4. Moves(i, "cancelled")
  BY <1>1, SemGrants DEF SuiteInv, Moves
<1>5. parallel /\ answer = Undecided
  BY <1>1 DEF SuiteInv, Placed, Quiet, Ended
<1>6. Rest
  BY <1>1 DEF SuiteInv, TypeOK, Rest
<1> QED
  BY <1>1, <1>2, <1>3, <1>4, <1>5, <1>6, StepKeeps

-----------------------------------------------------------------------------
(* The group and the answers. *)
LEMMA StillKeeps ==
  ASSUME SuiteInv, UNCHANGED <<parallel, pc, permits, queue, verdict, tally, answer, noticed, errors>>,
         cancelling' \subseteq Tasks, aborting' \in BOOLEAN, abandoned' \in BOOLEAN
  PROVE  SuiteInv' /\ Steady
<1>1. SemInv'
  BY SemInvStutter DEF SuiteInv
<1>2. TypeOK'
  BY DEF SuiteInv, TypeOK
<1>3. Placed' /\ Judged' /\ OneByOne' /\ Heard' /\ Quiet'
  BY DEF SuiteInv, Placed, Judged, OneByOne, Heard, Quiet
<1> QED
  BY <1>1, <1>2, <1>3 DEF SuiteInv, Steady

(* An abort takes the tasks that do not work away from their places.        *)
LEMMA AbortMoves ==
  ASSUME SuiteInv, parallel, Abort
  PROVE  /\ SemInv' /\ pc' \in [Tasks -> Places]
         /\ \A d \in Tasks : pc'[d] = pc[d] \/ (pc[d] \in {"created", "waiting"} /\ pc'[d] = "cancelled")
         /\ cancelling' \subseteq Tasks /\ aborting' \in BOOLEAN
<1>1. /\ aborting' = TRUE /\ permits' = permits /\ queue' = <<>>
      /\ pc' = [d \in Tasks |-> IF pc[d] \in {"created", "waiting"} THEN "cancelled" ELSE pc[d]]
      /\ cancelling' = {d \in Tasks : pc[d] \in {"granted", "running"}}
  BY DEF Abort
<1>2. Holders' = Holders /\ ~(\E d \in Tasks : pc'[d] = "waiting")
  BY <1>1 DEF Holders, Holding
<1>3. Lists(queue', pc')
  BY <1>1, <1>2, EmptySeq DEF Lists
<1>4. SemInv'
  BY <1>1, <1>2, <1>3 DEF SuiteInv, SemInv, PermitsConserved, NoLostWakeup
<1>5. pc' \in [Tasks -> Places]
  BY <1>1 DEF SuiteInv, TypeOK, Places, Ended
<1> QED
  BY <1>1, <1>4, <1>5

LEMMA AbortKeeps ==
  ASSUME SuiteInv, parallel, Abort \/ NoAbort,
         \/ UNCHANGED <<noticed, errors>>
         \/ \E i \in Tasks :
              /\ pc[i] \in Ended /\ noticed' = noticed \cup {i}
              /\ errors' = IF pc[i] = "failed" THEN errors \cup {i} ELSE errors,
         UNCHANGED <<parallel, verdict, tally, answer>>, abandoned' \in BOOLEAN,
         answer = Undecided
  PROVE  SuiteInv' /\ Steady
<1>1. /\ SemInv' /\ pc' \in [Tasks -> Places]
      /\ \A d \in Tasks : pc'[d] = pc[d] \/ (pc[d] \in {"created", "waiting"} /\ pc'[d] = "cancelled")
      /\ cancelling' \subseteq Tasks /\ aborting' \in BOOLEAN
  <2>1. CASE Abort
    BY <2>1, AbortMoves
  <2>2. CASE NoAbort
    <3>1. SemInv'
      BY <2>2, SemInvStutter DEF NoAbort, SuiteInv
    <3> QED
      BY <2>2, <3>1 DEF NoAbort, SuiteInv, TypeOK, Places
  <2> QED
    BY <2>1, <2>2
<1>2. noticed' \subseteq Tasks /\ errors' \subseteq Tasks
  BY DEF SuiteInv, TypeOK
<1>3. TypeOK'
  <2>1. permits' \in Nat /\ queue' \in Seq(Tasks)
    BY <1>1 DEF SemInv, Lists
  <2> QED
    BY <1>1, <1>2, <2>1 DEF SuiteInv, TypeOK, Places
<1>4. Steady
  BY <1>1 DEF Steady, Ended
<1>5. \A d \in Tasks : pc'[d] = "done" => pc[d] = "done"
  BY <1>1
<1>6. Placed' /\ Judged' /\ OneByOne' /\ Quiet'
  BY <1>1, <1>5 DEF SuiteInv, Placed, Judged, OneByOne, Quiet
<1>7. Heard'
  <2>1. \A d \in noticed' : pc[d] \in Ended /\ pc'[d] = pc[d]
    BY <1>1, <1>2 DEF SuiteInv, Heard, TypeOK, Ended
  <2>2. errors' = {d \in noticed' : pc[d] = "failed"}
    BY DEF SuiteInv, Heard
  <2>3. errors' = {d \in noticed' : pc'[d] = "failed"}
    BY <2>1, <2>2
  <2> QED
    BY <2>1, <2>3 DEF Heard
<1> QED
  BY <1>1, <1>3, <1>4, <1>6, <1>7 DEF SuiteInv

LEMMA NoticeKeeps ==
  ASSUME SuiteInv, NEW i \in Tasks, Notice(i)
  PROVE  SuiteInv' /\ Steady /\ answer' = answer /\ answer = Undecided
<1>1. /\ parallel /\ pc[i] \in Ended /\ i \notin noticed /\ noticed' = noticed \cup {i}
      /\ errors' = IF pc[i] = "failed" THEN errors \cup {i} ELSE errors
      /\ Abort \/ NoAbort
      /\ UNCHANGED <<parallel, verdict, tally, abandoned, answer>>
  BY DEF Notice
<1>2. answer = Undecided
  BY <1>1 DEF SuiteInv, Quiet
<1>3. abandoned' \in BOOLEAN
  BY <1>1 DEF SuiteInv, TypeOK
<1> QED
  BY <1>1, <1>2, <1>3, AbortKeeps

LEMMA CallerCancelsKeeps ==
  ASSUME SuiteInv, CallerCancels
  PROVE  SuiteInv' /\ Steady /\ answer' = answer /\ answer = Undecided
<1>1. /\ answer = Undecided /\ abandoned' = TRUE
      /\ UNCHANGED <<parallel, verdict, tally, noticed, errors, answer>>
  BY DEF CallerCancels
<1>2. CASE parallel
  <2>1. Abort \/ NoAbort
    BY <1>2 DEF CallerCancels
  <2> QED
    BY <1>1, <1>2, <2>1, AbortKeeps
<1>3. CASE ~parallel
  <2>1. cancelling' = At("alone") /\ UNCHANGED <<aborting, pc, permits, queue>>
    BY <1>3 DEF CallerCancels
  <2>2. cancelling' \subseteq Tasks /\ aborting' \in BOOLEAN /\ abandoned' \in BOOLEAN
    BY <1>1, <2>1 DEF At, SuiteInv, TypeOK
  <2> QED
    BY <1>1, <2>1, <2>2, StillKeeps
<1> QED
  BY <1>2, <1>3

LEMMA SwallowKeeps ==
  ASSUME SuiteInv, NEW i \in Tasks, Swallow(i)
  PROVE  SuiteInv' /\ Steady /\ answer' = answer /\ answer = Undecided
<1>1. /\ pc[i] \in Working /\ cancelling' = cancelling \ {i}
      /\ UNCHANGED <<parallel, pc, permits, queue, verdict, tally,
                     noticed, errors, aborting, abandoned, answer>>
  BY DEF Swallow
<1>2. cancelling' \subseteq Tasks /\ aborting' \in BOOLEAN /\ abandoned' \in BOOLEAN
  BY <1>1 DEF SuiteInv, TypeOK
<1> QED
  BY <1>1, <1>2, StillKeeps, WorkingFacts

(* An answer changes nothing but itself, when everything has ended.         *)
LEMMA AnswerKeeps ==
  ASSUME SuiteInv, Answer \/ AnswerAlone
  PROVE  SuiteInv' /\ Steady /\ answer = Undecided /\ (\A d \in Tasks : pc[d] \in Ended)
<1>1. UNCHANGED <<parallel, pc, permits, queue, verdict, tally, group>> /\ answer = Undecided
  BY DEF Answer, AnswerAlone
<1>2. \A d \in Tasks : pc[d] \in Ended
  BY DEF Answer, AnswerAlone, SuiteInv, Heard, At, Ended
<1>3. At("cancelled") = {} /\ errors = {} /\ noticed = Tasks => \A d \in Tasks : pc[d] = "done"
  BY <1>2 DEF SuiteInv, Heard, At, Ended
<1>4. (\A d \in Tasks : pc[d] = "done") => Returned(verdict) \in Answers
  <2> SUFFICES ASSUME \A d \in Tasks : pc[d] = "done" PROVE Returned(verdict) \in Answers
    OBVIOUS
  <2>1. verdict \in [1..Count -> Statuses]
    BY DEF SuiteInv, TypeOK, Judged
  <2>2. verdict \in Seq(Statuses)
    BY <2>1, SeqDef
  <2> QED
    BY <2>2 DEF Returned, Answers
<1>5. errors \subseteq Tasks /\ Raised(errors) \in Answers
  BY EmptySeq DEF SuiteInv, TypeOK, Raised, Answers
<1>6. answer' \in Answers
  <2>1. CASE Answer
    BY <2>1, <1>3, <1>4, <1>5, UndecidedIsAnswer DEF Answer
  <2>2. CASE AnswerAlone
    BY <2>2, <1>4 DEF AnswerAlone, At
  <2> QED
    BY <2>1, <2>2
<1>7. SemInv'
  BY <1>1, SemInvStutter DEF SuiteInv
<1>8. TypeOK' /\ Placed' /\ Judged' /\ Heard'
  BY <1>1, <1>6 DEF SuiteInv, TypeOK, Placed, Judged, Heard, group
<1>9. OneByOne'
  BY <1>1 DEF SuiteInv, OneByOne
<1>10. Quiet'
  BY <1>1, <1>2 DEF Quiet, Answer, AnswerAlone, group
<1>11. Steady
  BY <1>1 DEF Steady
<1> QED
  BY <1>1, <1>2, <1>7, <1>8, <1>9, <1>10, <1>11 DEF SuiteInv

LEMMA StutterKeeps ==
  ASSUME SuiteInv, UNCHANGED vars
  PROVE  SuiteInv' /\ Steady
BY StillKeeps DEF SuiteInv, TypeOK, vars, group

LEMMA SuiteNext == SuiteInv /\ [Next]_vars => SuiteInv' /\ Steady
<1> SUFFICES ASSUME SuiteInv, [Next]_vars PROVE SuiteInv' /\ Steady
  OBVIOUS
<1>1. CASE CallerCancels
  BY <1>1, CallerCancelsKeeps
<1>2. CASE Answer \/ AnswerAlone
  BY <1>2, AnswerKeeps
<1>3. ASSUME NEW i \in Tasks, StartAlone(i) \/ Start(i) \/ Proceed(i)
      PROVE  SuiteInv' /\ Steady
  BY <1>3, StartAloneKeeps, StartKeeps, ProceedKeeps
<1>4. ASSUME NEW i \in Tasks, Fail(i) \/ LetThrough(i) \/ GiveBack(i)
      PROVE  SuiteInv' /\ Steady
  BY <1>4, FailKeeps, LetThroughKeeps, GiveBackKeeps
<1>5. ASSUME NEW i \in Tasks, Notice(i) \/ Swallow(i)
      PROVE  SuiteInv' /\ Steady
  BY <1>5, NoticeKeeps, SwallowKeeps
<1>6. ASSUME NEW i \in Tasks, NEW st \in Statuses, Complete(i, st)
      PROVE  SuiteInv' /\ Steady
  BY <1>6, CompleteKeeps
<1>7. CASE Over \/ UNCHANGED vars
  BY <1>7, StutterKeeps DEF Over
<1> QED
  BY <1>1, <1>2, <1>3, <1>4, <1>5, <1>6, <1>7 DEF Next, Progress

(* The state of a suite run keeps its types, for any number of scenarios.   *)
THEOREM SuiteTypeCorrect == Spec => []TypeOK
<1>1. SuiteInv => TypeOK
  BY DEF SuiteInv
<1>2. SuiteInv /\ [Next]_vars => SuiteInv'
  BY SuiteNext
<1> QED
  BY SuiteInit, <1>1, <1>2, PTL DEF Spec

-----------------------------------------------------------------------------
(* The tally.  Only Complete lets a task end in a result. *)
DoneWith(st) == {i \in At("done") : verdict[i] = st}

LEMMA NoneCompletes ==
  ASSUME SuiteInv, UNCHANGED <<tally, verdict>>,
         \A d \in Tasks : pc'[d] = "done" <=> pc[d] = "done", TallyIsTrue
  PROVE  TallyIsTrue'
<1>1. At("done")' = At("done")
  BY DEF At
<1> QED
  BY <1>1 DEF TallyIsTrue

LEMMA CompletionCounts ==
  ASSUME SuiteInv, TallyIsTrue, NEW i \in Tasks, NEW st \in Statuses, Complete(i, st)
  PROVE  TallyIsTrue'
<1>1. /\ pc[i] \in Working
      /\ verdict' = [verdict EXCEPT ![i] = st] /\ tally' = [tally EXCEPT ![st] = @ + 1]
  BY DEF Complete, Record
<1>2. /\ verdict'[i] = st /\ \A d \in Tasks : d # i => verdict'[d] = verdict[d]
  BY <1>1 DEF SuiteInv, TypeOK
<1>3. pc[i] # "done" /\ pc'[i] = "done"
  BY <1>1, CompleteKeeps DEF Working, Moves
<1>4. \A d \in Tasks : d # i => (pc'[d] = "done" <=> pc[d] = "done")
  BY CompleteKeeps DEF Moves
<1>5. \A s \in Statuses : DoneWith(s)' = IF s = st THEN DoneWith(s) \cup {i} ELSE DoneWith(s)
  BY <1>2, <1>3, <1>4 DEF DoneWith, At
<1>6. IsFiniteSet(Tasks)
  BY FS_Interval
<1>7. \A s \in Statuses : IsFiniteSet(DoneWith(s)) /\ i \notin DoneWith(s)
  BY <1>3, <1>6, FS_Subset DEF DoneWith, At
<1>8. Cardinality(DoneWith(st) \cup {i}) = Cardinality(DoneWith(st)) + 1
  BY <1>7, FS_AddElement
<1>9. \A s \in Statuses : tally'[s] = IF s = st THEN tally[s] + 1 ELSE tally[s]
  BY <1>1 DEF SuiteInv, TypeOK
<1>10. \A s \in Statuses : tally[s] = Cardinality(DoneWith(s))
  BY DEF TallyIsTrue, DoneWith
<1>11. \A s \in Statuses : tally'[s] = Cardinality(DoneWith(s)')
  BY <1>5, <1>8, <1>9, <1>10
<1> QED
  BY <1>11 DEF TallyIsTrue, DoneWith

LEMMA TallyStep ==
  ASSUME SuiteInv, TallyIsTrue, [Next]_vars
  PROVE  TallyIsTrue'
<1>1. ASSUME NEW i \in Tasks, NEW st \in Statuses, Complete(i, st)
      PROVE  TallyIsTrue'
  BY <1>1, CompletionCounts
<1>2. ASSUME NEW i \in Tasks, Fail(i) \/ LetThrough(i)
      PROVE  TallyIsTrue'
  <2>1. PICK p \in {"failed", "cancelled"} : Moves(i, p)
    BY <1>2, FailKeeps, LetThroughKeeps
  <2>2. pc[i] \in Working /\ UNCHANGED <<tally, verdict>>
    BY <1>2 DEF Fail, LetThrough
  <2>3. \A d \in Tasks : pc'[d] = "done" <=> pc[d] = "done"
    BY <2>1, <2>2 DEF Moves, Working
  <2> QED
    BY <2>2, <2>3, NoneCompletes
<1>3. ASSUME NEW i \in Tasks, Proceed(i) \/ GiveBack(i)
      PROVE  TallyIsTrue'
  <2>1. PICK p \in {"running", "cancelled"} : Moves(i, p)
    BY <1>3, SemGrants DEF Proceed, GiveBack, SuiteInv, Moves
  <2>2. pc[i] = "granted" /\ UNCHANGED <<tally, verdict>>
    BY <1>3 DEF Proceed, GiveBack, Resume
  <2>3. \A d \in Tasks : pc'[d] = "done" <=> pc[d] = "done"
    BY <2>1, <2>2 DEF Moves
  <2> QED
    BY <2>2, <2>3, NoneCompletes
<1>4. ASSUME NEW i \in Tasks, StartAlone(i) \/ Start(i)
      PROVE  TallyIsTrue'
  <2>1. PICK p \in {"alone", "running", "waiting"} : pc' = [pc EXCEPT ![i] = p]
    BY <1>4 DEF StartAlone, Start, Acquire, Enqueue
  <2>2. pc[i] = "created" /\ UNCHANGED <<tally, verdict>>
    BY <1>4 DEF StartAlone, Start
  <2>3. \A d \in Tasks : pc'[d] = "done" <=> pc[d] = "done"
    BY <2>1, <2>2 DEF SuiteInv, TypeOK
  <2> QED
    BY <2>2, <2>3, NoneCompletes
<1>5. CASE Abort \/ NoAbort \/ UNCHANGED pc
  <2>1. CASE UNCHANGED <<tally, verdict>>
    <3>1. \A d \in Tasks : pc'[d] = "done" <=> pc[d] = "done"
      BY <1>5 DEF Abort, NoAbort
    <3> QED
      BY <2>1, <3>1, NoneCompletes
  <2>2. CASE ~UNCHANGED <<tally, verdict>>
    <3>1. \E i \in Tasks, st \in Statuses : Complete(i, st)
      BY <2>2 DEF Next, Progress, Answer, AnswerAlone, StartAlone, Start, Proceed, Fail,
                  LetThrough, GiveBack, Notice, CallerCancels, Over, Swallow, vars
    <3> QED
      BY <3>1, <1>1
  <2> QED
    BY <2>1, <2>2
<1>6. ASSUME NEW i \in Tasks, Notice(i) PROVE Abort \/ NoAbort
  BY <1>6 DEF Notice
<1>7. CallerCancels => Abort \/ NoAbort \/ UNCHANGED pc
  BY DEF CallerCancels
<1>8. ASSUME NEW i \in Tasks, Swallow(i) PROVE UNCHANGED pc
  BY <1>8 DEF Swallow
<1>9. Answer \/ AnswerAlone \/ Over \/ UNCHANGED vars => UNCHANGED pc
  BY DEF Answer, AnswerAlone, Over, vars
<1> QED
  BY <1>1, <1>2, <1>3, <1>4, <1>5, <1>6, <1>7, <1>8, <1>9 DEF Next, Progress

LEMMA TallyInit == Init => TallyIsTrue
<1> SUFFICES ASSUME Init PROVE TallyIsTrue
  OBVIOUS
<1>1. At("done") = {}
  BY DEF Init, At
<1>2. \A st \in Statuses : DoneWith(st) = {} /\ tally[st] = 0
  BY <1>1 DEF Init, DoneWith
<1> QED
  BY <1>2, FS_EmptySet DEF TallyIsTrue, DoneWith

(* The live summary of _SuiteProgress counts exactly the scenarios that     *)
(* ended in a result, for any number of them and whatever aborts the run.   *)
THEOREM TallyIsAlwaysTrue == Spec => []TallyIsTrue
<1>1. SuiteInv /\ TallyIsTrue /\ [Next]_vars => (SuiteInv /\ TallyIsTrue)'
  BY SuiteNext, TallyStep
<1>2. Init => SuiteInv /\ TallyIsTrue
  BY SuiteInit, TallyInit
<1> QED
  BY <1>1, <1>2, PTL DEF Spec

-----------------------------------------------------------------------------
(* The contract. *)
LEMMA ContractWords ==
    /\ Contract!Undecided = Undecided /\ Contract!Cancelled = Cancelled
    /\ \A r : Contract!Returned(r) = Returned(r) /\ Contract!Raised(r) = Raised(r)
BY DEF Contract!Undecided, Contract!Cancelled, Contract!Returned, Contract!Raised,
       Undecided, Cancelled, Returned, Raised

LEMMA ContractInit == Init => Contract!Init
<1> SUFFICES ASSUME Init PROVE Contract!Init
  OBVIOUS
<1>1. Settled = [i \in Tasks |-> "none"]
  BY DEF Init, Settled
<1>2. AtWork \subseteq Tasks
  BY DEF AtWork
<1>3. answer = Contract!Undecided
  BY ContractWords DEF Init
<1> QED
  BY <1>1, <1>2, <1>3 DEF Contract!Init

LEMMA SettledAt ==
  ASSUME NEW i \in Tasks
  PROVE  Settled[i] = IF pc[i] = "done" THEN verdict[i]
                      ELSE IF pc[i] \in {"failed", "cancelled"} THEN pc[i] ELSE "none"
BY DEF Settled

(* What settled stays settled, and what is at work has not settled.         *)
LEMMA SettledStays ==
  ASSUME SuiteInv, SuiteInv', Steady
  PROVE  /\ Settled' \in [Tasks -> Statuses \cup {"failed", "cancelled", "none"}]
         /\ \A i \in Tasks : Settled[i] # "none" => Settled'[i] = Settled[i]
         /\ AtWork' \subseteq {i \in Tasks : Settled'[i] = "none"}
<1>1. \A i \in Tasks : Settled'[i] = IF pc'[i] = "done" THEN verdict'[i]
                                     ELSE IF pc'[i] \in {"failed", "cancelled"} THEN pc'[i] ELSE "none"
  BY DEF Settled
<1>2. \A i \in Tasks : Settled'[i] \in Statuses \cup {"failed", "cancelled", "none"}
  BY <1>1 DEF SuiteInv, Judged
<1>3. Settled' \in [Tasks -> Statuses \cup {"failed", "cancelled", "none"}]
  BY <1>2 DEF Settled
<1>4. ASSUME NEW i \in Tasks, Settled[i] # "none" PROVE Settled'[i] = Settled[i]
  <2>1. pc[i] \in Ended
    BY <1>4, SettledAt DEF Ended
  <2>2. pc'[i] = pc[i] /\ verdict'[i] = verdict[i]
    BY <2>1 DEF Steady
  <2> QED
    BY <1>1, <2>2, SettledAt
<1>5. AtWork' \subseteq {i \in Tasks : Settled'[i] = "none"}
  BY <1>1 DEF AtWork, Ended
<1> QED
  BY <1>3, <1>4, <1>5

(* A step of the run is a step of the contract when its answer, if it gives *)
(* one, is honest.                                                          *)
LEMMA ContractStep ==
  ASSUME SuiteInv, SuiteInv', Steady, answer = Undecided,
         answer' # Undecided => Contract!Honest(answer', Settled')
  PROVE  Contract!Next
<1>1. answer' # Undecided => AtWork' = {}
  BY DEF SuiteInv, Quiet, AtWork
<1>2. answer = Contract!Undecided /\ (answer' # Contract!Undecided => answer' # Undecided)
  BY ContractWords
<1> QED
  BY <1>1, <1>2, SettledStays DEF Contract!Next, Contract!Work

(* The answers of a serial run, at the first scenario without a result.     *)
LEMMA AloneIsHonest ==
  ASSUME SuiteInv, NEW i \in Tasks, Fail(i) \/ LetThrough(i), answer' # Undecided
  PROVE  Contract!Honest(answer', Settled') /\ answer = Undecided
<1>1. pc[i] \in Working /\ answer = Undecided
  BY WorkingFacts DEF Fail, LetThrough
<1>2. ~parallel
  BY <1>1 DEF Fail, LetThrough
<1>3. \A d \in Tasks : pc[d] \in {"created", "alone", "done"}
  BY <1>1, <1>2 DEF SuiteInv, OneByOne
<1>4. \A d \in Tasks : d # i => pc'[d] \in {"created", "alone", "done"}
  BY <1>3, FailKeeps, LetThroughKeeps DEF Moves
<1>5. \A d \in Tasks : d # i => pc'[d] # "failed"
  BY <1>4
<1>6. \A d \in Tasks : Settled'[d] = "failed" <=> pc'[d] = "failed"
  <2>1. \A d \in Tasks : pc'[d] = "done" => verdict'[d] \in Statuses
    BY FailKeeps, LetThroughKeeps DEF SuiteInv, Judged
  <2>2. \A d \in Tasks : Settled'[d] = IF pc'[d] = "done" THEN verdict'[d]
                                       ELSE IF pc'[d] \in {"failed", "cancelled"} THEN pc'[d] ELSE "none"
    BY DEF Settled
  <2> QED
    BY <2>1, <2>2, StatusNames DEF Ended
<1>7. CASE Fail(i)
  <2>1. answer' = Raised({i}) /\ pc'[i] = "failed"
    BY <1>2, <1>7, FailKeeps DEF Fail, Moves
  <2>2. {d \in Tasks : Settled'[d] = "failed"} = {i}
    BY <1>5, <1>6, <2>1
  <2> QED
    BY <1>1, <2>1, <2>2, ContractWords DEF Contract!Honest
<1>8. CASE LetThrough(i)
  <2>1. answer' = Cancelled /\ pc'[i] = "cancelled"
    BY <1>2, <1>8, LetThroughKeeps DEF LetThrough, Moves
  <2>2. {d \in Tasks : Settled'[d] = "failed"} = {}
    BY <1>5, <1>6, <2>1
  <2> QED
    BY <1>1, <2>1, <2>2, ContractWords DEF Contract!Honest
<1> QED
  BY <1>7, <1>8

(* The answer of a run whose scenarios all have ended.                      *)
LEMMA AnswerIsHonest ==
  ASSUME SuiteInv, Answer \/ AnswerAlone
  PROVE  Contract!Honest(answer', Settled')
<1>1. UNCHANGED <<pc, verdict>> /\ \A d \in Tasks : pc[d] \in Ended
  BY AnswerKeeps DEF Answer, AnswerAlone
<1>2. Settled' = Settled
  BY <1>1 DEF Settled
<1>3. \A d \in Tasks : Settled[d] = "failed" <=> pc[d] = "failed"
  BY SettledAt, StatusNames DEF SuiteInv, Judged, Ended
<1>4. (\A d \in Tasks : pc[d] = "done") => /\ Settled = verdict
                                           /\ \A d \in Tasks : Settled[d] \in Statuses
  <2> SUFFICES ASSUME \A d \in Tasks : pc[d] = "done"
               PROVE  Settled = verdict /\ \A d \in Tasks : Settled[d] \in Statuses
    OBVIOUS
  <2>1. Settled = [d \in Tasks |-> verdict[d]]
    BY DEF Settled
  <2>2. verdict = [d \in Tasks |-> verdict[d]]
    BY DEF SuiteInv, TypeOK
  <2> QED
    BY <2>1, <2>2 DEF SuiteInv, Judged
<1>5. CASE AnswerAlone
  <2>1. answer' = Returned(verdict) /\ \A d \in Tasks : pc[d] = "done"
    BY <1>5 DEF AnswerAlone, At
  <2> QED
    BY <1>2, <1>4, <2>1, ContractWords DEF Contract!Honest
<1>6. CASE Answer
  <2>1. noticed = Tasks /\ errors = {d \in Tasks : pc[d] = "failed"}
    BY <1>6 DEF Answer, SuiteInv, Heard
  <2>2. errors = {d \in Tasks : Settled[d] = "failed"}
    BY <1>3, <2>1
  <2>3. CASE errors # {}
    <3>1. answer' = Raised(errors)
      BY <1>6, <2>3 DEF Answer
    <3> QED
      BY <1>2, <2>2, <2>3, <3>1, ContractWords DEF Contract!Honest
  <2>4. CASE errors = {} /\ (abandoned \/ At("cancelled") # {})
    <3>1. answer' = Cancelled
      BY <1>6, <2>4 DEF Answer
    <3> QED
      BY <1>2, <2>2, <2>4, <3>1, ContractWords DEF Contract!Honest
  <2>5. CASE errors = {} /\ ~(abandoned \/ At("cancelled") # {})
    <3>1. answer' = Returned(verdict)
      BY <1>6, <2>5 DEF Answer
    <3>2. \A d \in Tasks : pc[d] = "done"
      BY <1>1, <2>1, <2>5 DEF At, Ended
    <3> QED
      BY <1>2, <1>4, <3>1, <3>2, ContractWords DEF Contract!Honest
  <2> QED
    BY <2>3, <2>4, <2>5
<1> QED
  BY <1>5, <1>6

LEMMA ContractNext ==
  SuiteInv /\ [Next]_vars => [Contract!Next]_(Contract!vars)
<1> SUFFICES ASSUME SuiteInv, [Next]_vars PROVE [Contract!Next]_(Contract!vars)
  OBVIOUS
<1>0. SuiteInv' /\ Steady
  BY SuiteNext
<1>1. CASE Answer \/ AnswerAlone
  BY <1>0, <1>1, AnswerKeeps, AnswerIsHonest, ContractStep
<1>2. ASSUME NEW i \in Tasks, Fail(i) \/ LetThrough(i)
      PROVE  Contract!Next
  <2>1. answer = Undecided
    BY <1>2, WorkingFacts DEF Fail, LetThrough
  <2> QED
    BY <1>0, <1>2, <2>1, AloneIsHonest, ContractStep
<1>3. ASSUME NEW i \in Tasks, StartAlone(i) \/ Start(i) \/ Proceed(i) \/ GiveBack(i)
      PROVE  Contract!Next
  <2>1. answer' = answer /\ answer = Undecided
    BY <1>3 DEF StartAlone, Start, Proceed, GiveBack, Resume, SuiteInv, Quiet, Ended
  <2> QED
    BY <1>0, <2>1, ContractStep
<1>4. ASSUME NEW i \in Tasks, NEW st \in Statuses, Complete(i, st)
      PROVE  Contract!Next
  <2>1. answer' = answer /\ answer = Undecided
    BY <1>4, WorkingFacts DEF Complete
  <2> QED
    BY <1>0, <2>1, ContractStep
<1>5. ASSUME NEW i \in Tasks, Notice(i) \/ Swallow(i)
      PROVE  Contract!Next
  BY <1>0, <1>5, NoticeKeeps, SwallowKeeps, ContractStep
<1>6. CASE CallerCancels
  BY <1>0, <1>6, CallerCancelsKeeps, ContractStep
<1>7. CASE Over \/ UNCHANGED vars
  <2>1. UNCHANGED <<parallel, pc, verdict, answer>>
    BY <1>7 DEF Over, vars
  <2>2. Settled' = Settled /\ AtWork' = AtWork
    BY <2>1 DEF Settled, AtWork
  <2> QED
    BY <2>1, <2>2 DEF Contract!vars
<1> QED
  BY <1>1, <1>2, <1>3, <1>4, <1>5, <1>6, <1>7 DEF Next, Progress

(* Suite.run keeps its contract, for any number of scenarios and permits:   *)
(* one answer, when nothing is at work any more, complete and in suite      *)
(* order, that hides no exception.                                          *)
THEOREM SuiteKeepsContract == Spec => KeepsContract
<1>1. SuiteInv /\ [Next]_vars => SuiteInv'
  BY SuiteNext
<1> QED
  BY SuiteInit, ContractInit, <1>1, ContractNext, PTL DEF Spec, KeepsContract, Contract!Spec
=============================================================================
