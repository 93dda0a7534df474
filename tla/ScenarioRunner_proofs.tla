------------------------- MODULE ScenarioRunner_proofs -------------------------
(***************************************************************************)
(* What a report of ScenarioRunner.run says, for scenarios of any length,  *)
(* any number of checks and runs, any nesting of generators and any way in *)
(* which they go wrong.                                                    *)
(*                                                                         *)
(* The report is made at the end, from what was kept of every step: its    *)
(* results and an index.  So the invariant says of each step that is over  *)
(* where its checks are among those that were executed, and which of the   *)
(* interactions had been completed by then.                                *)
(***************************************************************************)
EXTENDS ScenarioRunner, SequenceTheorems, FiniteSetTheorems, TLAPS

Working == {"interact", "generate", "check"}

(* Where the run is.                                                       *)
Placed ==
    /\ Len(scenario) <= MaxSteps
    /\ pc \in Working => step <= Len(scenario) /\ Len(steps) = step - 1
    /\ pc \in {"finish", "done"} => Len(steps) <= Len(scenario)
    /\ Len(frames) > 1 <=> pc = "generate"
    /\ run = Len(verdicts) + IF pc = "done" THEN 0 ELSE 1
    /\ pc = "build" =>
         /\ step = 1 /\ steps = <<>> /\ produced = <<>> /\ checked = <<>>
         /\ broken = {} /\ frames[1] = <<>> /\ verdicts = <<>>

(* The innermost frame has all interactions, and each step that is over     *)
(* the index of the last of those that are its own or of an earlier one.   *)
Reach(open) == IF pc \in open THEN Len(steps) + 1 ELSE Len(steps)

Traced ==
    /\ \A k \in DOMAIN produced : produced[k].step <= Reach(Working \cup {"raised"})
    /\ ~Replaced =>
         /\ Last(frames) = produced
         /\ \A i \in DOMAIN steps :
              /\ steps[i].index + 1 \in 0..Len(produced)
              /\ \A k \in DOMAIN produced : produced[k].step <= i <=> k <= steps[i].index + 1

(* The checks of a step were executed one after the other, from o on.      *)
RecordedAt(o, i, verdictList) ==
    /\ o + Len(verdictList) <= Len(checked)
    /\ \A k \in DOMAIN checked : checked[k].step = i <=> k \in (o + 1)..(o + Len(verdictList))
    /\ \A j \in DOMAIN verdictList : checked[o + j].verdict = verdictList[j]

Recorded(i, verdictList) == \E o \in 0..Len(checked) : RecordedAt(o, i, verdictList)

Settled(i) ==
    IF steps[i].error
    THEN steps[i].results = SkippedResults(scenario[i].checks) /\ ChecksOf(i) = {}
    ELSE Len(steps[i].results) = scenario[i].checks /\ Recorded(i, steps[i].results)

Checked ==
    /\ \A k \in DOMAIN checked : checked[k].step <= Reach({"check", "raised"})
    /\ \A i \in DOMAIN steps : Settled(i)
    /\ pc = "check" =>
         /\ item = Len(results) + 1 /\ item <= Checks + 1 /\ Len(results) <= Len(checked)
         /\ RecordedAt(Len(checked) - Len(results), step, results)

(* Only the last step may not have passed, which ends the run; and errors   *)
(* come from generators that failed.                                       *)
Stopped ==
    /\ \A i \in DOMAIN steps :
         TestCaseStatus(steps[i]) # "pass" => i = Len(steps) /\ pc \in {"finish", "done"}
    /\ pc # "raised" => Failed = {i \in DOMAIN steps : steps[i].error}

Reported ==
    outcome = IF pc = "done"
              THEN [status |-> ScenarioStatus(Filled), steps |-> Filled,
                    trace |-> frames[1], runs |-> run]
              ELSE NoOutcome

RunInv == TypeOK /\ Placed /\ Traced /\ Checked /\ Stopped /\ Reported

-----------------------------------------------------------------------------
(* Sequences, and the verdicts that they roll up to.                       *)
LEMMA BoundedIsSeq ==
  ASSUME NEW S, NEW n \in Nat
  PROVE  Bounded(S, n) = {s \in Seq(S) : Len(s) <= n}
<1>1. ASSUME NEW s \in Bounded(S, n) PROVE s \in Seq(S) /\ Len(s) <= n
  <2>1. PICK k \in 0..n : s \in [1..k -> S]
    BY DEF Bounded
  <2> QED
    BY <2>1
<1>2. ASSUME NEW s \in Seq(S), Len(s) <= n PROVE s \in Bounded(S, n)
  <2>1. Len(s) \in 0..n /\ s \in [1..Len(s) -> S]
    BY <1>2, LenProperties
  <2> QED
    BY <2>1 DEF Bounded
<1> QED
  BY <1>1, <1>2

LEMMA RollUpFacts ==
  ASSUME NEW s \in Seq(Statuses)
  PROVE  /\ RollUp(s) \in Statuses
         /\ RollUp(s) = "error" <=> \E i \in DOMAIN s : s[i] = "error"
         /\ RollUp(s) = "fail" <=> /\ \E i \in DOMAIN s : s[i] = "fail"
                                   /\ \A i \in DOMAIN s : s[i] # "error"
         /\ RollUp(s) = "pass" => \A i \in DOMAIN s : s[i] \in {"pass", "skip"}
         /\ RollUp(s) # "pass" => \E i \in DOMAIN s : s[i] # "pass"
<1>1. DOMAIN s = 1..Len(s) /\ Len(s) \in Nat /\ \A i \in DOMAIN s : s[i] \in Statuses
  BY LenProperties, ElementOfSeq
<1>2. s # <<>> => 1 \in DOMAIN s
  BY <1>1, EmptySeq
<1> QED
  BY <1>1, <1>2 DEF RollUp, Has, All, Statuses

LEMMA CaseFacts ==
  ASSUME NEW case \in CaseResults
  PROVE  /\ TestCaseStatus(case) \in Statuses
         /\ TestCaseStatus(case) = "error" <=>
              case.error \/ \E j \in DOMAIN case.results : case.results[j] = "error"
         /\ TestCaseStatus(case) = "fail" <=>
              /\ ~case.error
              /\ \E j \in DOMAIN case.results : case.results[j] = "fail"
              /\ \A j \in DOMAIN case.results : case.results[j] # "error"
         /\ TestCaseStatus(case) = "pass" =>
              ~case.error /\ \A j \in DOMAIN case.results : case.results[j] \in {"pass", "skip"}
         /\ TestCaseStatus(case) # "pass" =>
              case.error \/ \E j \in DOMAIN case.results : case.results[j] # "pass"
<1>1. case.error \in BOOLEAN /\ case.results \in Seq(Statuses)
  BY DEF CaseResults
<1>2. CASE case.error
  BY <1>2 DEF TestCaseStatus, Statuses
<1>3. CASE ~case.error
  BY <1>1, <1>3, RollUpFacts DEF TestCaseStatus
<1> QED
  BY <1>1, <1>2, <1>3

(* A step that was skipped has a result, and did not pass.                 *)
LEMMA SkipFacts ==
  ASSUME NEW n \in Nat
  PROVE  /\ SkippedResults(n) \in Seq(Statuses)
         /\ Len(SkippedResults(n)) = IF n = 0 THEN 1 ELSE n
         /\ \A j \in DOMAIN SkippedResults(n) : SkippedResults(n)[j] = "skip"
         /\ RollUp(SkippedResults(n)) = "skip"
<1> DEFINE m == IF n = 0 THEN 1 ELSE n
<1>1. m \in Nat /\ m >= 1
  OBVIOUS
<1>2. SkippedResults(n) = [i \in 1..m |-> "skip"]
  BY DEF SkippedResults
<1> HIDE DEF m
<1>3. SkippedResults(n) \in Seq(Statuses) /\ Len(SkippedResults(n)) = m
  BY <1>1, <1>2 DEF Statuses
<1>4. \A j \in DOMAIN SkippedResults(n) : SkippedResults(n)[j] = "skip"
  BY <1>2
<1>5. RollUp(SkippedResults(n)) = "skip"
  <2>1. SkippedResults(n) # <<>>
    BY <1>1, <1>3, EmptySeq
  <2>2. \A j \in 1..Len(SkippedResults(n)) : SkippedResults(n)[j] = "skip"
    BY <1>2, <1>3
  <2> QED
    BY <2>1, <2>2 DEF RollUp, Has, All
<1> QED
  BY <1>3, <1>4, <1>5 DEF m

-----------------------------------------------------------------------------
(* A run at work on a step.                                                *)
LEMMA StepShape ==
  ASSUME TypeOK, NEW i \in 1..Len(scenario)
  PROVE  /\ scenario[i].interacts \in Seq(Components)
         /\ scenario[i].checks \in 0..MaxChecks
<1>1. scenario[i] \in StepShapes
  BY ElementOfSeq DEF TypeOK
<1> QED
  BY <1>1, BoundedIsSeq, BoundsAssumption DEF StepShapes

LEMMA AtWork ==
  ASSUME RunInv, pc \in Working
  PROVE  /\ Len(scenario) \in Nat /\ step \in 1..Len(scenario) /\ step \in 1..MaxSteps
         /\ Len(steps) = step - 1
         /\ Interacts \in Seq(Components) /\ Checks \in 0..MaxChecks
         /\ Interaction \in [run : 0..MaxRuns, step : 0..MaxSteps]
         /\ \A i \in DOMAIN steps : TestCaseStatus(steps[i]) = "pass" /\ ~steps[i].error
         /\ Failed = {} /\ ~Replaced
<1>1. /\ Len(scenario) \in Nat /\ MaxSteps \in Nat /\ MaxRuns \in Nat /\ step \in Nat
      /\ {run, multipleRuns} \subseteq Nat /\ multipleRuns <= MaxRuns /\ run <= multipleRuns
  BY BoundsAssumption, LenProperties DEF RunInv, TypeOK
<1>2. /\ step \in 1..Len(scenario) /\ step \in 1..MaxSteps /\ Len(steps) = step - 1
  BY <1>1 DEF RunInv, Placed, TypeOK
<1>3. Interacts \in Seq(Components) /\ Checks \in 0..MaxChecks
  BY <1>2, StepShape DEF RunInv, Interacts, Checks
<1>4. Interaction \in [run : 0..MaxRuns, step : 0..MaxSteps]
  <2>1. run \in 0..MaxRuns /\ step \in 0..MaxSteps
    BY <1>1, <1>2
  <2> QED
    BY <2>1 DEF Interaction
<1>5. ASSUME NEW i \in DOMAIN steps PROVE TestCaseStatus(steps[i]) = "pass" /\ ~steps[i].error
  <2>1. TestCaseStatus(steps[i]) = "pass"
    BY DEF RunInv, Stopped, Working
  <2> QED
    BY <2>1 DEF TestCaseStatus
<1>6. Failed = {}
  BY <1>5 DEF RunInv, Stopped, Working
<1>7. ~Replaced
  BY <1>6 DEF Failed, Replaced
<1> QED
  BY <1>1, <1>2, <1>3, <1>4, <1>5, <1>6, <1>7

(* Steps that leave what was kept of the earlier ones as it is.             *)
LEMMA GoesOn ==
  ASSUME RunInv, pc \in {"interact", "generate"}, pc' \in Working,
         UNCHANGED <<scenario, multipleRuns, run, step, steps, outcome, checked, verdicts>>,
         broken' = broken \/ broken' = broken \cup {<<step, "exhausted">>},
         pc' = "check" => item' = 1 /\ results' = <<>>,
         Len(frames') > 1 <=> pc' = "generate"
  PROVE  Placed' /\ Checked' /\ Stopped' /\ Reported' /\ ~Replaced'
<1>0. pc \in Working
  BY DEF Working
<1>1. Failed' = Failed /\ ~Replaced'
  BY <1>0, AtWork DEF Failed, Replaced
<1>2. Placed'
  BY <1>0, AtWork DEF RunInv, Placed, Working
<1>3. Stopped'
  BY <1>0, <1>1, AtWork DEF RunInv, Stopped, Working
<1>4. Reported'
  BY <1>0 DEF RunInv, Reported, Working
<1>5. Checked'
  <2>1. \A i : Settled(i)' = Settled(i)
    BY DEF Settled, Recorded, RecordedAt, ChecksOf
  <2>2. Len(steps) \in Nat /\ Len(checked) \in Nat /\ Checks' = Checks
    BY DEF RunInv, TypeOK, Checks
  <2>3. \A k \in DOMAIN checked : checked[k].step <= Len(steps)
    BY DEF RunInv, Checked, Reach
  <2>4. \A k \in DOMAIN checked : checked[k].step \in Nat
    <3> SUFFICES ASSUME NEW k \in DOMAIN checked PROVE checked[k].step \in Nat
      OBVIOUS
    <3> DEFINE Entries == [step : 1..MaxSteps, verdict : Statuses]
    <3> HIDE DEF Entries
    <3>1. checked \in Seq(Entries)
      BY DEF RunInv, TypeOK, Entries
    <3>2. checked[k] \in Entries
      BY <3>1
    <3> USE DEF Entries
    <3> QED
      BY <3>2, BoundsAssumption
  <2>5. \A k \in DOMAIN checked' : checked'[k].step <= Reach({"check", "raised"})'
    BY <2>2, <2>3, <2>4 DEF Reach
  <2>6. CASE pc' = "check"
    <3>1. item' = Len(results') + 1 /\ item' <= Checks' + 1 /\ Len(results') <= Len(checked')
      BY <1>0, <2>2, <2>6, AtWork
    <3>2. RecordedAt(Len(checked) - Len(results), step, results)'
      <4>1. Len(results') = 0 /\ DOMAIN results' = {}
        BY <2>6
      <4>2. \A k \in DOMAIN checked : checked[k].step # step
        BY <1>0, <2>3, <2>4, AtWork
      <4> QED
        BY SMTT(30), <2>2, <4>1, <4>2, LenProperties DEF RecordedAt, RunInv, TypeOK
    <3> QED
      BY <2>1, <2>5, <3>1, <3>2 DEF RunInv, Checked
  <2>7. CASE pc' # "check"
    BY <2>1, <2>5, <2>7 DEF RunInv, Checked
  <2> QED
    BY <2>6, <2>7
<1> QED
  BY <1>1, <1>2, <1>3, <1>4, <1>5

LEMMA InnermostFrame ==
  ASSUME TypeOK
  PROVE  /\ Len(frames) \in Nat \ {0} /\ Last(frames) = frames[Len(frames)]
         /\ \A n \in 1..Len(frames) : frames[n] \in Trace
<1> DEFINE T == Trace
<1> HIDE DEF T
<1>1. frames \in Seq(T) /\ frames # <<>>
  BY DEF TypeOK, T
<1>2. Len(frames) \in Nat \ {0} /\ \A n \in 1..Len(frames) : frames[n] \in T
  BY <1>1, EmptySeq
<1> QED
  BY <1>2 DEF Last, T

LEMMA OneFrame ==
  ASSUME RunInv, pc # "generate"
  PROVE  Len(frames) = 1
<1> DEFINE n == Len(frames)
<1>1. ~(n > 1) /\ n \in Nat \ {0}
  BY InnermostFrame DEF RunInv, Placed
<1> HIDE DEF n
<1>2. n = 1
  BY <1>1
<1> QED
  BY <1>2 DEF n

(* An interaction goes into the innermost frame, and counts for its step.   *)
LEMMA ProduceKeeps ==
  ASSUME RunInv, GivenInteraction \/ Yield
  PROVE  RunInv'
<1>1. /\ pc \in {"interact", "generate"} /\ pc' = pc /\ Produce
      /\ UNCHANGED <<inputs, run, step, results, steps, outcome, checked, broken, verdicts>>
  BY DEF GivenInteraction, Yield
<1>2. pc \in Working
  BY <1>1 DEF Working
<1> DEFINE T == Trace
           n == Len(frames)
<1>3. Interaction \in [run : 0..MaxRuns, step : 0..MaxSteps]
  BY <1>2, AtWork
<1>4. /\ n \in Nat \ {0} /\ frames \in Seq(T) /\ frames[n] \in T /\ produced \in T
      /\ frames' = [frames EXCEPT ![n] = Append(frames[n], Interaction)]
      /\ produced' = Append(produced, Interaction)
  BY <1>1, InnermostFrame DEF RunInv, TypeOK, Produce
<1>5. Append(frames[n], Interaction) \in T /\ produced' \in T
  BY <1>3, <1>4 DEF Trace
<1> HIDE DEF T, n
<1>6. /\ frames' \in Seq(T) /\ Len(frames') = n
      /\ frames'[n] = Append(frames[n], Interaction)
  BY <1>4, <1>5, ExceptSeq DEF n
<1>7. frames' # <<>>
  BY <1>4, <1>6, EmptySeq
<1>8. TypeOK'
  <2>1. item' \in Nat \ {0}
    BY SMTT(30) DEF RunInv, TypeOK, GivenInteraction, Yield
  <2>2. user' \in [turn : 0..(MaxTurns + 1), attempt : 0..(MaxRetries + 1)]
    <3>1. CASE user' = user
      BY <3>1 DEF RunInv, TypeOK
    <3>2. CASE user # NoUser /\ Yield
      <4>1. user.turn \in 0..MaxTurns /\ MaxTurns \in Nat /\ MaxRetries \in Nat
        BY <3>2, BoundsAssumption DEF RunInv, TypeOK, Yield
      <4>2. user' = [turn |-> user.turn + 1, attempt |-> 1]
        BY <3>2 DEF Yield
      <4> QED
        BY <4>1, <4>2
    <3> QED
      BY <3>1, <3>2 DEF GivenInteraction, Yield
  <2> QED
    BY <1>1, <1>5, <1>6, <1>7, <2>1, <2>2 DEF RunInv, TypeOK, inputs, T
<1>9. Placed' /\ Checked' /\ Stopped' /\ Reported' /\ ~Replaced'
  <2>1. Len(frames') > 1 <=> pc' = "generate"
    BY <1>1, <1>6 DEF RunInv, Placed, n
  <2> QED
    BY <1>1, <1>2, <2>1, GoesOn DEF inputs
<1>10. Traced'
  <2>1. Len(produced) \in Nat /\ produced \in Seq([run : 0..MaxRuns, step : 0..MaxSteps])
    BY <1>4 DEF T, Trace
  <2>2. /\ DOMAIN produced' = 1..(Len(produced) + 1) /\ Len(produced') = Len(produced) + 1
        /\ produced'[Len(produced) + 1] = Interaction
        /\ \A k \in DOMAIN produced : produced'[k] = produced[k]
    BY <1>3, <1>4, <2>1, AppendProperties
  <2>3. Interaction.step = step /\ step = Len(steps) + 1 /\ step \in Nat
    BY <1>2, AtWork DEF Interaction
  <2>4. Reach(Working \cup {"raised"})' = step /\ Reach(Working \cup {"raised"}) = step
    BY <1>1, <1>2, <2>3 DEF Reach, Working
  <2>5. \A k \in DOMAIN produced : produced[k].step <= step
    BY <2>4 DEF RunInv, Traced
  <2>6. ~Replaced
    BY <1>2, AtWork
  <2>7. Last(frames') = produced'
    BY <1>4, <1>6, <2>6, InnermostFrame DEF RunInv, Traced, Last, n
  <2>8. ASSUME NEW i \in DOMAIN steps
        PROVE  /\ steps[i].index + 1 \in 0..Len(produced')
               /\ \A k \in DOMAIN produced' : produced'[k].step <= i <=> k <= steps[i].index + 1
    <3>1. /\ steps[i].index + 1 \in 0..Len(produced)
          /\ \A k \in DOMAIN produced : produced[k].step <= i <=> k <= steps[i].index + 1
      BY <2>6 DEF RunInv, Traced
    <3>2. i \in Nat /\ i < step
      BY <2>3, LenProperties DEF RunInv, TypeOK
    <3>3. steps[i].index + 1 <= Len(produced)
      BY <2>1, <3>1
    <3>4. DOMAIN produced = 1..Len(produced)
      BY <2>1, LenProperties
    <3>5. ASSUME NEW k \in DOMAIN produced'
          PROVE  produced'[k].step <= i <=> k <= steps[i].index + 1
      <4>1. CASE k = Len(produced) + 1
        BY <2>1, <2>2, <2>3, <3>1, <3>2, <3>3, <4>1
      <4>2. CASE k # Len(produced) + 1
        BY <2>1, <2>2, <3>1, <3>4, <4>2
      <4> QED
        BY <4>1, <4>2
    <3> QED
      BY <2>1, <2>2, <3>1, <3>5
  <2>9. \A k \in DOMAIN produced' : produced'[k].step <= step
    BY SMTT(30), <2>1, <2>2, <2>3, <2>5, LenProperties
  <2> QED
    BY <1>1, <2>4, <2>7, <2>8, <2>9 DEF Traced
<1> QED
  BY <1>8, <1>9, <1>10 DEF RunInv

(* What steps say of the trace that complete no interaction.                *)
LEMMA TraceGoesOn ==
  ASSUME RunInv, pc \in {"interact", "generate"}, pc' \in Working, ~Replaced',
         UNCHANGED <<steps, produced>>, Last(frames') = Last(frames)
  PROVE  Traced'
<1>1. ~Replaced
  BY AtWork DEF Working
<1> QED
  BY <1>1 DEF RunInv, Traced, Reach, Working

(* A generator begins with the trace as it stands.                         *)
LEMMA OpenKeeps ==
  ASSUME RunInv, OpenSpec \/ \E kind \in {"spec", "llm"} : YieldSpec(kind)
  PROVE  RunInv'
<1>1. PICK kind : /\ Open(kind) /\ pc \in {"interact", "generate"} /\ pc' = "generate"
                  /\ UNCHANGED <<inputs, run, step, item, results, steps, outcome, history>>
  BY DEF OpenSpec, YieldSpec
<1>2. pc \in Working /\ pc' \in Working
  BY <1>1 DEF Working
<1> DEFINE T == Trace
<1>3. /\ frames \in Seq(T) /\ Last(frames) \in T /\ Len(frames) \in Nat \ {0}
      /\ frames' = Append(frames, Last(frames))
  BY <1>1, InnermostFrame DEF RunInv, TypeOK, Open
<1> HIDE DEF T
<1>4. /\ frames' \in Seq(T) /\ Len(frames') = Len(frames) + 1
      /\ frames'[Len(frames')] = Last(frames)
  BY <1>3
<1>5. TypeOK'
  <2>1. user' \in [turn : 0..(MaxTurns + 1), attempt : 0..(MaxRetries + 1)]
    BY <1>1, BoundsAssumption DEF Open, NoUser
  <2>2. frames' # <<>>
    BY <1>3, <1>4
  <2> QED
    BY <1>1, <1>4, <2>1, <2>2 DEF RunInv, TypeOK, inputs, history, T
<1>6. Placed' /\ Checked' /\ Stopped' /\ Reported' /\ ~Replaced'
  <2>1. Len(frames') > 1
    BY <1>3, <1>4
  <2> QED
    BY <1>1, <1>2, <2>1, GoesOn DEF inputs, history
<1>7. Last(frames') = Last(frames)
  BY <1>4 DEF Last
<1>8. Traced'
  BY <1>1, <1>2, <1>6, <1>7, TraceGoesOn DEF history
<1> QED
  BY <1>5, <1>6, <1>8 DEF RunInv

(* The trace of a generator becomes that of its caller.                     *)
LEMMA ReturnKeeps ==
  ASSUME RunInv, GeneratorEnds \/ TargetExhausted
  PROVE  RunInv'
<1>1. /\ pc = "generate" /\ ReturnTrace
      /\ UNCHANGED <<inputs, run, step, results, steps, outcome, produced, checked, verdicts>>
      /\ broken' = broken \/ ("exhausted" \in Mishaps /\ broken' = broken \cup {<<step, "exhausted">>})
  BY DEF GeneratorEnds, TargetExhausted, history
<1>2. pc \in Working
  BY <1>1 DEF Working
<1> DEFINE T == Trace
           outer == Len(frames) - 1
<1>3. /\ frames \in Seq(T) /\ Last(frames) = frames[Len(frames)] /\ Last(frames) \in T
      /\ Len(frames) \in Nat /\ outer \in Nat \ {0}
  BY <1>1, InnermostFrame DEF RunInv, TypeOK, Placed
<1> HIDE DEF T
<1>4. Front(frames) \in Seq(T) /\ Len(Front(frames)) = outer
  <2>1. Front(frames) = [i \in 1..outer |-> frames[i]]
    BY <1>3 DEF Front
  <2>2. \A i \in 1..outer : frames[i] \in T
    BY <1>3
  <2> QED
    BY <1>3, <2>1, <2>2
<1>5. frames' = [Front(frames) EXCEPT ![outer] = Last(frames)]
  BY <1>1 DEF ReturnTrace
<1> HIDE DEF outer
<1>6. frames' \in Seq(T) /\ Len(frames') = outer /\ frames'[outer] = Last(frames)
  BY <1>3, <1>4, <1>5, ExceptSeq
<1>7. pc' = (IF outer = 1 THEN "interact" ELSE "generate") /\ pc' \in Working
  BY <1>1 DEF ReturnTrace, outer, Working
<1>8. TypeOK'
  <2>1. user' \in [turn : 0..(MaxTurns + 1), attempt : 0..(MaxRetries + 1)]
    BY <1>1, BoundsAssumption DEF ReturnTrace, NoUser
  <2>2. frames' # <<>>
    BY <1>3, <1>6, EmptySeq
  <2>3. item' \in Nat \ {0}
    BY <1>1 DEF RunInv, TypeOK, ReturnTrace
  <2>4. broken' \subseteq (1..MaxSteps) \X Mishaps
    <3>1. step \in 1..MaxSteps /\ broken \subseteq (1..MaxSteps) \X Mishaps
      BY <1>2, AtWork DEF RunInv, TypeOK
    <3> QED
      BY <1>1, <3>1
  <2> QED
    BY <1>1, <1>6, <1>7, <2>1, <2>2, <2>3, <2>4 DEF RunInv, TypeOK, inputs, T
<1>9. Placed' /\ Checked' /\ Stopped' /\ Reported' /\ ~Replaced'
  <2>1. Len(frames') > 1 <=> pc' = "generate"
    BY <1>3, <1>6, <1>7
  <2>2. pc' # "check"
    BY <1>7
  <2> QED
    BY <1>1, <1>7, <2>1, <2>2, GoesOn DEF inputs
<1>10. Last(frames') = Last(frames)
  BY <1>6 DEF Last
<1>11. Traced'
  BY <1>1, <1>7, <1>9, <1>10, TraceGoesOn
<1> QED
  BY <1>8, <1>9, <1>11 DEF RunInv

(* Neither the trace nor what was kept of steps is touched.                *)
LEMMA RefuseKeeps ==
  ASSUME RunInv, Refuse \/ StartChecks
  PROVE  RunInv'
<1>1. /\ pc \in {"interact", "generate"} /\ pc' \in Working
      /\ UNCHANGED <<inputs, run, step, frames, steps, outcome, history>>
      /\ pc' = "check" => item' = 1 /\ results' = <<>>
      /\ pc' = "generate" <=> pc = "generate"
  BY DEF Refuse, StartChecks, Working
<1>2. TypeOK'
  <2>1. user' \in [turn : 0..(MaxTurns + 1), attempt : 0..(MaxRetries + 1)]
    <3>1. CASE Refuse
      <4>1. /\ user.attempt \in 0..MaxRetries /\ MaxRetries \in Nat
            /\ user' = [user EXCEPT !.attempt = user.attempt + 1]
        BY <3>1, BoundsAssumption DEF RunInv, TypeOK, Refuse
      <4>2. user.attempt + 1 \in 0..(MaxRetries + 1)
        BY <4>1
      <4> QED
        BY <4>1, <4>2 DEF RunInv, TypeOK
    <3>2. CASE StartChecks
      BY <3>2 DEF RunInv, TypeOK, StartChecks
    <3> QED
      BY <3>1, <3>2
  <2>2. item' \in Nat \ {0} /\ results' \in Seq(Statuses)
    <3>1. CASE Refuse
      BY <3>1 DEF RunInv, TypeOK, Refuse
    <3>2. CASE StartChecks
      BY <3>2 DEF StartChecks
    <3> QED
      BY <3>1, <3>2
  <2> QED
    BY <1>1, <2>1, <2>2 DEF RunInv, TypeOK, inputs, history, Working
<1>3. Placed' /\ Checked' /\ Stopped' /\ Reported' /\ ~Replaced'
  <2>1. Len(frames') > 1 <=> pc' = "generate"
    BY <1>1 DEF RunInv, Placed
  <2> QED
    BY <1>1, <2>1, GoesOn DEF inputs, history
<1>4. Traced'
  BY <1>1, <1>3, TraceGoesOn DEF history
<1> QED
  BY <1>2, <1>3, <1>4 DEF RunInv

-----------------------------------------------------------------------------
(* A step is over: it joins those that were kept.                          *)
LEMMA StepKept ==
  ASSUME RunInv, NEW case, steps' = Append(steps, case)
  PROVE  /\ DOMAIN steps = 1..Len(steps) /\ DOMAIN steps' = 1..(Len(steps) + 1)
         /\ Len(steps) \in Nat /\ Len(steps') = Len(steps) + 1
         /\ steps'[Len(steps) + 1] = case
         /\ \A i \in DOMAIN steps : steps'[i] = steps[i]
         /\ case \in CaseResults => steps' \in Seq(CaseResults)
<1> DEFINE R == CaseResults
<1> HIDE DEF R
<1>1. steps \in Seq(R)
  BY DEF RunInv, TypeOK, R
<1>2. steps \in Seq(R \cup {case})
  BY <1>1
<1>3. case \in R => steps' \in Seq(R)
  BY <1>1
<1> QED
  BY <1>2, <1>3, AppendProperties, LenProperties DEF R

LEMMA SettledStays ==
  ASSUME NEW i, steps'[i] = steps[i], UNCHANGED <<checked, scenario>>
  PROVE  Settled(i)' <=> Settled(i)
BY DEF Settled, Recorded, RecordedAt, ChecksOf

LEMMA CheckedSteps ==
  ASSUME TypeOK
  PROVE  /\ Len(checked) \in Nat /\ DOMAIN checked = 1..Len(checked)
         /\ \A k \in DOMAIN checked : checked[k].step \in Nat /\ checked[k].verdict \in Statuses
<1> DEFINE Entries == [step : 1..MaxSteps, verdict : Statuses]
<1> HIDE DEF Entries
<1>1. checked \in Seq(Entries)
  BY DEF TypeOK, Entries
<1>2. Len(checked) \in Nat /\ DOMAIN checked = 1..Len(checked) /\ \A k \in DOMAIN checked : checked[k] \in Entries
  BY <1>1
<1> QED
  BY <1>2, BoundsAssumption DEF Entries

LEMMA ProducedSteps ==
  ASSUME TypeOK
  PROVE  /\ Len(produced) \in Nat /\ DOMAIN produced = 1..Len(produced)
         /\ \A k \in DOMAIN produced : produced[k].step \in Nat
<1> DEFINE Entries == [run : 0..MaxRuns, step : 0..MaxSteps]
<1> HIDE DEF Entries
<1>1. produced \in Seq(Entries)
  BY DEF TypeOK, Trace, Entries
<1>2. Len(produced) \in Nat /\ DOMAIN produced = 1..Len(produced) /\ \A k \in DOMAIN produced : produced[k] \in Entries
  BY <1>1
<1> QED
  BY <1>2, BoundsAssumption DEF Entries

(* The index of a step that is over is that of the last interaction.       *)
LEMMA IndexKept ==
  ASSUME RunInv, pc \in Working, NEW case, steps' = Append(steps, case),
         UNCHANGED produced,
         ~Replaced' => Last(frames') = produced /\ case.index = Len(produced) - 1
  PROVE  Traced'
<1>1. /\ Len(steps) = step - 1 /\ step \in Nat \ {0} /\ ~Replaced
      /\ \A k \in DOMAIN produced : produced[k].step <= step
  <2>1. Reach(Working \cup {"raised"}) = Len(steps) + 1
    BY DEF Reach
  <2>2. Len(steps) = step - 1 /\ step \in Nat \ {0} /\ ~Replaced
    BY AtWork
  <2> QED
    BY <2>1, <2>2 DEF RunInv, Traced
<1>2. Len(produced) \in Nat /\ DOMAIN produced = 1..Len(produced) /\ \A k \in DOMAIN produced : produced[k].step \in Nat
  BY ProducedSteps DEF RunInv
<1>3. Len(steps') = step /\ \A k \in DOMAIN produced : produced[k].step <= Reach(Working \cup {"raised"})'
  BY <1>1, <1>2, StepKept DEF Reach
<1>4. ASSUME ~Replaced', NEW i \in DOMAIN steps'
      PROVE  /\ steps'[i].index + 1 \in 0..Len(produced)
             /\ \A k \in DOMAIN produced : produced[k].step <= i <=> k <= steps'[i].index + 1
  <2>1. CASE i = step
    <3>1. steps'[i].index + 1 = Len(produced)
      BY <1>1, <1>2, <1>4, <2>1, StepKept
    <3> QED
      BY <1>1, <1>2, <2>1, <3>1
  <2>2. CASE i # step
    <3>1. i \in DOMAIN steps /\ steps'[i] = steps[i]
      BY <1>1, <2>2, StepKept
    <3> QED
      BY <1>1, <3>1 DEF RunInv, Traced
  <2> QED
    BY <2>1, <2>2
<1> QED
  BY <1>3, <1>4 DEF Traced

(* The input of a step could not be generated.                             *)
LEMMA FailsKeeps ==
  ASSUME RunInv, pc = "generate", NEW partial \in Trace, NEW how \in Mishaps \ {"exhausted"},
         how # "foreign" => partial = Last(frames), GenerationFails(partial, how)
  PROVE  RunInv'
<1>0. pc \in Working
  BY DEF Working
<1>1. /\ frames' = <<partial>> /\ user' = NoUser /\ broken' = broken \cup {<<step, how>>}
      /\ UNCHANGED <<inputs, run, step, item, results, outcome, produced, checked, verdicts>>
      /\ pc' \in {"finish", "raised"} /\ (pc' = "raised" => UNCHANGED steps)
  BY DEF GenerationFails
<1> DEFINE case == CaseResult(SkippedResults(Checks), TRUE, partial)
<1>2. pc' = "finish" => steps' = Append(steps, case)
  BY DEF GenerationFails
<1>3. /\ case.error /\ case.results = SkippedResults(Checks) /\ case.index = Len(partial) - 1
  BY DEF CaseResult, LastIndex
<1>4. case \in CaseResults
  <2>1. SkippedResults(Checks) \in Seq(Statuses)
    BY SMTT(30), <1>0, AtWork, BoundsAssumption, SkipFacts
  <2>2. Len(partial) - 1 \in Int
    BY LenProperties DEF Trace
  <2> QED
    BY <2>1, <2>2 DEF CaseResult, CaseResults, LastIndex
<1> HIDE DEF case
<1>5. /\ Len(steps) = step - 1 /\ step \in 1..Len(scenario) /\ step \in 1..MaxSteps /\ Len(scenario) \in Nat
      /\ Failed = {} /\ ~Replaced
      /\ \A i \in DOMAIN steps : TestCaseStatus(steps[i]) = "pass" /\ ~steps[i].error
  BY <1>0, AtWork
<1>6. pc' = "finish" => steps' \in Seq(CaseResults)
  BY <1>2, <1>4, StepKept
<1>7. TypeOK'
  <2>1. user' \in [turn : 0..(MaxTurns + 1), attempt : 0..(MaxRetries + 1)]
    BY <1>1, BoundsAssumption DEF NoUser
  <2>2. frames' \in Seq(Trace) /\ frames' # <<>>
    BY <1>1
  <2>3. broken' \subseteq (1..MaxSteps) \X Mishaps
    BY <1>1, <1>5 DEF RunInv, TypeOK
  <2>4. steps' \in Seq(CaseResults)
    BY <1>1, <1>6 DEF RunInv, TypeOK
  <2> QED
    BY <1>1, <2>1, <2>2, <2>3, <2>4 DEF RunInv, TypeOK, inputs
<1>8. Placed'
  <2>1. Len(frames') = 1
    BY <1>1
  <2>2. pc' = "finish" => Len(steps') <= Len(scenario')
    BY <1>1, <1>2, <1>5, StepKept DEF inputs
  <2> QED
    BY <1>1, <2>1, <2>2 DEF RunInv, Placed, Working, inputs
<1>9. Traced'
  <2>1. ~Replaced' => Last(frames') = produced /\ Len(partial) = Len(produced)
    <3> SUFFICES ASSUME ~Replaced' PROVE partial = produced
      BY <1>1 DEF Last
    <3>1. how # "foreign"
      <4>1. <<step, how>> \in broken' /\ <<step, how>>[2] = how
        BY <1>1
      <4> QED
        BY <4>1 DEF Replaced
    <3> QED
      BY <1>5, <3>1 DEF RunInv, Traced
  <2>2. CASE pc' = "finish"
    BY <1>0, <1>1, <1>2, <1>3, <2>1, <2>2, IndexKept DEF Working
  <2>3. CASE pc' = "raised"
    BY <1>0, <1>1, <1>5, <2>1, <2>3 DEF RunInv, Traced, Reach
  <2> QED
    BY <1>1, <2>2, <2>3
<1>10. Checked'
  <2>1. \A k \in DOMAIN checked : checked[k].step \in Nat /\ checked[k].step <= Len(steps)
    BY CheckedSteps DEF RunInv, Checked, Reach
  <2>2. CASE pc' = "raised"
    <3>1. \A i : Settled(i)' <=> Settled(i)
      BY <1>1, <2>2, SettledStays DEF inputs
    <3> QED
      BY <1>1, <1>5, <2>1, <2>2, <3>1 DEF RunInv, Checked, Reach
  <2>3. CASE pc' = "finish"
    <3>1. \A i \in DOMAIN steps : Settled(i)'
      BY <1>1, <1>2, <2>3, StepKept, SettledStays DEF RunInv, Checked, inputs
    <3>2. Settled(step)'
      <4>1. steps'[step] = case
        BY <1>2, <1>5, <2>3, StepKept
      <4>2. ChecksOf(step)' = {}
        BY <1>1, <1>5, <2>1 DEF ChecksOf
      <4> QED
        BY <1>1, <1>3, <4>1, <4>2 DEF Settled, Checks, inputs
    <3>3. \A i \in DOMAIN steps' : i \in DOMAIN steps \/ i = step
      BY <1>2, <1>5, <2>3, StepKept
    <3>4. \A k \in DOMAIN checked : checked[k].step <= Reach({"check", "raised"})'
      BY <1>2, <1>5, <2>1, <2>3, StepKept DEF Reach
    <3> QED
      BY <1>1, <2>3, <3>1, <3>2, <3>3, <3>4 DEF Checked
  <2> QED
    BY <1>1, <2>2, <2>3
<1>11. Stopped'
  <2>1. CASE pc' = "raised"
    BY <1>1, <1>5, <2>1 DEF Stopped
  <2>2. CASE pc' = "finish"
    <3>1. Failed' = {step}
      <4>1. \A b \in broken : b[2] = "exhausted"
        BY <1>5 DEF Failed
      <4>2. {c \in broken' : c[2] # "exhausted"} = {<<step, how>>}
        BY <1>1, <4>1
      <4>3. Failed' = {b[1] : b \in {<<step, how>>}}
        BY <4>2 DEF Failed
      <4> QED
        BY <4>3
    <3>2. /\ \A i \in DOMAIN steps' : i = step \/ (steps'[i] = steps[i] /\ i \in DOMAIN steps)
          /\ steps'[step] = case /\ Len(steps') = step /\ step \in DOMAIN steps'
      <4>1. steps' = Append(steps, case) /\ step \in Nat
        BY <1>2, <1>5, <2>2
      <4> QED
        BY <1>5, <4>1, StepKept
    <3>3. {i \in DOMAIN steps' : steps'[i].error} = {step}
      BY <1>3, <1>5, <3>2
    <3>4. \A i \in DOMAIN steps' : TestCaseStatus(steps'[i]) # "pass" => i = Len(steps')
      BY <1>5, <3>2
    <3> QED
      BY <2>2, <3>1, <3>3, <3>4 DEF Stopped
  <2> QED
    BY <1>1, <2>1, <2>2
<1>12. Reported'
  BY <1>0, <1>1 DEF RunInv, Reported, Working
<1> QED
  BY <1>7, <1>8, <1>9, <1>10, <1>11, <1>12 DEF RunInv

(* A check was executed, and one more verdict is known of the step in hand. *)
LEMMA RunCheckKeeps ==
  ASSUME RunInv, NEW verdict \in Statuses, RunCheck(verdict)
  PROVE  RunInv'
<1> DEFINE entry == [step |-> step, verdict |-> verdict]
           o == Len(checked) - Len(results)
<1>1. /\ pc = "check" /\ item <= Checks /\ item' = item + 1
      /\ results' = Append(results, verdict) /\ checked' = Append(checked, entry)
      /\ UNCHANGED <<inputs, pc, run, step, frames, user, steps, outcome, produced, broken, verdicts>>
  BY DEF RunCheck
<1>2. /\ pc \in Working /\ step \in 1..MaxSteps /\ Len(steps) = step - 1 /\ step \in Nat /\ Checks \in Nat
  <2>1. pc \in Working
    BY <1>1 DEF Working
  <2>2. step \in 1..MaxSteps /\ Len(steps) = step - 1 /\ Checks \in 0..MaxChecks
    BY <2>1, AtWork
  <2> QED
    BY <2>1, <2>2, BoundsAssumption
<1>3. /\ Len(checked) \in Nat /\ DOMAIN checked = 1..Len(checked)
      /\ \A k \in DOMAIN checked : checked[k].step \in Nat
  BY CheckedSteps DEF RunInv
<1>4. /\ Len(checked') = Len(checked) + 1 /\ DOMAIN checked' = 1..(Len(checked) + 1)
      /\ checked'[Len(checked) + 1] = entry /\ \A k \in DOMAIN checked : checked'[k] = checked[k]
  <2> DEFINE Entries == [step : 1..MaxSteps, verdict : Statuses]
  <2>1. entry \in Entries
    BY <1>2
  <2> HIDE DEF Entries, entry
  <2>2. checked \in Seq([step : 1..MaxSteps, verdict : Statuses])
    BY DEF RunInv, TypeOK
  <2>3. checked \in Seq(Entries)
    BY <2>2 DEF Entries
  <2> QED
    BY <1>1, <2>1, <2>3, AppendProperties, LenProperties
<1>5. /\ results \in Seq(Statuses) /\ Len(results) \in Nat
      /\ Len(results') = Len(results) + 1 /\ results'[Len(results) + 1] = verdict
      /\ DOMAIN results' = 1..(Len(results) + 1) /\ DOMAIN results = 1..Len(results)
      /\ \A j \in DOMAIN results : results'[j] = results[j]
  BY <1>1, AppendProperties, LenProperties DEF RunInv, TypeOK
<1>6. TypeOK'
  <2>1. checked' \in Seq([step : 1..MaxSteps, verdict : Statuses])
    <3>1. entry \in [step : 1..MaxSteps, verdict : Statuses]
      BY <1>2
    <3> QED
      BY <1>1, <3>1 DEF RunInv, TypeOK
  <2>2. results' \in Seq(Statuses) /\ item' \in Nat \ {0}
    BY <1>1 DEF RunInv, TypeOK
  <2> QED
    BY <1>1, <2>1, <2>2 DEF RunInv, TypeOK, inputs
<1>7. Placed' /\ Traced' /\ Stopped' /\ Reported'
  <2>1. Placed'
    BY <1>1 DEF RunInv, Placed, inputs
  <2>2. Traced'
    BY <1>1 DEF RunInv, Traced, Reach, Replaced
  <2>3. Stopped'
    BY <1>1 DEF RunInv, Stopped, Failed
  <2>4. Reported'
    BY <1>1 DEF RunInv, Reported
  <2> QED
    BY <2>1, <2>2, <2>3, <2>4
<1>8. Checked'
  <2>1. \A k \in DOMAIN checked' : checked'[k].step <= Reach({"check", "raised"})'
    <3>1. \A k \in DOMAIN checked : checked[k].step <= step
      BY <1>1, <1>2 DEF RunInv, Checked, Reach
    <3>2. Reach({"check", "raised"})' = step
      BY <1>1, <1>2 DEF Reach
    <3> QED
      BY <1>2, <1>3, <1>4, <3>1, <3>2
  <2>2. ASSUME NEW i \in DOMAIN steps PROVE Settled(i)'
    <3>1. Settled(i) /\ i # step /\ steps' = steps /\ scenario' = scenario
      BY SMTT(30), <1>1, <1>2, LenProperties DEF RunInv, TypeOK, Checked, inputs
    <3>2. ChecksOf(i)' = ChecksOf(i)
      BY <1>3, <1>4, <3>1 DEF ChecksOf
    <3>3. ASSUME ~steps[i].error PROVE Recorded(i, steps[i].results)'
      <4> DEFINE list == steps[i].results
      <4>1. PICK p \in 0..Len(checked) : RecordedAt(p, i, list)
        BY <3>1, <3>3 DEF Settled, Recorded
      <4>2. Len(list) \in Nat /\ DOMAIN list = 1..Len(list)
        <5> DEFINE R == CaseResults
        <5> HIDE DEF R
        <5>1. steps \in Seq(R)
          BY DEF RunInv, TypeOK, R
        <5>2. steps[i] \in R
          BY <5>1
        <5> QED
          BY <5>2, LenProperties DEF R, CaseResults
      <4> HIDE DEF list
      <4>3. p + Len(list) <= Len(checked)
        BY <4>1 DEF RecordedAt
      <4>4. \A k \in DOMAIN checked' : checked'[k].step = i <=> k \in (p + 1)..(p + Len(list))
        <5> SUFFICES ASSUME NEW k \in 1..(Len(checked) + 1)
                     PROVE  checked'[k].step = i <=> k \in (p + 1)..(p + Len(list))
          BY <1>4
        <5>1. CASE k = Len(checked) + 1
          BY <1>3, <1>4, <3>1, <4>2, <4>3, <5>1
        <5>2. CASE k \in DOMAIN checked
          BY <1>4, <4>1, <5>2 DEF RecordedAt
        <5> QED
          BY <1>3, <5>1, <5>2
      <4>5. \A j \in DOMAIN list : checked'[p + j].verdict = list[j]
        BY <1>3, <1>4, <4>1, <4>2, <4>3 DEF RecordedAt
      <4>6. RecordedAt(p, i, list)'
        BY <1>3, <1>4, <3>1, <4>2, <4>3, <4>4, <4>5 DEF RecordedAt, list
      <4> QED
        BY <1>3, <1>4, <3>1, <4>6 DEF Recorded, list
    <3> QED
      BY <3>1, <3>2, <3>3 DEF Settled
  <2>3. RecordedAt(o, step, results)' /\ Len(checked') - Len(results') = o /\ o \in Int
    <3>1. RecordedAt(o, step, results) /\ o + Len(results) = Len(checked) /\ o \in Nat
      BY <1>1, <1>3, <1>5 DEF RunInv, Checked
    <3>2. o' = o /\ o + Len(results') = Len(checked')
      BY <1>3, <1>4, <1>5
    <3>3. o \in Int /\ (o + 1)..(o + Len(results')) = ((o + 1)..(o + Len(results))) \cup {Len(checked) + 1}
      BY <1>3, <1>5
    <3> HIDE DEF o
    <3>4. \A k \in DOMAIN checked' : checked'[k].step = step <=> k \in (o + 1)..(o + Len(results'))
      <4> SUFFICES ASSUME NEW k \in DOMAIN checked'
                   PROVE  checked'[k].step = step <=> k \in (o + 1)..(o + Len(results'))
        OBVIOUS
      <4>1. CASE k = Len(checked) + 1
        BY <1>4, <3>3, <4>1
      <4>2. CASE k \in DOMAIN checked
        <5>1. checked[k].step = step <=> k \in (o + 1)..(o + Len(results))
          BY <3>1, <4>2 DEF RecordedAt
        <5> QED
          BY <1>3, <1>4, <3>3, <4>2, <5>1
      <4> QED
        BY <1>3, <1>4, <4>1, <4>2
    <3>5. \A j \in DOMAIN results' : checked'[o + j].verdict = results'[j]
      <4> SUFFICES ASSUME NEW j \in 1..(Len(results) + 1)
                   PROVE  checked'[o + j].verdict = results'[j]
        BY <1>5
      <4>1. CASE j = Len(results) + 1
        BY <1>3, <1>4, <1>5, <3>1, <4>1
      <4>2. CASE j \in DOMAIN results
        <5>1. checked[o + j].verdict = results[j] /\ o + Len(results) = Len(checked)
          BY <3>1, <4>2 DEF RecordedAt
        <5>2. o + j \in DOMAIN checked
          BY <1>3, <1>5, <3>1, <3>3, <4>2 DEF o
        <5> QED
          BY <1>4, <1>5, <4>2, <5>1, <5>2
      <4> QED
        BY <1>5, <4>1, <4>2
    <3>6. step' = step
      BY <1>1
    <3> QED
      BY <3>2, <3>3, <3>4, <3>5, <3>6, <1>3, <1>4, <1>5 DEF RecordedAt
  <2>4. /\ item' = Len(results') + 1 /\ item' <= Checks' + 1
        /\ Len(results') <= Len(checked') /\ step' = step
    <3>1. item = Len(results) + 1 /\ Len(results) <= Len(checked)
      BY <1>1 DEF RunInv, Checked
    <3>2. Checks' = Checks
      BY <1>1 DEF Checks, inputs
    <3> QED
      BY <1>1, <1>2, <1>3, <1>4, <1>5, <3>1, <3>2
  <2> QED
    BY <1>1, <2>1, <2>2, <2>3, <2>4 DEF Checked
<1> QED
  BY <1>6, <1>7, <1>8 DEF RunInv

(* A check raised, and nothing is reported.                                *)
LEMMA CheckRaisesKeeps ==
  ASSUME RunInv, CheckRaises
  PROVE  RunInv'
<1>1. /\ pc = "check" /\ pc' = "raised"
      /\ UNCHANGED <<inputs, run, step, item, frames, user, results, steps, outcome, history>>
  BY DEF CheckRaises
<1>2. TypeOK'
  BY <1>1 DEF RunInv, TypeOK, inputs, history
<1>3. Placed'
  BY <1>1 DEF RunInv, Placed, Working, inputs, history
<1>4. Traced' /\ Stopped' /\ Reported'
  <2>1. \A i \in DOMAIN steps : TestCaseStatus(steps[i]) = "pass"
    BY <1>1, AtWork DEF Working
  <2> QED
    BY <1>1, <2>1 DEF RunInv, Traced, Stopped, Reported, Reach, Working, Replaced, history
<1>5. Checked'
  <2>1. \A i : Settled(i)' <=> Settled(i)
    BY <1>1, SettledStays DEF inputs, history
  <2> QED
    BY <1>1, <2>1 DEF RunInv, Checked, Reach, history
<1> QED
  BY <1>2, <1>3, <1>4, <1>5 DEF RunInv

(* All checks of a step were executed.                                     *)
LEMMA StepDoneKeeps ==
  ASSUME RunInv, StepDone
  PROVE  RunInv'
<1> DEFINE case == CaseResult(results, FALSE, frames[1])
<1>1. /\ pc = "check" /\ item > Checks /\ steps' = Append(steps, case) /\ pc' = AfterStep(case)
      /\ step' = step + 1 /\ item' = 1
      /\ UNCHANGED <<inputs, run, frames, user, results, outcome, history>>
  BY DEF StepDone
<1>2. /\ pc \in Working /\ step \in 1..Len(scenario) /\ step \in 1..MaxSteps /\ Len(scenario) \in Nat
      /\ Len(steps) = step - 1 /\ Checks \in 0..MaxChecks
      /\ Failed = {} /\ ~Replaced
      /\ \A i \in DOMAIN steps : TestCaseStatus(steps[i]) = "pass" /\ ~steps[i].error
  <2>1. pc \in Working
    BY <1>1 DEF Working
  <2> QED
    BY <2>1, AtWork
<1>3. Len(frames) = 1 /\ frames[1] = Last(frames) /\ frames[1] \in Trace
  <2>1. Len(frames) = 1
    BY <1>1, OneFrame
  <2> QED
    BY <2>1, InnermostFrame DEF RunInv
<1>4. ~case.error /\ case.results = results /\ case.index = Len(frames[1]) - 1
  BY DEF CaseResult, LastIndex
<1>5. case \in CaseResults
  <2>1. Len(frames[1]) - 1 \in Int
    BY <1>3, LenProperties DEF Trace
  <2> QED
    BY <2>1 DEF RunInv, TypeOK, CaseResult, CaseResults, LastIndex
<1> HIDE DEF case
<1>6. /\ \A i \in DOMAIN steps' : i = step \/ (steps'[i] = steps[i] /\ i \in DOMAIN steps)
      /\ steps'[step] = case /\ Len(steps') = step /\ step \in DOMAIN steps'
      /\ \A i \in DOMAIN steps : steps'[i] = steps[i]
      /\ steps' \in Seq(CaseResults)
  BY <1>1, <1>2, <1>5, StepKept
<1>7. /\ pc' \in {"interact", "finish"}
      /\ pc' = "interact" => TestCaseStatus(case) = "pass" /\ step < Len(scenario)
  BY <1>1 DEF AfterStep, After
<1>8. TypeOK'
  <2>1. step' \in 1..(Len(scenario') + 1)
    BY <1>1, <1>2 DEF inputs
  <2> QED
    BY SMTT(30), <1>1, <1>6, <1>7, <2>1 DEF RunInv, TypeOK, inputs, history
<1>9. Placed'
  BY <1>1, <1>2, <1>6, <1>7 DEF RunInv, Placed, Working, inputs, history
<1>10. Traced'
  <2>1. Last(frames') = produced /\ case.index = Len(produced) - 1
    BY <1>1, <1>2, <1>3, <1>4 DEF RunInv, Traced
  <2> QED
    BY <1>1, <1>2, <2>1, IndexKept DEF history
<1>11. Checked'
  <2>1. \A k \in DOMAIN checked : checked[k].step <= step
    BY SMTT(30), <1>1, <1>2 DEF RunInv, Checked, Reach
  <2>2. \A k \in DOMAIN checked : checked[k].step <= Reach({"check", "raised"})'
    BY <1>6, <1>7, <2>1 DEF Reach
  <2>3. \A i \in DOMAIN steps : Settled(i)'
    BY <1>1, <1>6, SettledStays DEF RunInv, Checked, inputs, history
  <2>4. ASSUME NEW i, i = step PROVE Settled(i)'
    <3>1. /\ item = Len(results) + 1 /\ item <= Checks + 1 /\ Len(results) <= Len(checked)
          /\ RecordedAt(Len(checked) - Len(results), step, results)
      BY <1>1 DEF RunInv, Checked
    <3>2. Len(results) \in Nat /\ Len(checked) \in Nat
      BY DEF RunInv, TypeOK
    <3>3. Len(results) = Checks /\ Len(checked) - Len(results) \in 0..Len(checked)
      BY SMTT(30), <1>1, <1>2, <3>1, <3>2, BoundsAssumption
    <3>4. PICK o \in 0..Len(checked) : RecordedAt(o, step, results)
      BY <3>1, <3>3
    <3>5. RecordedAt(o, i, steps[i].results)'
      BY <1>1, <1>4, <1>6, <2>4, <3>4 DEF RecordedAt, history
    <3>6. o \in 0..Len(checked')
      BY <1>1, <3>4 DEF history
    <3>7. ~steps'[i].error /\ Len(steps'[i].results) = scenario'[i].checks
      BY <1>1, <1>4, <1>6, <2>4, <3>3 DEF Checks, inputs
    <3> QED
      BY <3>5, <3>6, <3>7 DEF Settled, Recorded
  <2> QED
    BY <1>1, <1>6, <1>7, <2>2, <2>3, <2>4 DEF Checked, history
<1>12. Stopped'
  <2>1. Failed' = {}
    BY <1>1, <1>2 DEF Failed, history
  <2>2. {i \in DOMAIN steps' : steps'[i].error} = {}
    BY <1>2, <1>4, <1>6
  <2>3. \A i \in DOMAIN steps' :
           TestCaseStatus(steps'[i]) # "pass" => i = Len(steps') /\ pc' = "finish"
    BY <1>2, <1>6, <1>7
  <2> QED
    BY <2>1, <2>2, <2>3 DEF Stopped
<1>13. Reported'
  BY <1>1, <1>7 DEF RunInv, Reported
<1> QED
  BY <1>8, <1>9, <1>10, <1>11, <1>12, <1>13 DEF RunInv

(* The report has a result for every step of the scenario: what was kept of *)
(* those that ran, and skipped checks for the others.                      *)
LEMMA FilledFacts ==
  ASSUME TypeOK, Len(steps) <= Len(scenario)
  PROVE  /\ Filled \in Seq(CaseResults) /\ Len(Filled) = Len(scenario)
         /\ DOMAIN Filled = 1..Len(scenario) /\ DOMAIN steps = 1..Len(steps)
         /\ Len(scenario) \in Nat /\ Len(steps) \in Nat
         /\ \A i \in 1..Len(steps) : Filled[i] = steps[i]
         /\ \A i \in (Len(steps) + 1)..Len(scenario) :
              /\ Filled[i].results = SkippedResults(scenario[i].checks) /\ ~Filled[i].error
              /\ Filled[i].index = Len(frames[1]) - 1
              /\ TestCaseStatus(Filled[i]) = "skip"
<1> DEFINE R == CaseResults
           Skipped(i) == CaseResult(SkippedResults(scenario[i].checks), FALSE, frames[1])
<1>1. /\ Len(scenario) \in Nat /\ Len(steps) \in Nat /\ DOMAIN steps = 1..Len(steps)
      /\ steps \in Seq(R) /\ \A i \in 1..Len(steps) : steps[i] \in R
  <2> HIDE DEF R
  <2>1. steps \in Seq(R) /\ Len(scenario) \in Nat
    BY DEF TypeOK, R
  <2> QED
    BY <2>1
<1>2. frames[1] \in Trace /\ Len(frames[1]) - 1 \in Int
  <2>1. frames[1] \in Trace
    BY InnermostFrame
  <2> QED
    BY <2>1, LenProperties DEF Trace
<1>3. ASSUME NEW i \in 1..Len(scenario)
      PROVE  /\ Skipped(i) \in R /\ Skipped(i).results = SkippedResults(scenario[i].checks)
             /\ ~Skipped(i).error /\ Skipped(i).index = Len(frames[1]) - 1
             /\ TestCaseStatus(Skipped(i)) = "skip"
  <2>1. scenario[i].checks \in Nat
    BY StepShape, BoundsAssumption
  <2>2. SkippedResults(scenario[i].checks) \in Seq(Statuses)
        /\ RollUp(SkippedResults(scenario[i].checks)) = "skip"
    BY <2>1, SkipFacts
  <2> QED
    BY <1>2, <2>2 DEF CaseResult, CaseResults, LastIndex, TestCaseStatus
<1>4. Filled = [i \in 1..Len(scenario) |-> IF i <= Len(steps) THEN steps[i] ELSE Skipped(i)]
  BY DEF Filled
<1> HIDE DEF R, Skipped
<1>5. \A i \in 1..Len(scenario) : Filled[i] = (IF i <= Len(steps) THEN steps[i] ELSE Skipped(i))
  BY <1>4
<1>6. \A i \in 1..Len(scenario) : Filled[i] \in R
  BY <1>1, <1>3, <1>5
<1>7. Filled \in Seq(R) /\ Len(Filled) = Len(scenario) /\ DOMAIN Filled = 1..Len(scenario)
  BY <1>1, <1>4, <1>6
<1> QED
  BY <1>1, <1>3, <1>5, <1>7 DEF R

LEMMA ScenarioFacts ==
  ASSUME NEW list \in Seq(CaseResults)
  PROVE  /\ ScenarioStatus(list) \in Statuses
         /\ ScenarioStatus(list) = "error" <=>
              \E i \in DOMAIN list : TestCaseStatus(list[i]) = "error"
         /\ ScenarioStatus(list) = "fail" <=>
              /\ \E i \in DOMAIN list : TestCaseStatus(list[i]) = "fail"
              /\ \A i \in DOMAIN list : TestCaseStatus(list[i]) # "error"
<1> DEFINE R == CaseResults
           cases == [i \in 1..Len(list) |-> TestCaseStatus(list[i])]
<1>1. Len(list) \in Nat /\ DOMAIN list = 1..Len(list) /\ \A i \in DOMAIN list : TestCaseStatus(list[i]) \in Statuses
  <2>1. \A x \in R : TestCaseStatus(x) \in Statuses
    BY CaseFacts
  <2> HIDE DEF R
  <2>2. list \in Seq(R)
    BY DEF R
  <2> QED
    BY <2>1, <2>2
<1>2. cases \in Seq(Statuses) /\ DOMAIN cases = DOMAIN list
  BY <1>1
<1> QED
  BY <1>1, <1>2, RollUpFacts DEF ScenarioStatus

(* A run is over, and its report is the result or the next run begins.      *)
LEMMA FinishKeeps ==
  ASSUME RunInv, Finish
  PROVE  RunInv'
<1> DEFINE status == ScenarioStatus(Filled)
<1>1. pc = "finish" /\ verdicts' = Append(verdicts, status) /\ UNCHANGED inputs
  BY DEF Finish
<1>2. /\ Len(steps) <= Len(scenario) /\ Len(scenario) <= MaxSteps /\ Len(scenario) \in Nat
      /\ verdicts \in Seq(Statuses) /\ run = Len(verdicts) + 1 /\ Len(frames) = 1
      /\ Len(verdicts) \in Nat /\ MaxRuns \in Nat
      /\ run \in Nat \ {0} /\ multipleRuns \in 1..MaxRuns /\ run \in 1..multipleRuns
  <2>1. /\ Len(steps) <= Len(scenario) /\ Len(scenario) <= MaxSteps /\ Len(scenario) \in Nat
        /\ verdicts \in Seq(Statuses) /\ Len(verdicts) \in Nat
    BY <1>1 DEF RunInv, TypeOK, Placed
  <2>2. Len(frames) = 1
    BY <1>1, OneFrame
  <2>3. /\ multipleRuns \in 1..MaxRuns /\ run \in 1..multipleRuns
        /\ MaxRuns \in Nat
    BY BoundsAssumption DEF RunInv, TypeOK
  <2>4. run = Len(verdicts) + 1
    BY <1>1, <2>1 DEF RunInv, Placed
  <2> QED
    BY <2>1, <2>2, <2>3, <2>4
<1>3. Filled \in Seq(CaseResults) /\ status \in Statuses
  BY <1>2, FilledFacts, ScenarioFacts DEF RunInv
<1>4. frames[1] \in Trace
  BY <1>2, InnermostFrame DEF RunInv
<1> HIDE DEF status
<1>5. /\ verdicts' \in Seq(Statuses) /\ Len(verdicts') = Len(verdicts) + 1
      /\ Last(verdicts') = status
  BY <1>1, <1>2, <1>3 DEF Last
<1>6. CASE LastRun(status)
  <2>1. /\ pc' = "done"
        /\ outcome' = [status |-> status, steps |-> Filled, trace |-> frames[1], runs |-> run]
        /\ UNCHANGED <<run, step, item, frames, user, results, steps, produced, checked, broken>>
    BY <1>6 DEF Finish, status
  <2>2. Filled' = Filled
    BY <1>1, <2>1 DEF Filled, inputs
  <2>3. outcome' \in [status : Statuses, steps : Seq(CaseResults), trace : Trace, runs : 1..MaxRuns]
    <3>1. run \in 1..MaxRuns
      BY <1>2
    <3> QED
      BY <1>3, <1>4, <2>1, <3>1
  <2>4. TypeOK'
    BY <1>1, <1>5, <2>1, <2>3 DEF RunInv, TypeOK, inputs
  <2>5. Placed'
    <3>1. ~(Len(frames') > 1)
      <4>1. Len(frames') = 1
        BY <1>2, <2>1
      <4> QED
        BY <4>1
    <3>2. run' = Len(verdicts')
      BY <1>2, <1>5, <2>1
    <3>3. Len(scenario') <= MaxSteps /\ Len(steps') <= Len(scenario')
      BY <1>1, <1>2, <2>1 DEF inputs
    <3>4. pc' = "done" /\ pc' \notin Working /\ pc' # "build" /\ pc' # "generate"
      BY <2>1 DEF Working
    <3> QED
      BY <1>2, <3>1, <3>2, <3>3, <3>4 DEF Placed
  <2>6. Traced' /\ Stopped'
    BY <1>1, <2>1 DEF RunInv, Traced, Stopped, Reach, Replaced, Failed, Working
  <2>7. Checked'
    <3>1. \A i : Settled(i)' <=> Settled(i)
      BY <1>1, <2>1, SettledStays DEF inputs
    <3> QED
      BY <1>1, <2>1, <3>1 DEF RunInv, Checked, Reach
  <2>8. Reported'
    BY <2>1, <2>2 DEF Reported, status
  <2> QED
    BY <2>4, <2>5, <2>6, <2>7, <2>8 DEF RunInv
<1>7. CASE ~LastRun(status)
  <2>1. /\ pc' = After(0) /\ run' = run + 1 /\ step' = 1 /\ item' = 1 /\ frames' = <<<<>>>>
        /\ results' = <<>> /\ steps' = <<>> /\ produced' = <<>> /\ checked' = <<>> /\ broken' = {}
        /\ UNCHANGED <<user, outcome>> /\ run # multipleRuns
    BY <1>7 DEF Finish, LastRun, status
  <2>2. pc' \in {"interact", "finish"} /\ (pc' = "interact" => 0 < Len(scenario))
    BY <2>1 DEF After
  <2>3. TypeOK'
    <3>1. step' \in 1..(Len(scenario') + 1) /\ run' \in 1..multipleRuns'
      BY <1>1, <1>2, <2>1 DEF inputs
    <3>2. frames' \in Seq(Trace) /\ frames' # <<>> /\ produced' \in Trace
      BY <2>1 DEF Trace
    <3>3. /\ results' \in Seq(Statuses) /\ steps' \in Seq(CaseResults)
          /\ checked' \in Seq([step : 1..MaxSteps, verdict : Statuses])
          /\ broken' \subseteq (1..MaxSteps) \X Mishaps
      BY <2>1
    <3> QED
      BY <1>1, <1>5, <2>1, <2>2, <3>1, <3>2, <3>3 DEF RunInv, TypeOK, inputs
  <2>4. Placed'
    <3>1. Len(frames') = 1 /\ Len(steps') = 0
      BY <2>1
    <3>2. run' = Len(verdicts') + 1
      BY <1>2, <1>5, <2>1
    <3> QED
      BY <1>1, <1>2, <2>1, <2>2, <3>1, <3>2 DEF Placed, Working, inputs
  <2>5. Traced' /\ Checked' /\ Stopped'
    <3>1. DOMAIN steps' = {} /\ DOMAIN checked' = {} /\ DOMAIN produced' = {}
      BY <2>1
    <3>2. Last(frames') = produced'
      BY <2>1 DEF Last
    <3>3. Traced'
      BY <3>1, <3>2 DEF Traced
    <3>4. Failed' = {}
      BY <2>1 DEF Failed
    <3> QED
      BY <2>2, <3>1, <3>3, <3>4 DEF Checked, Stopped
  <2>6. Reported'
    BY <1>1, <2>1, <2>2 DEF RunInv, Reported
  <2> QED
    BY <2>3, <2>4, <2>5, <2>6 DEF RunInv
<1> QED
  BY <1>6, <1>7

-----------------------------------------------------------------------------
(* While a scenario is built there is nothing to report.                   *)
LEMMA BuiltKeeps ==
  ASSUME RunInv, pc = "build", scenario' \in Seq(StepShapes), Len(scenario') <= MaxSteps,
         pc' = "build" \/ (pc' = After(0) /\ scenario' = scenario),
         UNCHANGED <<returnException, multipleRuns, run, step, item, frames, user, results, steps,
                     outcome, history>>
  PROVE  RunInv'
<1>1. /\ step = 1 /\ steps = <<>> /\ produced = <<>> /\ checked = <<>> /\ broken = {}
      /\ frames[1] = <<>> /\ verdicts = <<>> /\ run = 1 /\ Len(frames) = 1
  <2>1. Len(frames) = 1
    BY OneFrame
  <2>2. verdicts = <<>> /\ run = Len(verdicts) + 1
    BY DEF RunInv, Placed
  <2> QED
    BY <2>1, <2>2 DEF RunInv, Placed
<1>2. /\ pc' \in {"build", "interact", "finish"}
      /\ pc' = "interact" => 0 < Len(scenario')
  BY DEF After
<1>3. Len(scenario') \in Nat
  BY LenProperties
<1>4. TypeOK'
  <2>1. step' \in 1..(Len(scenario') + 1)
    BY <1>1, <1>3
  <2> QED
    BY <1>2, <2>1 DEF RunInv, TypeOK, history
<1>5. Placed'
  <2>1. ~(Len(frames') > 1)
    <3>1. Len(frames') = 1
      BY <1>1
    <3> QED
      BY <3>1
  <2>2. Len(steps') = 0 /\ Len(verdicts') = 0
    BY <1>1 DEF history
  <2> QED
    BY <1>1, <1>2, <1>3, <2>1, <2>2 DEF Placed, Working, history
<1>6. Traced' /\ Checked' /\ Stopped'
  <2>1. DOMAIN steps' = {} /\ DOMAIN checked' = {} /\ DOMAIN produced' = {}
    BY <1>1 DEF history
  <2>2. Last(frames') = produced'
    BY <1>1 DEF Last, history
  <2>3. Traced'
    BY <2>1, <2>2 DEF Traced
  <2>4. Failed' = {}
    BY <1>1 DEF Failed, history
  <2> QED
    BY <1>2, <2>1, <2>3, <2>4 DEF Checked, Stopped
<1>7. Reported'
  BY <1>2 DEF RunInv, Reported
<1> QED
  BY <1>4, <1>5, <1>6, <1>7 DEF RunInv

LEMMA EmptyStepShape == EmptyStep \in StepShapes
<1>1. MaxChecks \in Nat /\ MaxInteracts \in Nat
  BY BoundsAssumption
<1>2. <<>> \in Bounded(Components, MaxInteracts)
  <2>1. <<>> \in Seq(Components) /\ Len(<<>>) <= MaxInteracts
    BY <1>1
  <2> QED
    BY <1>1, <2>1, BoundedIsSeq
<1> QED
  BY <1>1, <1>2 DEF EmptyStep, StepShapes

LEMMA OrFirstStepFacts ==
  ASSUME NEW parts \in Seq(StepShapes)
  PROVE  /\ OrFirstStep(parts) \in Seq(StepShapes)
         /\ Len(OrFirstStep(parts)) \in Nat \ {0}
         /\ Last(OrFirstStep(parts)) = OrFirstStep(parts)[Len(OrFirstStep(parts))]
<1> DEFINE S == StepShapes
<1>1. EmptyStep \in S
  BY EmptyStepShape
<1> HIDE DEF S
<1>2. OrFirstStep(parts) \in Seq(S) /\ OrFirstStep(parts) # <<>>
  BY <1>1 DEF OrFirstStep, S
<1> QED
  BY <1>2, EmptySeq, LenProperties DEF Last, S

LEMMA BuildKeeps ==
  ASSUME RunInv,
         \/ \E specs \in Bounded(Components, MaxInteracts) : AddInteractions(specs)
         \/ \E n \in 0..MaxChecks : AddChecks(n)
         \/ StartRun
  PROVE  RunInv'
<1> DEFINE S == StepShapes
<1>0. /\ scenario \in Seq(S) /\ Len(scenario) <= MaxSteps
      /\ {MaxChecks, MaxInteracts} \subseteq Nat
  BY BoundsAssumption DEF RunInv, TypeOK, Placed
<1>1. ASSUME NEW specs \in Bounded(Components, MaxInteracts), AddInteractions(specs)
      PROVE  RunInv'
  <2> DEFINE built == WithStepForInteractions(scenario)
             n == Len(built)
             grown == [built[n] EXCEPT !.interacts = built[n].interacts \o specs]
  <2>1. /\ pc = "build" /\ n <= MaxSteps
        /\ Len(Last(built).interacts) + Len(specs) <= MaxInteracts
        /\ scenario' = [built EXCEPT ![n].interacts = built[n].interacts \o specs]
        /\ UNCHANGED <<returnException, multipleRuns, pc, run, step, item, frames, user, results,
                       steps, outcome, history>>
    BY <1>1 DEF AddInteractions
  <2>2. built \in Seq(S) /\ n \in Nat \ {0} /\ Last(built) = built[n] /\ built[n] \in S
    <3>1. built \in Seq(S) /\ built # <<>>
      <4>1. EmptyStep \in S
        BY EmptyStepShape
      <4>2. OrFirstStep(scenario) \in Seq(S) /\ Len(OrFirstStep(scenario)) # 0
        BY <1>0, OrFirstStepFacts
      <4> HIDE DEF S
      <4>3. CASE Last(OrFirstStep(scenario)).checks > 0
        BY <1>0, <4>1, <4>3, AppendProperties DEF WithStepForInteractions
      <4>4. CASE ~(Last(OrFirstStep(scenario)).checks > 0)
        BY <4>2, <4>4 DEF WithStepForInteractions
      <4> QED
        BY <4>3, <4>4
    <3> HIDE DEF S, built
    <3> QED
      BY <3>1, EmptySeq, LenProperties DEF Last
  <2>3. grown \in S
    <3>1. /\ built[n].interacts \in Seq(Components) /\ specs \in Seq(Components)
          /\ Len(built[n].interacts) + Len(specs) <= MaxInteracts
      BY <1>0, <2>1, <2>2, BoundedIsSeq DEF StepShapes
    <3>2. built[n].interacts \o specs \in Bounded(Components, MaxInteracts)
      <4> DEFINE both == built[n].interacts \o specs
      <4> HIDE DEF built, n
      <4>1. both \in Seq(Components) /\ Len(both) <= MaxInteracts
        BY <3>1, ConcatProperties
      <4> HIDE DEF both
      <4>2. both \in Bounded(Components, MaxInteracts)
        BY <1>0, <4>1, BoundedIsSeq
      <4> QED
        BY <4>2 DEF both
    <3> QED
      BY <2>2, <3>2 DEF StepShapes
  <2>4. scenario' = [built EXCEPT ![n] = grown]
    BY <2>1, <2>2
  <2> HIDE DEF built, n, grown, S
  <2>5. scenario' \in Seq(S) /\ Len(scenario') = n
    BY <2>2, <2>3, <2>4, ExceptSeq DEF n
  <2> QED
    BY <2>1, <2>5, BuiltKeeps DEF S
<1>2. ASSUME NEW k \in 0..MaxChecks, AddChecks(k)
      PROVE  RunInv'
  <2> DEFINE built == OrFirstStep(scenario)
             n == Len(built)
             grown == [built[n] EXCEPT !.checks = built[n].checks + k]
  <2>1. /\ pc = "build" /\ n <= MaxSteps /\ Last(built).checks + k <= MaxChecks
        /\ scenario' = [built EXCEPT ![n].checks = built[n].checks + k]
        /\ UNCHANGED <<returnException, multipleRuns, pc, run, step, item, frames, user, results,
                       steps, outcome, history>>
    BY <1>2 DEF AddChecks
  <2>2. built \in Seq(S) /\ n \in Nat \ {0} /\ Last(built) = built[n] /\ built[n] \in S
    <3>1. built \in Seq(S) /\ n \in Nat \ {0} /\ Last(built) = built[n]
      BY <1>0, OrFirstStepFacts
    <3> HIDE DEF S, built
    <3> QED
      BY <3>1
  <2>3. grown \in S
    <3>1. built[n].checks \in 0..MaxChecks
      BY <2>2 DEF StepShapes
    <3>2. built[n].checks + k \in 0..MaxChecks
      BY <1>0, <2>1, <2>2, <3>1
    <3> QED
      BY <2>2, <3>2 DEF StepShapes
  <2>4. scenario' = [built EXCEPT ![n] = grown]
    BY <2>1, <2>2
  <2> HIDE DEF built, n, grown, S
  <2>5. scenario' \in Seq(S) /\ Len(scenario') = n
    BY <2>2, <2>3, <2>4, ExceptSeq DEF n
  <2> QED
    BY <2>1, <2>5, BuiltKeeps DEF S
<1>3. ASSUME StartRun PROVE RunInv'
  BY <1>0, <1>3, BuiltKeeps DEF StartRun, inputs
<1> QED
  BY <1>1, <1>2, <1>3

-----------------------------------------------------------------------------
LEMMA RunInit == Init => RunInv
<1> SUFFICES ASSUME Init PROVE RunInv
  OBVIOUS
<1>1. /\ pc = "build" /\ run = 1 /\ step = 1 /\ item = 1 /\ frames = <<<<>>>> /\ user = NoUser
      /\ results = <<>> /\ steps = <<>> /\ outcome = NoOutcome
      /\ produced = <<>> /\ checked = <<>> /\ broken = {} /\ verdicts = <<>>
  BY DEF Init
<1>2. scenario \in Seq(StepShapes) /\ Len(scenario) <= MaxSteps /\ Len(scenario) \in Nat
  BY BoundedIsSeq, BoundsAssumption, LenProperties DEF Init
<1>3. TypeOK
  <2>1. user \in [turn : 0..(MaxTurns + 1), attempt : 0..(MaxRetries + 1)]
    BY <1>1, BoundsAssumption DEF NoUser
  <2>2. frames \in Seq(Trace) /\ frames # <<>> /\ produced \in Trace
    BY <1>1 DEF Trace
  <2>3. multipleRuns \in 1..MaxRuns /\ run \in 1..multipleRuns /\ step \in 1..(Len(scenario) + 1)
    BY <1>1, <1>2, BoundsAssumption DEF Init
  <2>4. returnException \in BOOLEAN
    BY DEF Init
  <2> QED
    BY <1>1, <1>2, <2>1, <2>2, <2>3, <2>4 DEF TypeOK
<1>4. Placed
  <2>1. Len(frames) = 1 /\ Len(steps) = 0 /\ Len(verdicts) = 0
    BY <1>1
  <2> QED
    BY <1>1, <1>2, <2>1 DEF Placed, Working
<1>5. Traced /\ Checked /\ Stopped
  <2>1. DOMAIN steps = {} /\ DOMAIN checked = {} /\ DOMAIN produced = {}
    BY <1>1
  <2>2. Last(frames) = produced
    BY <1>1 DEF Last
  <2>3. Failed = {}
    BY <1>1 DEF Failed
  <2> QED
    BY <1>1, <2>1, <2>2, <2>3 DEF Traced, Checked, Stopped
<1>6. Reported
  BY <1>1 DEF Reported
<1> QED
  BY <1>3, <1>4, <1>5, <1>6 DEF RunInv

LEMMA RunNext == RunInv /\ [Next]_vars => RunInv'
<1> SUFFICES ASSUME RunInv, [Next]_vars PROVE RunInv'
  OBVIOUS
<1>1. ASSUME \/ \E specs \in Bounded(Components, MaxInteracts) : AddInteractions(specs)
             \/ \E n \in 0..MaxChecks : AddChecks(n)
             \/ StartRun
      PROVE  RunInv'
  BY <1>1, BuildKeeps
<1>2. ASSUME GivenInteraction \/ Yield PROVE RunInv'
  BY <1>2, ProduceKeeps
<1>3. ASSUME OpenSpec \/ \E kind \in {"spec", "llm"} : YieldSpec(kind) PROVE RunInv'
  BY <1>3, OpenKeeps
<1>4. ASSUME GeneratorEnds \/ TargetExhausted PROVE RunInv'
  BY <1>4, ReturnKeeps
<1>5. ASSUME Refuse \/ StartChecks PROVE RunInv'
  BY <1>5, RefuseKeeps
<1>6. ASSUME GeneratorRaises \/ GiveUp PROVE RunInv'
  <2>1. PICK how \in Mishaps \ {"exhausted", "foreign"} : pc = "generate" /\ GenerationFails(Last(frames), how)
    BY <1>6 DEF GeneratorRaises, GiveUp
  <2>2. Last(frames) \in Trace
    BY InnermostFrame DEF RunInv
  <2> QED
    BY <2>1, <2>2, FailsKeeps
<1>7. ASSUME ForeignRaises PROVE RunInv'
  <2>1. pc = "generate" /\ "foreign" \in Mishaps /\ GenerationFails(<<Foreign>>, "foreign")
    BY <1>7 DEF ForeignRaises
  <2>2. <<Foreign>> \in Trace
    <3>1. Foreign \in [run : 0..MaxRuns, step : 0..MaxSteps]
      BY BoundsAssumption DEF Foreign
    <3> QED
      BY <3>1 DEF Trace
  <2> QED
    BY <2>1, <2>2, FailsKeeps
<1>8. ASSUME NEW verdict \in Statuses, RunCheck(verdict) PROVE RunInv'
  BY <1>8, RunCheckKeeps
<1>9. ASSUME CheckRaises PROVE RunInv'
  BY <1>9, CheckRaisesKeeps
<1>10. ASSUME StepDone PROVE RunInv'
  BY <1>10, StepDoneKeeps
<1>11. ASSUME Finish PROVE RunInv'
  BY <1>11, FinishKeeps
<1>12. ASSUME UNCHANGED vars PROVE RunInv'
  <2>1. UNCHANGED <<scenario, returnException, multipleRuns, pc, run, step, item, frames, user,
                    results, steps, outcome, produced, checked, broken, verdicts>>
    BY <1>12 DEF vars, inputs, history
  <2>2. TypeOK'
    BY <2>1 DEF RunInv, TypeOK
  <2>3. Placed'
    BY <2>1 DEF RunInv, Placed
  <2>4. Traced' /\ Stopped'
    BY <2>1 DEF RunInv, Traced, Stopped, Reach, Replaced, Failed
  <2>5. Checked'
    <3>1. \A i : Settled(i)' <=> Settled(i)
      BY <2>1, SettledStays
    <3> QED
      BY <2>1, <3>1 DEF RunInv, Checked, Reach, RecordedAt, Checks
  <2>6. Reported'
    BY <2>1 DEF RunInv, Reported, Filled
  <2> QED
    BY <2>2, <2>3, <2>4, <2>5, <2>6 DEF RunInv
<1> QED
  BY <1>1, <1>2, <1>3, <1>4, <1>5, <1>6, <1>7, <1>8, <1>9, <1>10, <1>11, <1>12 DEF Next, Returned

LEMMA RunInvariant == Spec => []RunInv
BY RunInit, RunNext, PTL DEF Spec

(* Type correctness.                                                       *)
THEOREM RunnerTypes == Spec => []TypeOK
<1>1. RunInv => TypeOK
  BY DEF RunInv
<1> QED
  BY <1>1, RunInvariant, PTL

-----------------------------------------------------------------------------
(* What the checks of a step that ran say, and what was kept of them.      *)
LEMMA EvidenceKept ==
  ASSUME RunInv, NEW i \in 1..Len(steps), ~steps[i].error
  PROVE  /\ steps[i] \in CaseResults /\ Cardinality(ChecksOf(i)) = scenario[i].checks
         /\ Len(steps[i].results) = scenario[i].checks
         /\ \A k \in ChecksOf(i) :
              \E j \in DOMAIN steps[i].results : checked[k].verdict = steps[i].results[j]
         /\ \A j \in DOMAIN steps[i].results :
              \E k \in ChecksOf(i) : checked[k].verdict = steps[i].results[j]
<1> DEFINE list == steps[i].results
           n == Len(list)
<1>1. i \in DOMAIN steps /\ steps[i] \in CaseResults
  <2> DEFINE R == CaseResults
  <2> HIDE DEF R
  <2>1. steps \in Seq(R)
    BY DEF RunInv, TypeOK, R
  <2> QED
    BY <2>1 DEF R
<1>2. n \in Nat /\ DOMAIN list = 1..n
  BY <1>1, LenProperties DEF CaseResults
<1>3. n = scenario[i].checks
  BY <1>1 DEF RunInv, Checked, Settled
<1>4. PICK o \in 0..Len(checked) : RecordedAt(o, i, list)
  BY <1>1 DEF RunInv, Checked, Settled, Recorded
<1>5. Len(checked) \in Nat /\ DOMAIN checked = 1..Len(checked)
  BY CheckedSteps DEF RunInv
<1> HIDE DEF list, n
<1>6. /\ o + n <= Len(checked) /\ o \in Nat
      /\ \A k \in DOMAIN checked : checked[k].step = i <=> k \in (o + 1)..(o + n)
      /\ \A j \in DOMAIN list : checked[o + j].verdict = list[j]
  BY <1>4, <1>5 DEF RecordedAt, n
<1>7. ChecksOf(i) = (o + 1)..(o + n)
  BY <1>2, <1>5, <1>6 DEF ChecksOf
<1>8. Cardinality(ChecksOf(i)) = n
  BY <1>2, <1>6, <1>7, FS_Interval
<1>9. ASSUME NEW k \in ChecksOf(i)
      PROVE  \E j \in DOMAIN list : checked[k].verdict = list[j]
  <2>1. k - o \in DOMAIN list /\ o + (k - o) = k
    BY <1>2, <1>6, <1>7
  <2> QED
    BY <1>6, <2>1
<1>10. ASSUME NEW j \in DOMAIN list
       PROVE  \E k \in ChecksOf(i) : checked[k].verdict = list[j]
  <2>1. o + j \in ChecksOf(i)
    BY <1>2, <1>6, <1>7
  <2> QED
    BY <1>6, <2>1
<1> QED
  BY <1>1, <1>3, <1>8, <1>9, <1>10 DEF list, n

(* What is reported in the end.                                            *)
LEMMA DoneReports ==
  ASSUME RunInv, Done
  PROVE  /\ outcome.status = ScenarioStatus(Filled) /\ outcome.steps = Filled
         /\ outcome.trace = frames[1] /\ outcome.runs = run
         /\ Failed = {i \in DOMAIN steps : steps[i].error}
         /\ Len(steps) <= Len(scenario) /\ Len(frames) = 1 /\ Last(frames) = frames[1]
         /\ TypeOK
<1>1. pc = "done" /\ pc # "generate" /\ pc # "raised"
  BY DEF Done
<1>2. Len(frames) = 1
  BY <1>1, OneFrame
<1> QED
  BY <1>1, <1>2 DEF RunInv, Reported, Placed, Stopped, Last

(* A step reported green is green on evidence: all of its checks were       *)
(* executed, none of them failed or erred, and its input was there.  The    *)
(* steps that were skipped, with checks or without, are not reported green  *)
(* (ScenarioRunner._run_once, _skipped_check_results_for_step).            *)
THEOREM GreenIsOnEvidence == Spec => []GreenOnEvidence
<1>1. ASSUME RunInv PROVE GreenOnEvidence
  <2> SUFFICES ASSUME Done, NEW i \in DOMAIN outcome.steps,
                      TestCaseStatus(outcome.steps[i]) = "pass"
               PROVE  /\ i <= Len(steps) /\ i \notin Failed
                      /\ Cardinality(ChecksOf(i)) = scenario[i].checks
                      /\ \A k \in ChecksOf(i) : checked[k].verdict \in {"pass", "skip"}
    BY DEF GreenOnEvidence
  <2>1. /\ outcome.steps = Filled /\ Len(steps) <= Len(scenario)
        /\ Failed = {j \in DOMAIN steps : steps[j].error} /\ TypeOK
    BY <1>1, DoneReports
  <2>2. i \in 1..Len(steps) /\ outcome.steps[i] = steps[i]
    BY <2>1, FilledFacts
  <2>3. TestCaseStatus(steps[i]) = "pass"
    BY <2>2
  <2>4. ~steps[i].error
    BY <2>3 DEF TestCaseStatus
  <2>5. \A j \in DOMAIN steps[i].results : steps[i].results[j] \in {"pass", "skip"}
    BY <1>1, <2>2, <2>3, <2>4, CaseFacts, EvidenceKept
  <2>6. i <= Len(steps)
    BY <2>1, <2>2, FilledFacts
  <2> QED
    BY <1>1, <2>1, <2>2, <2>4, <2>5, <2>6, EvidenceKept
<1> QED
  BY <1>1, RunInvariant, PTL

(* The report has a result for every step, with one for every check or a    *)
(* synthetic one; and the final trace is that of the interactions completed *)
(* in the reported run, wherever a generator failed (trace.py).            *)
THEOREM ReportsAreComplete == Spec => []ReportIsComplete
<1>1. ASSUME RunInv PROVE ReportIsComplete
  <2> SUFFICES ASSUME Done PROVE ReportIsComplete
    BY DEF ReportIsComplete
  <2>1. /\ outcome.steps = Filled /\ Len(steps) <= Len(scenario) /\ TypeOK
        /\ outcome.trace = Last(frames)
    BY <1>1, DoneReports
  <2>2. Len(outcome.steps) = Len(scenario) /\ Len(scenario) \in Nat /\ DOMAIN scenario = 1..Len(scenario)
    BY <2>1, FilledFacts, LenProperties DEF TypeOK
  <2>3. ASSUME NEW i \in DOMAIN scenario
        PROVE  \/ Len(outcome.steps[i].results) = scenario[i].checks
               \/ scenario[i].checks = 0 /\ Len(outcome.steps[i].results) = 1
    <3>1. scenario[i].checks \in Nat
      BY <2>1, <2>2, StepShape, BoundsAssumption
    <3>2. CASE i \in 1..Len(steps)
      <4>1. outcome.steps[i] = steps[i] /\ i \in DOMAIN steps
        BY <2>1, <3>2, FilledFacts
      <4>2. CASE steps[i].error
        <5>1. steps[i].results = SkippedResults(scenario[i].checks)
          BY <1>1, <4>1, <4>2 DEF RunInv, Checked, Settled
        <5> QED
          BY <3>1, <4>1, <5>1, SkipFacts
      <4>3. CASE ~steps[i].error
        BY <1>1, <3>2, <4>1, <4>3, EvidenceKept
      <4> QED
        BY <4>2, <4>3
    <3>3. CASE i \notin 1..Len(steps)
      <4>1. i \in (Len(steps) + 1)..Len(scenario)
        BY <2>1, <2>2, <3>3, FilledFacts
      <4>2. outcome.steps[i].results = SkippedResults(scenario[i].checks)
        BY <2>1, <4>1, FilledFacts
      <4> QED
        BY <3>1, <4>2, SkipFacts
    <3> QED
      BY <3>2, <3>3
  <2>4. ~Replaced => outcome.trace = produced
    BY <1>1, <2>1 DEF RunInv, Traced
  <2> QED
    BY <2>2, <2>3, <2>4 DEF ReportIsComplete
<1> QED
  BY <1>1, RunInvariant, PTL

(* The index of a step result is that of the last interaction of the step   *)
(* or of an earlier one, so that a finding is shown with the interaction it *)
(* is about; a step that was skipped points at the end of the trace         *)
(* (TestCaseResult.interaction_index, set by ScenarioRunner._run_once).     *)
THEOREM IndexesAttribute == Spec => []IndexAttribution
<1>1. ASSUME RunInv PROVE IndexAttribution
  <2> SUFFICES ASSUME Done, ~Replaced, NEW i \in DOMAIN outcome.steps
               PROVE  outcome.steps[i].index =
                        Cardinality({k \in DOMAIN produced : produced[k].step <= i}) - 1
    BY DEF IndexAttribution
  <2>1. /\ outcome.steps = Filled /\ Len(steps) <= Len(scenario) /\ TypeOK
        /\ Last(frames) = frames[1] /\ Last(frames) = produced /\ pc = "done"
        /\ i \in 1..Len(scenario) /\ Len(scenario) \in Nat /\ Len(steps) \in Nat
        /\ DOMAIN steps = 1..Len(steps)
    BY <1>1, DoneReports, FilledFacts DEF RunInv, Traced, Done
  <2>2. /\ Len(produced) \in Nat /\ DOMAIN produced = 1..Len(produced)
        /\ \A k \in DOMAIN produced : produced[k].step \in Nat
    BY <2>1, ProducedSteps
  <2>3. \A n \in 0..Len(produced) :
           (\A k \in DOMAIN produced : produced[k].step <= i <=> k <= n) =>
             Cardinality({k \in DOMAIN produced : produced[k].step <= i}) = n
    <3> SUFFICES ASSUME NEW n \in 0..Len(produced),
                        \A k \in DOMAIN produced : produced[k].step <= i <=> k <= n
                 PROVE  Cardinality({k \in DOMAIN produced : produced[k].step <= i}) = n
      OBVIOUS
    <3> DEFINE upTo == {k \in DOMAIN produced : produced[k].step <= i}
    <3>1. upTo = 1..n /\ n \in Nat
      BY <2>2
    <3> HIDE DEF upTo
    <3>2. Cardinality(1..n) = n
      BY <3>1, FS_Interval
    <3>3. Cardinality(upTo) = n
      BY <3>1, <3>2
    <3> QED
      BY <3>3 DEF upTo
  <2>4. CASE i <= Len(steps)
    <3>1. i \in DOMAIN steps /\ outcome.steps[i] = steps[i]
      BY <2>1, <2>4, FilledFacts
    <3>2. /\ steps[i].index + 1 \in 0..Len(produced)
          /\ \A k \in DOMAIN produced : produced[k].step <= i <=> k <= steps[i].index + 1
      BY <1>1, <3>1 DEF RunInv, Traced
    <3>3. steps[i].index \in Int
      <4> DEFINE R == CaseResults
      <4> HIDE DEF R
      <4>1. steps \in Seq(R)
        BY <2>1 DEF TypeOK, R
      <4>2. steps[i] \in R
        BY <3>1, <4>1
      <4> QED
        BY <4>2 DEF R, CaseResults
    <3>4. Cardinality({k \in DOMAIN produced : produced[k].step <= i}) = steps[i].index + 1
      BY <2>3, <3>2
    <3> QED
      BY <3>1, <3>3, <3>4
  <2>5. CASE ~(i <= Len(steps))
    <3>1. outcome.steps[i].index = Len(produced) - 1
      BY <2>1, <2>5, FilledFacts
    <3>2. \A k \in DOMAIN produced : produced[k].step <= Len(steps)
      BY <1>1, <2>1 DEF RunInv, Traced, Reach, Working
    <3>3. \A k \in DOMAIN produced : produced[k].step <= i <=> k <= Len(produced)
      BY <2>1, <2>2, <2>5, <3>2
    <3>4. Len(produced) \in 0..Len(produced)
      BY <2>2
    <3> QED
      BY <2>3, <3>1, <3>3, <3>4
  <2> QED
    BY <2>4, <2>5
<1> QED
  BY <1>1, RunInvariant, PTL

(* After a step that did not pass no later step touches the target or runs  *)
(* a check, in the same run (the break in ScenarioRunner._run_once).        *)
THEOREM StopsAtNonPass == Spec => []StopsAtFirstNonPass
<1>1. ASSUME RunInv PROVE StopsAtFirstNonPass
  <2> SUFFICES ASSUME NEW i \in DOMAIN steps, TestCaseStatus(steps[i]) # "pass"
               PROVE  /\ \A k \in DOMAIN produced : produced[k].step <= i
                      /\ \A k \in DOMAIN checked : checked[k].step <= i
    BY DEF StopsAtFirstNonPass
  <2>1. i = Len(steps) /\ pc \in {"finish", "done"}
    BY <1>1 DEF RunInv, Stopped
  <2> QED
    BY <1>1, <2>1 DEF RunInv, Traced, Checked, Reach, Working
<1> QED
  BY <1>1, RunInvariant, PTL

(* A verdict that some check gave is among those that were kept, and those  *)
(* that were kept of a step that ran were given.                           *)
LEMMA VerdictsKept ==
  ASSUME RunInv, Done, NEW st
  PROVE  (\E k \in DOMAIN checked : checked[k].verdict = st) <=>
           \E i \in 1..Len(steps) :
             ~steps[i].error /\ \E j \in DOMAIN steps[i].results : steps[i].results[j] = st
<1>1. ASSUME NEW k \in DOMAIN checked, checked[k].verdict = st
      PROVE  \E i \in 1..Len(steps) :
               ~steps[i].error /\ \E j \in DOMAIN steps[i].results : steps[i].results[j] = st
  <2> DEFINE i == checked[k].step
  <2>1. i \in 1..Len(steps)
    <3> DEFINE Entries == [step : 1..MaxSteps, verdict : Statuses]
    <3> HIDE DEF Entries
    <3>1. checked \in Seq(Entries) /\ Len(steps) \in Nat
      BY DEF RunInv, TypeOK, Entries
    <3>2. checked[k] \in Entries
      BY <3>1
    <3>3. i \in Nat \ {0}
      BY <3>2, BoundsAssumption DEF Entries
    <3>4. i <= Len(steps)
      BY DEF RunInv, Checked, Reach, Done
    <3> QED
      BY <3>1, <3>3, <3>4
  <2>2. k \in ChecksOf(i)
    BY DEF ChecksOf
  <2>3. ~steps[i].error
    <3>1. i \in DOMAIN steps
      BY <2>1, LenProperties DEF RunInv, TypeOK
    <3>2. Settled(i)
      BY <3>1 DEF RunInv, Checked
    <3>3. steps[i].error => ChecksOf(i) = {}
      BY <3>2 DEF Settled
    <3> QED
      BY <2>2, <3>3
  <2> HIDE DEF i
  <2> QED
    BY <1>1, <2>1, <2>2, <2>3, EvidenceKept
<1>2. ASSUME NEW i \in 1..Len(steps), ~steps[i].error,
             NEW j \in DOMAIN steps[i].results, steps[i].results[j] = st
      PROVE  \E k \in DOMAIN checked : checked[k].verdict = st
  <2>1. PICK k \in ChecksOf(i) : checked[k].verdict = steps[i].results[j]
    BY <1>2, EvidenceKept
  <2> QED
    BY <1>2, <2>1 DEF ChecksOf
<1> QED
  BY <1>1, <1>2

(* The verdict hides nothing that reached the runner: it is an error just   *)
(* when some input could not be generated or a check was in error, a        *)
(* failure just when a check failed and nothing erred; and every case that  *)
(* did not pass is told with a message (result.py).                        *)
THEOREM NothingHidden == Spec => []VerdictHidesNothing
<1>1. ASSUME RunInv PROVE VerdictHidesNothing
  <2> DEFINE erred  == Failed # {} \/ \E k \in DOMAIN checked : checked[k].verdict = "error"
             failed == \E k \in DOMAIN checked : checked[k].verdict = "fail"
             Status(i) == TestCaseStatus(outcome.steps[i])
  <2> SUFFICES ASSUME Done
               PROVE  /\ outcome.status = "error" <=> erred
                      /\ outcome.status = "fail" <=> failed /\ ~erred
                      /\ \A i \in DOMAIN outcome.steps :
                           Status(i) # "pass" => FormatFailures(outcome.steps[i]) # {}
                      /\ erred \/ failed =>
                           \/ Summary(outcome.steps) # {}
                           \/ \E i \in DOMAIN outcome.steps : outcome.steps[i].error
    BY DEF VerdictHidesNothing
  <2>1. /\ outcome.steps = Filled /\ outcome.status = ScenarioStatus(outcome.steps) /\ TypeOK
        /\ outcome.steps \in Seq(CaseResults) /\ Len(steps) <= Len(scenario)
        /\ DOMAIN outcome.steps = 1..Len(scenario) /\ DOMAIN steps = 1..Len(steps)
        /\ Len(scenario) \in Nat /\ Len(steps) \in Nat
        /\ Failed = {j \in DOMAIN steps : steps[j].error}
        /\ \A i \in 1..Len(steps) : outcome.steps[i] = steps[i]
        /\ \A i \in (Len(steps) + 1)..Len(scenario) : Status(i) = "skip"
    BY <1>1, DoneReports, FilledFacts
  <2>2. \A i \in DOMAIN outcome.steps : outcome.steps[i] \in CaseResults
    <3> DEFINE R == CaseResults
    <3> HIDE DEF R
    <3>1. outcome.steps \in Seq(R)
      BY <2>1 DEF R
    <3> QED
      BY <3>1 DEF R
  <2>3. \A i \in DOMAIN outcome.steps : Status(i) \in {"error", "fail"} => i \in 1..Len(steps)
    BY <2>1
  <2>4. erred <=> \E i \in DOMAIN outcome.steps : Status(i) = "error"
    <3>1. ASSUME Failed # {} PROVE \E i \in DOMAIN outcome.steps : Status(i) = "error"
      <4>1. PICK i \in 1..Len(steps) : steps[i].error
        BY <2>1, <3>1
      <4> QED
        BY <2>1, <4>1 DEF TestCaseStatus
    <3>2. ASSUME NEW k \in DOMAIN checked, checked[k].verdict = "error"
          PROVE  \E i \in DOMAIN outcome.steps : Status(i) = "error"
      <4>1. PICK i \in 1..Len(steps) :
              ~steps[i].error /\ \E j \in DOMAIN steps[i].results : steps[i].results[j] = "error"
        BY <1>1, <3>2, VerdictsKept
      <4>2. i \in DOMAIN outcome.steps /\ outcome.steps[i] = steps[i]
        BY <2>1
      <4> QED
        BY <2>2, <4>1, <4>2, CaseFacts
    <3>3. ASSUME NEW i \in DOMAIN outcome.steps, Status(i) = "error" PROVE erred
      <4>1. i \in 1..Len(steps) /\ outcome.steps[i] = steps[i]
        BY <2>1, <2>3, <3>3
      <4>2. CASE steps[i].error
        BY <2>1, <4>1, <4>2
      <4>3. CASE ~steps[i].error
        <5>1. \E j \in DOMAIN steps[i].results : steps[i].results[j] = "error"
          BY <2>2, <3>3, <4>1, <4>3, CaseFacts
        <5> QED
          BY <1>1, <4>1, <4>3, <5>1, VerdictsKept
      <4> QED
        BY <4>2, <4>3
    <3> QED
      BY <3>1, <3>2, <3>3
  <2>5. ASSUME NEW i \in DOMAIN outcome.steps, Status(i) = "fail" PROVE failed
    <3>1. i \in 1..Len(steps) /\ outcome.steps[i] = steps[i]
      BY <2>1, <2>3, <2>5
    <3>2. ~steps[i].error /\ \E j \in DOMAIN steps[i].results : steps[i].results[j] = "fail"
      BY <2>2, <2>5, <3>1, CaseFacts
    <3> QED
      BY <1>1, <3>1, <3>2, VerdictsKept
  <2>6. ASSUME failed, ~erred PROVE \E i \in DOMAIN outcome.steps : Status(i) = "fail"
    <3>1. PICK i \in 1..Len(steps) :
            ~steps[i].error /\ \E j \in DOMAIN steps[i].results : steps[i].results[j] = "fail"
      BY <1>1, <2>6, VerdictsKept
    <3>2. i \in DOMAIN outcome.steps /\ outcome.steps[i] = steps[i]
      BY <2>1
    <3>3. Status(i) # "error"
      BY <2>4, <2>6, <3>2
    <3>4. \A j \in DOMAIN steps[i].results : steps[i].results[j] # "error"
      BY <2>2, <3>2, <3>3, CaseFacts
    <3> QED
      BY <2>2, <3>1, <3>2, <3>4, CaseFacts
  <2>7. outcome.status = "error" <=> erred
    BY <2>1, <2>4, ScenarioFacts
  <2>8. outcome.status = "fail" <=> failed /\ ~erred
    BY <2>1, <2>4, <2>5, <2>6, ScenarioFacts
  <2>9. ASSUME NEW i \in DOMAIN outcome.steps, Status(i) # "pass"
        PROVE  FormatFailures(outcome.steps[i]) # {}
    <3> DEFINE case == outcome.steps[i]
    <3>1. case \in CaseResults
      BY <2>2
    <3>2. case.error \/ \E j \in DOMAIN case.results : case.results[j] # "pass"
      BY <2>9, <3>1, CaseFacts
    <3>3. Len(case.results) \in Nat /\ DOMAIN case.results = 1..Len(case.results)
      BY <3>1, LenProperties DEF CaseResults
    <3> QED
      BY <3>2, <3>3 DEF FormatFailures
  <2>10. ASSUME erred \/ failed
         PROVE  \/ Summary(outcome.steps) # {}
                \/ \E i \in DOMAIN outcome.steps : outcome.steps[i].error
    <3>1. PICK i \in DOMAIN outcome.steps : Status(i) \in {"error", "fail"}
      BY <2>4, <2>6, <2>10
    <3>2. CASE ~outcome.steps[i].error
      <4>1. PICK j \in DOMAIN outcome.steps[i].results :
              outcome.steps[i].results[j] \in {"fail", "error"}
        BY <2>2, <3>1, <3>2, CaseFacts
      <4>2. <<i, j>> \in Summary(outcome.steps)
        BY <3>1, <4>1 DEF Summary
      <4> QED
        BY <4>2
    <3> QED
      BY <3>2
  <2> QED
    BY <2>7, <2>8, <2>9, <2>10
<1> QED
  BY <1>1, RunInvariant, PTL

-----------------------------------------------------------------------------
(* What the caller is promised.                                            *)
LEMMA ContractInit == Init => Contract!Init
<1> SUFFICES ASSUME Init PROVE Contract!Init
  OBVIOUS
<1>1. verdicts = <<>> /\ pc = "build" /\ multipleRuns \in Nat \ {0}
  BY BoundsAssumption DEF Init
<1>2. Report = Contract!Nothing
  BY <1>1 DEF Report, Done, Contract!Nothing
<1> QED
  BY <1>1, <1>2 DEF Contract!Init

LEMMA ContractNext == RunInv /\ RunInv' /\ [Next]_vars => [Contract!Next]_(Contract!vars)
<1> SUFFICES ASSUME RunInv, RunInv', [Next]_vars PROVE [Contract!Next]_(Contract!vars)
  OBVIOUS
<1>1. CASE /\ UNCHANGED <<multipleRuns, verdicts>>
           /\ pc # "done" /\ pc # "raised" /\ pc' # "done" /\ pc' # "raised"
  <2>1. Report' = Report
    BY <1>1 DEF Report, Done
  <2> QED
    BY <1>1, <2>1 DEF Contract!vars
<1>2. CASE /\ UNCHANGED <<multipleRuns, verdicts>>
           /\ pc # "done" /\ pc # "raised" /\ pc' = "raised"
  <2>1. Report = Contract!Nothing /\ Report' = Contract!Exception
    BY <1>2 DEF Report, Done, Contract!Nothing, Contract!Exception
  <2> QED
    BY <1>2, <2>1 DEF Contract!Abandon, Contract!Next
<1>3. CASE Finish
  <2> DEFINE status == ScenarioStatus(Filled)
  <2>1. /\ pc = "finish" /\ verdicts' = Append(verdicts, status) /\ UNCHANGED multipleRuns
        /\ IF LastRun(status)
           THEN pc' = "done" /\ outcome' = [status |-> status, steps |-> Filled,
                                            trace |-> frames[1], runs |-> run]
           ELSE pc' = After(0)
    BY <1>3 DEF Finish, inputs
  <2>2. /\ Len(steps) <= Len(scenario) /\ TypeOK /\ verdicts \in Seq(Statuses)
        /\ Len(verdicts) \in Nat /\ run = Len(verdicts) + 1
    <3>1. TypeOK /\ verdicts \in Seq(Statuses) /\ Len(verdicts) \in Nat
      <4>1. TypeOK
        BY DEF RunInv
      <4>2. verdicts \in Seq(Statuses)
        BY <4>1 DEF TypeOK
      <4> QED
        BY <4>1, <4>2, LenProperties
    <3>2. Len(steps) <= Len(scenario)
      BY <2>1 DEF RunInv, Placed
    <3>3. run = Len(verdicts) + IF pc = "done" THEN 0 ELSE 1
      BY DEF RunInv, Placed
    <3>4. run = Len(verdicts) + 1
      BY <2>1, <3>3
    <3> QED
      BY <3>1, <3>2, <3>4
  <2>3. status \in Statuses
    BY <2>2, FilledFacts, ScenarioFacts
  <2> HIDE DEF status
  <2>4. /\ Len(verdicts') = Len(verdicts) + 1 /\ Len(verdicts') = run
        /\ verdicts' # <<>> /\ Last(verdicts') = status
    BY <2>1, <2>2, <2>3 DEF Last
  <2>5. Report = Contract!Nothing
    BY <2>1 DEF Report, Done, Contract!Nothing
  <2>6. Report' = IF status # "pass" \/ run = multipleRuns
                  THEN [status |-> status, runs |-> run] ELSE Contract!Nothing
    <3>1. CASE LastRun(status)
      BY <2>1, <3>1 DEF LastRun, Report, Done
    <3>2. CASE ~LastRun(status)
      <4>1. pc' \notin {"done", "raised"}
        BY <2>1, <3>2 DEF After
      <4> QED
        BY <3>2, <4>1 DEF LastRun, Report, Done, Contract!Nothing
    <3> QED
      BY <3>1, <3>2
  <2>7. Contract!RunAgain(status)
    BY <2>1, <2>4, <2>5, <2>6 DEF Contract!RunAgain
  <2> QED
    BY <2>3, <2>7 DEF Contract!Next
<1>4. CASE UNCHANGED vars
  BY <1>4 DEF vars, inputs, history, Contract!vars, Report, Done
<1>5. CASE Next /\ ~Finish /\ ~Returned
  <2>1. UNCHANGED <<multipleRuns, verdicts>>
    BY <1>5 DEF Next, AddInteractions, AddChecks, StartRun, GivenInteraction, OpenSpec, Yield,
                Refuse, GiveUp, GeneratorEnds, YieldSpec, TargetExhausted, GeneratorRaises,
                ForeignRaises, GenerationFails, StartChecks, CheckRaises, StepDone, RunCheck,
                inputs, history
  <2>2. pc # "done" /\ pc # "raised" /\ pc' # "done"
    BY <1>5 DEF Next, AddInteractions, AddChecks, StartRun, GivenInteraction, OpenSpec, Yield,
                Refuse, GiveUp, GeneratorEnds, YieldSpec, TargetExhausted, GeneratorRaises,
                ForeignRaises, GenerationFails, StartChecks, CheckRaises, StepDone, RunCheck,
                ReturnTrace, After, AfterStep
  <2> QED
    BY <1>1, <1>2, <2>1, <2>2
<1> QED
  BY <1>3, <1>4, <1>5 DEF Returned

(* The runner keeps the promise of run to its caller, whatever happens in a *)
(* run: a run starts only when those before it passed, there are never more *)
(* than multiple_runs, and the report is that of the last run.             *)
THEOREM RunnerKeepsContract == Spec => KeepsContract
<1>1. RunInv /\ [Next]_vars => RunInv'
  BY RunNext
<1> QED
  BY RunInit, ContractInit, <1>1, ContractNext, PTL DEF Spec, KeepsContract, Contract!Spec
=============================================================================
