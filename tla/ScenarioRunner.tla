--------------------------- MODULE ScenarioRunner ----------------------------
(***************************************************************************)
(* ScenarioRunner.run of giskard-checks with the parts it drives:          *)
(* Trace.with_interaction, the generators behind interaction specs and     *)
(* TestCaseRunner.  A scenario is a list of steps; a step feeds its        *)
(* interactions into the trace and then runs its checks.  A scenario comes *)
(* with steps, and the methods that build it add to them.                  *)
(*                                                                         *)
(* with_interaction recurses when a generator yields another spec.  frames *)
(* is that recursion: frames[1] is the runner's trace, and each open       *)
(* generator holds the trace it has built so far.  An interaction is       *)
(* represented by the run and the step that produced it.                   *)
(***************************************************************************)
EXTENDS Results, SequencesExt

CONSTANTS MaxSteps, MaxInteracts, MaxChecks,  \* bounds on the scenario
          MaxRuns,                            \* bound on multiple_runs
          MaxTrace,                           \* bound on a trace a generator extends
          MaxDepth,                           \* bound on nested specs
          MaxTurns, MaxRetries,               \* of a generator that asks a model
          Mishaps                             \* how a generator may go wrong

ASSUME BoundsAssumption ==
    /\ {MaxSteps, MaxInteracts, MaxChecks, MaxTrace} \subseteq Nat
    /\ {MaxRuns, MaxDepth} \subseteq Nat \ {0}
    /\ {MaxTurns, MaxRetries} \subseteq Nat

(* "raise": the generator or its target raises an error.                    *)
(* "exhausted": the target raises StopAsyncIteration.                       *)
(* "foreign": the target raises an InteractionGenerationError that belongs  *)
(* to a trace it was building on its own.                                   *)
(* "refuse": the model that plays the user refuses, or a policy blocks it.  *)
ASSUME MishapsAssumption == Mishaps \subseteq {"raise", "exhausted", "foreign", "refuse"}

VARIABLES scenario,         \* steps: interactions (given or from a spec), checks
          returnException,  \* argument return_exception
          multipleRuns,     \* configured_runs
          pc,
          run,              \* attempt
          step, item,       \* the step, and its interaction or check, in hand
          frames,           \* the trace, and those of the open generators
          user,             \* the turn and the attempt of the innermost generator,
                            \* when it asks a model for its inputs
          results,          \* check_results of the step in hand
          steps,            \* partsresults
          outcome,          \* the ScenarioResult returned by run
          produced,         \* history: interactions completed in this run
          checked,          \* history: checks executed in this run, in order
          broken,           \* history: steps whose target failed in this run, and how
          verdicts          \* history: status of each finished run

inputs == <<scenario, returnException, multipleRuns>>
history == <<produced, checked, broken, verdicts>>
vars == <<inputs, pc, run, step, item, frames, user, results, steps, outcome, history>>

Bounded(S, n) == UNION {[1..k -> S] : k \in 0..n}

(* Interactions, specs of any kind, and inputs from a model (LLMGenerator). *)
Components == {"given", "spec", "llm"}

StepShapes == [interacts : Bounded(Components, MaxInteracts), checks : 0..MaxChecks]

NoOutcome == [status |-> "none"]

NoUser == [turn |-> 0, attempt |-> 0]

(* Where a run goes on when it has dealt with the first n steps. *)
After(n) == IF n < Len(scenario) THEN "interact" ELSE "finish"

Init ==
    /\ scenario \in Bounded(StepShapes, MaxSteps)
    /\ returnException \in BOOLEAN
    /\ multipleRuns \in 1..MaxRuns
    /\ pc = "build"
    /\ run = 1 /\ step = 1 /\ item = 1
    /\ frames = <<<<>>>> /\ user = NoUser
    /\ results = <<>> /\ steps = <<>>
    /\ outcome = NoOutcome
    /\ produced = <<>> /\ checked = <<>> /\ broken = {} /\ verdicts = <<>>

-----------------------------------------------------------------------------
(* Scenario: the methods that build it, and run.                            *)
EmptyStep == [interacts |-> <<>>, checks |-> 0]

OrFirstStep(parts) == IF parts = <<>> THEN <<EmptyStep>> ELSE parts

(* _ensure_step_for_interactions: checks close a step for interactions.     *)
WithStepForInteractions(parts) ==
    IF Last(OrFirstStep(parts)).checks > 0
    THEN Append(parts, EmptyStep) ELSE OrFirstStep(parts)

(* interact, add_interaction, add_interactions; append, extend              *)
AddInteractions(specs) ==
    /\ pc = "build"
    /\ LET built == WithStepForInteractions(scenario)
       IN  /\ Len(built) <= MaxSteps
           /\ Len(Last(built).interacts) + Len(specs) <= MaxInteracts
           /\ scenario' = [built EXCEPT ![Len(built)].interacts = @ \o specs]
    /\ UNCHANGED <<returnException, multipleRuns, pc, run, step, item, frames, user, results, steps,
                   outcome, history>>

(* check, checks; append, extend *)
AddChecks(n) ==
    /\ pc = "build"
    /\ LET built == OrFirstStep(scenario)
       IN  /\ Len(built) <= MaxSteps /\ Last(built).checks + n <= MaxChecks
           /\ scenario' = [built EXCEPT ![Len(built)].checks = @ + n]
    /\ UNCHANGED <<returnException, multipleRuns, pc, run, step, item, frames, user, results, steps,
                   outcome, history>>

StartRun ==
    /\ pc = "build"
    /\ pc' = After(0)
    /\ UNCHANGED <<inputs, run, step, item, frames, user, results, steps, outcome, history>>

Interacts == scenario[step].interacts
Checks == scenario[step].checks

Interaction == [run |-> run, step |-> step]
Foreign == [run |-> 0, step |-> 0]

(* Fault: a step without checks leaves no trace of being skipped.           *)
SkippedChecks(checks) == [i \in 1..checks |-> "skip"]

(* _skipped_check_results_for_step: a step without checks is skipped too.   *)
SkippedResults(checks) == [i \in 1..(IF checks = 0 THEN 1 ELSE checks) |-> "skip"]

(* Fault: off by one. *)
LengthAsIndex(trace) == Len(trace)

LastIndex(trace) == Len(trace) - 1

CaseResult(res, err, trace) ==
    [results |-> res, error |-> err, index |-> LastIndex(trace)]

-----------------------------------------------------------------------------
(* Interactions of the step in hand.                                        *)

(* A concrete interaction, from the step or from a generator, is appended   *)
(* to the trace of the innermost frame.                                     *)
Produce ==
    /\ frames' = [frames EXCEPT ![Len(frames)] = Append(@, Interaction)]
    /\ produced' = Append(produced, Interaction)

GivenInteraction ==
    /\ pc = "interact" /\ item <= Len(Interacts) /\ Interacts[item] = "given"
    /\ Produce
    /\ item' = item + 1
    /\ UNCHANGED <<inputs, pc, run, step, user, results, steps, outcome, checked, broken, verdicts>>

(* A generator begins with the trace as it stands.                          *)
Open(kind) ==
    /\ frames' = Append(frames, Last(frames))
    /\ user' = IF kind = "llm" THEN [turn |-> 1, attempt |-> 1] ELSE NoUser

OpenSpec ==
    /\ pc = "interact" /\ item <= Len(Interacts) /\ Interacts[item] # "given"
    /\ pc' = "generate"
    /\ Open(Interacts[item])
    /\ UNCHANGED <<inputs, run, step, item, results, steps, outcome, history>>

(* The innermost generator yields an interaction: the model that plays the  *)
(* user has given a message, if it has turns left, and the target replied.  *)
Yield ==
    /\ pc = "generate" /\ Len(produced) < MaxTrace
    /\ user # NoUser => user.turn <= MaxTurns
    /\ Produce
    /\ user' = IF user = NoUser THEN NoUser ELSE [turn |-> user.turn + 1, attempt |-> 1]
    /\ UNCHANGED <<inputs, pc, run, step, item, results, steps, outcome, checked, broken, verdicts>>

(* A nested spec; inputs are no specs.                                      *)
YieldSpec(kind) ==
    /\ pc = "generate" /\ Len(frames) <= MaxDepth /\ user = NoUser
    /\ Open(kind)
    /\ UNCHANGED <<inputs, pc, run, step, item, results, steps, outcome, history>>

(* The model refuses the message of this turn, and is asked again.          *)
Refuse ==
    /\ pc = "generate" /\ "refuse" \in Mishaps
    /\ user # NoUser /\ user.turn <= MaxTurns /\ user.attempt <= MaxRetries
    /\ user' = [user EXCEPT !.attempt = @ + 1]
    /\ UNCHANGED <<inputs, pc, run, step, item, frames, results, steps, outcome, history>>

(* Fault: the loop over the interactions of the step does not advance.      *)
ReturnWithoutAdvance ==
    LET outer == Len(frames) - 1
    IN  /\ frames' = [Front(frames) EXCEPT ![outer] = Last(frames)]
        /\ pc' = IF outer = 1 THEN "interact" ELSE "generate"
        /\ user' = NoUser
        /\ UNCHANGED item

(* StopAsyncIteration: with_interaction returns its trace, which becomes    *)
(* the trace of the caller.                                                 *)
ReturnTrace ==
    LET outer == Len(frames) - 1
    IN  /\ frames' = [Front(frames) EXCEPT ![outer] = Last(frames)]
        /\ pc' = IF outer = 1 THEN "interact" ELSE "generate"
        /\ user' = NoUser
        /\ item' = IF outer = 1 THEN item + 1 ELSE item

(* At the latest when the turns of the user are over.                       *)
GeneratorEnds ==
    /\ pc = "generate"
    /\ ReturnTrace
    /\ UNCHANGED <<inputs, run, step, results, steps, outcome, history>>

(* Interact.generate takes a StopAsyncIteration of its target for the end   *)
(* of its inputs.                                                           *)
TargetExhausted ==
    /\ pc = "generate" /\ "exhausted" \in Mishaps /\ user.turn <= MaxTurns
    /\ ReturnTrace
    /\ broken' = broken \cup {<<step, "exhausted">>}
    /\ UNCHANGED <<inputs, run, step, results, steps, outcome, produced, checked, verdicts>>

(* The except clause of _run_once, with the trace the error carries.        *)
GenerationFails(partial, how) ==
    /\ frames' = <<partial>> /\ user' = NoUser
    /\ broken' = broken \cup {<<step, how>>}
    /\ IF returnException
       THEN /\ steps' = Append(steps, CaseResult(SkippedResults(Checks), TRUE, partial))
            /\ pc' = "finish"
       ELSE pc' = "raised" /\ UNCHANGED steps
    /\ UNCHANGED <<inputs, run, step, item, results, outcome, produced, checked, verdicts>>

(* Fault: the outermost with_interaction wraps the error.                   *)
OutermostWraps ==
    /\ pc = "generate" /\ "raise" \in Mishaps
    /\ GenerationFails(frames[1], "raise")

(* The innermost with_interaction wraps the error with its own trace and    *)
(* the enclosing ones pass it on as it is.                                  *)
GeneratorRaises ==
    /\ pc = "generate" /\ "raise" \in Mishaps /\ user.turn <= MaxTurns
    /\ GenerationFails(Last(frames), "raise")

ForeignRaises ==
    /\ pc = "generate" /\ "foreign" \in Mishaps /\ user.turn <= MaxTurns
    /\ GenerationFails(<<Foreign>>, "foreign")

(* Fault: a user that refuses for good ends the conversation in silence.    *)
GiveUpQuietly ==
    /\ pc = "generate" /\ "refuse" \in Mishaps
    /\ user # NoUser /\ user.turn <= MaxTurns /\ user.attempt = MaxRetries + 1
    /\ ReturnTrace
    /\ broken' = broken \cup {<<step, "refuse">>}
    /\ UNCHANGED <<inputs, run, step, results, steps, outcome, produced, checked, verdicts>>

(* The model has refused the message of this turn for the last time.        *)
GiveUp ==
    /\ pc = "generate" /\ "refuse" \in Mishaps
    /\ user # NoUser /\ user.turn <= MaxTurns /\ user.attempt = MaxRetries + 1
    /\ GenerationFails(Last(frames), "refuse")

StartChecks ==
    /\ pc = "interact" /\ item > Len(Interacts)
    /\ pc' = "check" /\ item' = 1 /\ results' = <<>>
    /\ UNCHANGED <<inputs, run, step, frames, user, steps, outcome, history>>

-----------------------------------------------------------------------------
(* Checks of the step in hand, all of them, whatever the earlier ones say.  *)

RunCheck(verdict) ==
    /\ pc = "check" /\ item <= Checks
    /\ results' = Append(results, verdict)
    /\ item' = item + 1
    /\ checked' = Append(checked, [step |-> step, verdict |-> verdict])
    /\ UNCHANGED <<inputs, pc, run, step, frames, user, steps, outcome, produced, broken, verdicts>>

(* A check that raises: _run_check turns it into an error result, or the    *)
(* whole run is abandoned.                                                  *)
CheckRaises ==
    /\ ~returnException
    /\ pc = "check" /\ item <= Checks
    /\ pc' = "raised"
    /\ UNCHANGED <<inputs, run, step, item, frames, user, results, steps, outcome, history>>

(* Fault: a step that did not pass does not stop the run.                   *)
AfterStepGoOn(case) == After(step)

AfterStep(case) == IF TestCaseStatus(case) = "pass" THEN After(step) ELSE "finish"

StepDone ==
    /\ pc = "check" /\ item > Checks
    /\ LET case == CaseResult(results, FALSE, frames[1])
       IN  /\ steps' = Append(steps, case)
           /\ pc' = AfterStep(case)
    /\ step' = step + 1 /\ item' = 1
    /\ UNCHANGED <<inputs, run, frames, user, results, outcome, history>>

-----------------------------------------------------------------------------
(* The end of _run_once and the loop of run.                                *)

(* The steps that were not reached, skipped at the trace as it stands.      *)
Filled ==
    [i \in 1..Len(scenario) |->
        IF i <= Len(steps) THEN steps[i]
        ELSE CaseResult(SkippedResults(scenario[i].checks), FALSE, frames[1])]

(* Fault: a run that did not pass is repeated too. *)
LastRunOfAll(status) == run = multipleRuns

LastRun(status) == status # "pass" \/ run = multipleRuns

Finish ==
    /\ pc = "finish"
    /\ LET status == ScenarioStatus(Filled)
       IN  /\ verdicts' = Append(verdicts, status)
           /\ IF LastRun(status)
              THEN /\ pc' = "done"
                   /\ outcome' = [status |-> status, steps |-> Filled,
                                  trace |-> frames[1], runs |-> run]
                   /\ UNCHANGED <<run, step, item, frames, user, results, steps,
                                  produced, checked, broken>>
              ELSE /\ pc' = After(0)
                   /\ run' = run + 1 /\ step' = 1 /\ item' = 1
                   /\ frames' = <<<<>>>> /\ UNCHANGED user
                   /\ results' = <<>> /\ steps' = <<>>
                   /\ produced' = <<>> /\ checked' = <<>> /\ broken' = {}
                   /\ UNCHANGED outcome
    /\ UNCHANGED inputs

Returned == pc \in {"done", "raised"} /\ UNCHANGED vars

Next ==
    \/ \E specs \in Bounded(Components, MaxInteracts) : AddInteractions(specs)
    \/ \E n \in 0..MaxChecks : AddChecks(n)
    \/ StartRun
    \/ GivenInteraction \/ OpenSpec \/ Yield \/ Refuse \/ GiveUp \/ GeneratorEnds
    \/ \E kind \in {"spec", "llm"} : YieldSpec(kind)
    \/ TargetExhausted \/ GeneratorRaises \/ ForeignRaises
    \/ StartChecks \/ CheckRaises \/ StepDone \/ Finish \/ Returned
    \/ \E verdict \in Statuses : RunCheck(verdict)

Spec == Init /\ [][Next]_vars

(* The event loop keeps the one task of the runner going, and no generator  *)
(* yields for ever.                                                         *)
FairSpec ==
    /\ Spec /\ WF_vars(Next)
    /\ \A depth \in 2..(MaxDepth + 1) : SF_vars(GeneratorEnds /\ Len(frames) = depth)

-----------------------------------------------------------------------------
(* Type invariant. *)
Trace == Seq([run : 0..MaxRuns, step : 0..MaxSteps])
CaseResults == [results : Seq(Statuses), error : BOOLEAN, index : Int]

TypeOK ==
    /\ scenario \in Seq(StepShapes)
    /\ returnException \in BOOLEAN
    /\ multipleRuns \in 1..MaxRuns
    /\ pc \in {"build", "interact", "generate", "check", "finish", "done", "raised"}
    /\ run \in 1..multipleRuns
    /\ step \in 1..(Len(scenario) + 1)
    /\ item \in Nat \ {0}
    /\ frames \in Seq(Trace) /\ frames # <<>>
    /\ user \in [turn : 0..(MaxTurns + 1), attempt : 0..(MaxRetries + 1)]
    /\ results \in Seq(Statuses)
    /\ steps \in Seq(CaseResults)
    /\ outcome = NoOutcome \/ outcome \in [status : Statuses, steps : Seq(CaseResults),
                                          trace : Trace, runs : 1..MaxRuns]
    /\ produced \in Trace
    /\ checked \in Seq([step : 1..MaxSteps, verdict : Statuses])
    /\ broken \subseteq (1..MaxSteps) \X Mishaps
    /\ verdicts \in Seq(Statuses)

Done == pc = "done"

(* The steps with a failure that reached the runner.                        *)
Failed == {b[1] : b \in {c \in broken : c[2] # "exhausted"}}

(* A foreign trace has taken the place of that of the run.                  *)
Replaced == \E b \in broken : b[2] = "foreign"

ChecksOf(i) == {k \in DOMAIN checked : checked[k].step = i}

(* A green step is green on evidence: all of its checks were executed, and  *)
(* none of them failed or erred.  A step that was never reached or whose    *)
(* input could not be generated is not, even without checks (the comment in *)
(* _skipped_check_results_for_step).                                        *)
GreenOnEvidence ==
    Done => \A i \in DOMAIN outcome.steps :
        TestCaseStatus(outcome.steps[i]) = "pass" =>
            /\ i <= Len(steps) /\ i \notin Failed
            /\ Cardinality(ChecksOf(i)) = scenario[i].checks
            /\ \A k \in ChecksOf(i) : checked[k].verdict \in {"pass", "skip"}

(* The report covers the whole scenario: a result for every step, and in it *)
(* one for every check, or a synthetic one for a step that did not run.  The *)
(* final trace holds every interaction completed in the reported run, in    *)
(* order, and nothing of an earlier run, even when a generator failed half- *)
(* way or inside a nested spec; unless a foreign trace replaced it.         *)
ReportIsComplete ==
    Done =>
        /\ Len(outcome.steps) = Len(scenario)
        /\ \A i \in DOMAIN scenario :
             LET n == Len(outcome.steps[i].results)
             IN  n = scenario[i].checks \/ (scenario[i].checks = 0 /\ n = 1)
        /\ ~Replaced => outcome.trace = produced

(* The index of a step result names the last interaction that existed when  *)
(* the checks of the step ran: that of the step itself or of an earlier one.*)
IndexAttribution ==
    Done /\ ~Replaced => \A i \in DOMAIN outcome.steps :
        outcome.steps[i].index =
            Cardinality({k \in DOMAIN produced : produced[k].step <= i}) - 1

(* After a step that did not pass, no later step touches the target or runs *)
(* a check.                                                                 *)
StopsAtFirstNonPass ==
    \A i \in DOMAIN steps : TestCaseStatus(steps[i]) # "pass" =>
        /\ \A k \in DOMAIN produced : produced[k].step <= i
        /\ \A k \in DOMAIN checked : checked[k].step <= i

(* The verdict hides nothing that reached the runner: an input that could   *)
(* not be generated, or a check in error, makes the scenario an error; a    *)
(* failed check makes it a failure unless something erred too.  Every case  *)
(* that did not pass comes with a message, and the summary of the suite     *)
(* names a check under every red scenario, unless an input was the reason.  *)
VerdictHidesNothing ==
    Done =>
        LET erred  == Failed # {} \/ \E k \in DOMAIN checked : checked[k].verdict = "error"
            failed == \E k \in DOMAIN checked : checked[k].verdict = "fail"
        IN  /\ outcome.status = "error" <=> erred
            /\ outcome.status = "fail" <=> failed /\ ~erred
            /\ \A i \in DOMAIN outcome.steps :
                 TestCaseStatus(outcome.steps[i]) # "pass" => FormatFailures(outcome.steps[i]) # {}
            /\ erred \/ failed =>
                 Summary(outcome.steps) # {} \/ \E i \in DOMAIN outcome.steps : outcome.steps[i].error

(* The runner keeps the promise of run to its caller. *)
Report ==
    IF Done THEN [status |-> outcome.status, runs |-> outcome.runs]
    ELSE [status |-> IF pc = "raised" THEN "exception" ELSE "none", runs |-> 0]

Contract == INSTANCE MultiRun WITH
    Verdicts <- Statuses, cap <- multipleRuns, runs <- Len(verdicts),
    last <- IF verdicts = <<>> THEN "none" ELSE Last(verdicts),
    report <- Report

KeepsContract == Contract!Spec

(* With generators that come to an end, every scenario run does.            *)
Terminates == <>(pc \in {"done", "raised"})

-----------------------------------------------------------------------------
(* What a doc says of the code, which a run refutes.                        *)

(* with_interaction (trace.py:149): InteractionGenerationError is raised    *)
(* "If generation fails", so that the failure of a target never goes by.    *)
TargetErrorsSurface ==
    Done => (broken # {} => outcome.status = "error")
=============================================================================
