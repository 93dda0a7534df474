------------------------------- MODULE Results -------------------------------
(***************************************************************************)
(* The verdicts of giskard-checks: how check results roll up into a test   *)
(* case, test cases into a scenario and scenarios into a suite             *)
(* (core/result.py), and what the combinators AllOf, AnyOf and Not make of *)
(* the verdicts of their inner checks (builtin/composition.py).            *)
(***************************************************************************)
EXTENDS Integers, Sequences, FiniteSets

(* CheckStatus, TestCaseStatus and ScenarioStatus share their four values. *)
Statuses == {"pass", "fail", "error", "skip"}

Has(statuses, st) == \E i \in 1..Len(statuses) : statuses[i] = st
All(statuses, st) == \A i \in 1..Len(statuses) : statuses[i] = st

(* ScenarioResult.status, and TestCaseResult.status without an error: an    *)
(* error outranks a failure, a failure outranks everything else, and only   *)
(* unanimous skips make a skip.                                             *)
RollUp(statuses) ==
    IF statuses = <<>> THEN "pass"
    ELSE IF Has(statuses, "error") THEN "error"
    ELSE IF Has(statuses, "fail") THEN "fail"
    ELSE IF All(statuses, "skip") THEN "skip"
    ELSE "pass"

(* TestCaseResult.status: an execution error outranks the check results.    *)
TestCaseStatus(case) == IF case.error THEN "error" ELSE RollUp(case.results)

(* TestCaseResult.format_failures: a message for the execution error, here   *)
(* 0, and one for every check that did not pass, skipped ones included.     *)
FormatFailures(case) ==
    {k \in 0..Len(case.results) : IF k = 0 THEN case.error ELSE case.results[k] # "pass"}

(* The checks that the summary of a suite names under a scenario: those     *)
(* that failed or erred in a case that did.                                 *)
Summary(cases) ==
    UNION {{<<i, k>> : k \in {k \in DOMAIN cases[i].results :
                                    cases[i].results[k] \in {"fail", "error"}}} :
           i \in {i \in DOMAIN cases : TestCaseStatus(cases[i]) \in {"fail", "error"}}}

ScenarioStatus(cases) == RollUp([i \in DOMAIN cases |-> TestCaseStatus(cases[i])])

-----------------------------------------------------------------------------
(* SuiteResult: counts and pass rate over the scenario verdicts. *)
CountOf(statuses, st) == Cardinality({i \in DOMAIN statuses : statuses[i] = st})

NoRate == <<>>

(* pass_rate as the pair (passed, evaluated), NoRate for None. *)
PassRate(statuses) ==
    LET denominator == Len(statuses) - CountOf(statuses, "skip")
    IN  IF denominator = 0 THEN NoRate ELSE <<CountOf(statuses, "pass"), denominator>>

-----------------------------------------------------------------------------
(* Combinators, as functions of the verdicts of the inner checks.  First    *)
(* is the inner check at which evaluation stops.                            *)
First(statuses, stops) ==
    CHOOSE i \in 1..Len(statuses) :
        /\ statuses[i] \in stops
        /\ \A j \in 1..(i - 1) : statuses[j] \notin stops

ShortCircuit(statuses, stops, otherwise) ==
    IF \E i \in 1..Len(statuses) : statuses[i] \in stops
    THEN statuses[First(statuses, stops)]
    ELSE IF statuses # <<>> /\ All(statuses, "skip") THEN "skip" ELSE otherwise

AllOf(statuses) == ShortCircuit(statuses, {"fail", "error"}, "pass")

AnyOf(statuses) == ShortCircuit(statuses, {"pass", "error"}, "fail")

Not(status) ==
    CASE status = "pass" -> "fail"
      [] status = "fail" -> "pass"
      [] OTHER -> status
=============================================================================
