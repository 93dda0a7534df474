---------------------------- MODULE SuiteContract -----------------------------
(***************************************************************************)
(* What Suite.run promises its caller, serial or parallel: one answer,     *)
(* given when no scenario is at work any more, that tells the truth about  *)
(* how the scenarios ended.                                                *)
(***************************************************************************)
EXTENDS Integers, FiniteSets

CONSTANTS Scenarios,   \* in suite order, 1..n
          Verdicts     \* of a scenario that ends in a result

VARIABLES settled,     \* how each scenario ended: a verdict, "failed" with an
                       \* exception, "cancelled", or "none" so far
          working,     \* the scenarios at work or queueing to be
          answer       \* what run returned or raised

vars == <<settled, working, answer>>

Undecided == [kind |-> "none", results |-> <<>>, errors |-> {}]
Returned(results) == [kind |-> "returned", results |-> results, errors |-> {}]
Raised(errors) == [kind |-> "raised", results |-> <<>>, errors |-> errors]
Cancelled == [kind |-> "cancelled", results |-> <<>>, errors |-> {}]

Init ==
    /\ settled = [i \in Scenarios |-> "none"]
    /\ working \subseteq Scenarios
    /\ answer = Undecided

(* Results only when every scenario has one, in suite order; the exceptions *)
(* of all scenarios that failed, when any did; a cancellation only when no  *)
(* exception is hidden by it.                                               *)
Honest(a, ends) ==
    LET failed == {i \in Scenarios : ends[i] = "failed"}
    IN  \/ a = Returned(ends) /\ \A i \in Scenarios : ends[i] \in Verdicts
        \/ a = Raised(failed) /\ failed # {}
        \/ a = Cancelled /\ failed = {}

(* Scenarios start and settle, each of them once. *)
Work ==
    /\ answer = Undecided
    /\ settled' \in [Scenarios -> Verdicts \cup {"failed", "cancelled", "none"}]
    /\ \A i \in Scenarios : settled[i] # "none" => settled'[i] = settled[i]
    /\ working' \subseteq {i \in Scenarios : settled'[i] = "none"}
    /\ answer' # Undecided => working' = {} /\ Honest(answer', settled')

Next == Work

Spec == Init /\ [][Next]_vars
=============================================================================
