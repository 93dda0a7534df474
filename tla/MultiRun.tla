------------------------------ MODULE MultiRun -------------------------------
(***************************************************************************)
(* What ScenarioRunner.run promises its caller, whatever a scenario is     *)
(* made of: it is run at most cap times, a run starts only when all runs   *)
(* before it passed, and what is reported is the last run, or nothing at   *)
(* all when a run was abandoned with an exception.                         *)
(***************************************************************************)
EXTENDS Integers

CONSTANT Verdicts   \* the possible outcomes of a run, "pass" among them

VARIABLES cap,      \* the most runs the caller asked for
          runs,     \* runs that came to an end
          last,     \* verdict of the latest of them
          report    \* what the caller gets

vars == <<cap, runs, last, report>>

Nothing == [status |-> "none", runs |-> 0]
Exception == [status |-> "exception", runs |-> 0]

Init == runs = 0 /\ last = "none" /\ report = Nothing /\ cap \in Nat \ {0}

RunAgain(verdict) ==
    /\ report = Nothing
    /\ runs' = runs + 1 /\ last' = verdict
    /\ report' = IF verdict # "pass" \/ runs' = cap
                 THEN [status |-> verdict, runs |-> runs']
                 ELSE Nothing
    /\ UNCHANGED cap

Abandon ==
    /\ report = Nothing
    /\ report' = Exception
    /\ UNCHANGED <<cap, runs, last>>

Next == Abandon \/ \E verdict \in Verdicts : RunAgain(verdict)

Spec == Init /\ [][Next]_vars
=============================================================================
