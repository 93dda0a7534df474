----------------------------- MODULE Composition ------------------------------
(***************************************************************************)
(* AllOf.run and AnyOf.run of giskard-checks: a loop over the inner checks *)
(* that may end early, with flags that decide the verdict when it does     *)
(* not.  Results states what the verdict should be as a function of the    *)
(* verdicts of the inner checks.                                           *)
(***************************************************************************)
EXTENDS Results

CONSTANT MaxChecks   \* bound on the number of inner checks

ASSUME MaxChecksAssumption == MaxChecks \in Nat

VARIABLES kind,        \* "all_of" or "any_of"
          inner,       \* the verdict that each inner check gives when it is run
          next,        \* the inner check to run next
          allSkipped,  \* all_skipped
          verdict      \* "none" until run returns

loopVars == <<kind, inner, next, allSkipped, verdict>>

Kinds == {"all_of", "any_of"}
VerdictLists == UNION {[1..n -> Statuses] : n \in 0..MaxChecks}

LoopInit ==
    /\ kind \in Kinds
    /\ inner \in VerdictLists
    /\ next = 1
    /\ allSkipped = TRUE
    /\ verdict = "none"

(* Fault: an inner error does not end the loop. *)
StopsWhenDecided(st) == IF kind = "all_of" THEN st = "fail" ELSE st = "pass"

(* The verdicts that end the loop. *)
Stops(st) == IF kind = "all_of" THEN st \in {"fail", "error"} ELSE st \in {"pass", "error"}

RunInner ==
    /\ verdict = "none" /\ next <= Len(inner)
    /\ LET st == inner[next]
       IN  /\ verdict' = IF Stops(st) THEN st ELSE "none"
           /\ allSkipped' = (allSkipped /\ st = "skip")
    /\ next' = next + 1
    /\ UNCHANGED <<kind, inner>>

EndLoop ==
    /\ verdict = "none" /\ next > Len(inner)
    /\ verdict' = IF allSkipped /\ inner # <<>> THEN "skip"
                  ELSE IF kind = "all_of" THEN "pass" ELSE "fail"
    /\ UNCHANGED <<kind, inner, next, allSkipped>>

Concluded == verdict # "none" /\ UNCHANGED loopVars

LoopNext == RunInner \/ EndLoop \/ Concluded

LoopSpec == LoopInit /\ [][LoopNext]_loopVars

-----------------------------------------------------------------------------
Inverted == [i \in DOMAIN inner |-> Not(inner[i])]

(* De Morgan: inverting a combination is combining the inverted checks the  *)
(* other way round, whatever is skipped, in error, or never run.            *)
DeMorgan ==
    verdict # "none" =>
        Not(verdict) = IF kind = "all_of" THEN AnyOf(Inverted) ELSE AllOf(Inverted)

(* A combination is green only on evidence: AllOf when no inner check ended *)
(* otherwise than passed or skipped, and at least one was not skipped;      *)
(* AnyOf when a check that was really run passed.                           *)
GreenOnEvidence ==
    verdict = "pass" =>
        LET ran == {inner[i] : i \in 1..(next - 1)}
        IN  IF kind = "all_of"
            THEN /\ next = Len(inner) + 1 /\ ran \subseteq {"pass", "skip"}
                 /\ inner # <<>> => "pass" \in ran
            ELSE "pass" \in ran
=============================================================================
