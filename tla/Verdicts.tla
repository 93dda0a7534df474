------------------------------- MODULE Verdicts -------------------------------
(***************************************************************************)
(* From checks to the table of a suite.  Either each scenario of a suite   *)
(* holds one combined check, whose verdict is the status of its scenario;  *)
(* or the scenarios are those of a garak scan.  When the suite has ended   *)
(* its results are grouped by a tag.  Or one builtin check looks at all    *)
(* traces that there are.                                                  *)
(***************************************************************************)
EXTENDS Composition, GarakReport, BuiltinChecks

CONSTANT MaxResults   \* bound on the scenarios of the suite

ASSUME MaxResultsAssumption == MaxResults \in Nat

(* Tags for the probes of a garak scan. *)
ScanTags == [p \in Probes |-> <<CHOOSE tag \in Keys \X Values : TRUE>>]

allVars == <<loopVars, garakVars, reportVars, builtinVars>>

NoGarak ==
    /\ stage = "off" /\ asked = <<>> /\ options = None /\ fate = None /\ markers = <<>>
    /\ loaded = <<>> /\ lineup = None /\ attempt = None /\ scenarios = <<>> /\ made = None

(* Between two scenarios no check is in hand. *)
NoCheck == next = 0

NoBuiltin ==
    /\ target = NoMatch /\ reference = NoMatch /\ empty = FALSE
    /\ check = <<"none", "none", "none">> /\ judged = "off"

Clear == kind = "all_of" /\ inner = <<>> /\ next = 0 /\ allSkipped = TRUE /\ verdict = "none"

SuiteInit ==
    /\ ReportInit
    /\ \/ LoopInit /\ NoGarak /\ NoBuiltin
       \/ Clear /\ GarakInit /\ NoBuiltin
       \/ Clear /\ NoGarak /\ BuiltinInit

CaseOf(status) == [error |-> FALSE, results |-> <<status>>]

Check ==
    /\ ~NoCheck
    /\ RunInner \/ EndLoop
    /\ UNCHANGED <<garakVars, reportVars, builtinVars>>

EndScenario ==
    /\ verdict # "none"
    /\ \E tags \in TagLists :
         AddResult(ScenarioStatus(<<CaseOf(verdict)>>), tags)
    /\ kind' = "all_of" /\ inner' = <<>>
    /\ next' = 0 /\ allSkipped' = TRUE /\ verdict' = "none"
    /\ UNCHANGED <<garakVars, builtinVars>>

NextScenario ==
    /\ stage = "off" /\ judged = "off" /\ NoCheck /\ Len(results) < MaxResults /\ grouped = 0
    /\ kind' \in Kinds /\ inner' \in VerdictLists
    /\ next' = 1
    /\ UNCHANGED <<allSkipped, verdict, garakVars, reportVars, builtinVars>>

ScanStep == GarakNext /\ UNCHANGED <<loopVars, builtinVars>>

JudgeTrace ==
    /\ judged # "off"
    /\ BuiltinNext
    /\ UNCHANGED <<loopVars, garakVars, reportVars>>

EndSuite ==
    /\ NoCheck /\ stage \in {"off", "reported"} /\ judged = "off"
    /\ Group
    /\ UNCHANGED <<loopVars, garakVars, builtinVars>>

Reported ==
    /\ Tabled \/ (stage = "reported" /\ results = <<>>)
    /\ UNCHANGED allVars

SuiteNext ==
    \/ Check \/ EndScenario \/ NextScenario \/ ScanStep \/ EndSuite \/ Reported
    \/ JudgeTrace

SuiteSpec == SuiteInit /\ [][SuiteNext]_allVars
=============================================================================
