----------------------------- MODULE GarakReport ------------------------------
(***************************************************************************)
(* What a garak scan of giskard-scan reports: the names it was asked for   *)
(* become probes or skip markers, every conversation of an attempt of a    *)
(* probe becomes a scenario, and the scores that the detectors give it     *)
(* become the checks of that scenario.  Probes run in threads (GarakScan), *)
(* but share nothing that is reported, and are reported in their order.    *)
(***************************************************************************)
EXTENDS SuiteReport

CONSTANTS Probes,            \* names a scan may be asked for
          MaxRequest,        \* bound on the names in a request
          MaxAttempts,       \* bound on the attempts of a probe
          MaxConversations,  \* bound on the conversations of a scan
          MaxDetectors,      \* bound on the detectors of a probe
          TagsOf             \* tags of each probe

ASSUME BoundsAssumption == {MaxRequest, MaxAttempts, MaxConversations, MaxDetectors} \subseteq Nat

ASSUME TagsAssumption == TagsOf \in [Probes -> TagLists]

VARIABLES stage,      \* "off", "resolving", "running" or "reported"
          asked,      \* names still to be resolved
          options,    \* probes == "all", target_mode == "singleturn"
          fate,       \* what became of each name
          markers,    \* names that were skipped
          loaded,     \* probes to run
          lineup,     \* of the probe that runs: detectors loaded and skipped,
                      \* attempts that it will still give
          attempt,    \* being evaluated: checks, detectors still to come,
                      \* and (history) the scores and whether a detector raised
          scenarios,  \* of the probe that runs
          made        \* conversations of each probe, or -1 when it raised (history)

garakVars == <<stage, asked, options, fate, markers, loaded, lineup, attempt, scenarios, made>>

None == [none |-> TRUE]
Requests(everything) ==
    {names \in UNION {[1..k -> Probes] : k \in 0..MaxRequest} :
        everything => Cardinality({names[i] : i \in DOMAIN names}) = Len(names)}

GarakInit ==
    /\ stage = "resolving"
    /\ options \in [everything : BOOLEAN, singleturn : BOOLEAN]
    /\ asked \in Requests(options.everything)
    /\ fate = [p \in Probes |-> "unseen"]
    /\ markers = <<>> /\ loaded = <<>> /\ scenarios = <<>>
    /\ lineup = None /\ attempt = None
    /\ made = [p \in Probes |-> 0]

-----------------------------------------------------------------------------
(* _resolve_probes.  A name that is unknown, inactive or fails to load is  *)
(* skipped; with "all", a probe that calls itself inactive is left out.    *)
Fates == {"skipped", "plain", "iterative"}
            \cup IF options.everything THEN {"left out"} ELSE {}

Resolve(name) ==
    \E f \in Fates :
        /\ fate' = [fate EXCEPT ![name] = f]
        /\ markers' = IF f = "skipped" THEN Append(markers, name) ELSE markers
        /\ loaded' = IF f \in {"plain", "iterative"} THEN Append(loaded, name) ELSE loaded

ResolveName ==
    /\ stage = "resolving" /\ asked # <<>>
    /\ asked' = Tail(asked)
    /\ IF fate[Head(asked)] = "unseen" THEN Resolve(Head(asked))
       ELSE UNCHANGED <<fate, markers, loaded>>
    /\ UNCHANGED <<stage, options, lineup, attempt, scenarios, made, reportVars>>

Scenario(name, status, tags) == [probe |-> name, status |-> status, tags |-> tags]

(* The probes that take one turn, in their order: the one at place k has   *)
(* k - 1 of them before it.                                                *)
OneTurn ==
    LET plain == {i \in DOMAIN loaded : fate[loaded[i]] = "plain"}
    IN  [k \in 1..Cardinality(plain) |->
            loaded[CHOOSE i \in plain : Cardinality({j \in plain : j <= i}) = k]]

(* The report begins with the names that were skipped; a target that takes *)
(* one turn is spared the probes that take several.                        *)
StartRun ==
    /\ stage = "resolving" /\ asked = <<>>
    /\ stage' = "running"
    /\ results' = [i \in DOMAIN markers |-> Scenario(markers[i], "skip", <<>>)]
    /\ loaded' = IF options.singleturn THEN OneTurn ELSE loaded
    /\ UNCHANGED <<asked, options, fate, markers, lineup, attempt, scenarios, made, key, grouped, buckets>>

-----------------------------------------------------------------------------
(* _resolve_detectors: a probe names one detector at least; those that do  *)
(* not load, or lack a key, are skipped.                                   *)
Lineups ==
    {l \in [loaded : 0..MaxDetectors, skipped : 0..1, attempts : 0..MaxAttempts] :
        l.loaded + l.skipped > 0}

StartProbe ==
    /\ stage = "running" /\ loaded # <<>> /\ lineup = None
    /\ lineup' \in Lineups
    /\ UNCHANGED <<stage, asked, options, fate, markers, loaded, attempt, scenarios, made, reportVars>>

(* What the bound counts. *)
Had == Cardinality(UNION {{p} \X (1..made[p]) : p \in Probes})

(* The probe has had n conversations with the target; each detector that   *)
(* was skipped is a skipped check of each.                                 *)
StartAttempt ==
    /\ lineup # None /\ attempt = None /\ lineup.attempts > 0
    /\ lineup' = [lineup EXCEPT !.attempts = @ - 1]
    /\ \E n \in 0..(MaxConversations - Had) :
         /\ attempt' = [checks |-> [i \in 1..n |-> [j \in 1..lineup.skipped |-> "skip"]],
                        left |-> lineup.loaded, scores |-> [i \in 1..n |-> {}], raised |-> FALSE]
         /\ made' = [made EXCEPT ![Head(loaded)] = @ + n]
    /\ UNCHANGED <<stage, asked, options, fate, markers, loaded, scenarios, reportVars>>

(* _score_to_check: a score is at most the midpoint, above it, no finite   *)
(* number from 0 to 1, or none.                                            *)
Scores == {"low", "high", "invalid", "none"}

ScoreToCheck(score) ==
    CASE score = "none" -> "skip"
      [] score = "invalid" -> "error"
      [] score = "high" -> "fail"
      [] score = "low" -> "pass"

(* A detector gives scores, fewer or more than there are conversations,    *)
(* and may raise before, between or after them.                            *)
Detect ==
    /\ attempt # None /\ attempt.left > 0
    /\ \E given \in UNION {[1..k -> Scores] : k \in 0..MaxConversations + 1}, raises \in BOOLEAN :
         attempt' = [attempt EXCEPT
            !.left = @ - 1,
            !.checks = [i \in DOMAIN @ |->
                @[i] \o (IF i \in DOMAIN given THEN <<ScoreToCheck(given[i])>> ELSE <<>>)
                     \o (IF raises THEN <<"error">> ELSE <<>>)],
            !.scores = [i \in DOMAIN @ |-> @[i] \cup (IF i \in DOMAIN given THEN {given[i]} ELSE {})],
            !.raised = @ \/ raises]
    /\ UNCHANGED <<stage, asked, options, fate, markers, loaded, lineup, scenarios, made, reportVars>>

(* Fault: a conversation without a score has no checks.                    *)
AsGiven(checks) == checks

OrSkip(checks) == IF checks = <<>> THEN <<"skip">> ELSE checks

StatusOf(checks) == ScenarioStatus(<<[error |-> FALSE, results |-> OrSkip(checks)]>>)

Evaluated == attempt # None /\ attempt.left = 0

EndAttempt ==
    /\ Evaluated
    /\ scenarios' = scenarios \o [i \in DOMAIN attempt.checks |-> StatusOf(attempt.checks[i])]
    /\ attempt' = None
    /\ UNCHANGED <<stage, asked, options, fate, markers, loaded, lineup, made, reportVars>>

NextProbe ==
    /\ loaded' = Tail(loaded)
    /\ lineup' = None /\ scenarios' = <<>>
    /\ UNCHANGED <<stage, asked, options, fate, markers, attempt, key, grouped, buckets>>

EndProbe ==
    /\ lineup # None /\ attempt = None /\ lineup.attempts = 0
    /\ results' = results \o [i \in DOMAIN scenarios |->
                                Scenario(Head(loaded), scenarios[i], TagsOf[Head(loaded)])]
    /\ NextProbe
    /\ UNCHANGED made

(* _run_probe_isolated: what a probe gave before it raised is lost.        *)
ProbeRaises ==
    /\ lineup # None /\ attempt = None
    /\ results' = Append(results, Scenario(Head(loaded), "error", <<>>))
    /\ made' = [made EXCEPT ![Head(loaded)] = -1]
    /\ NextProbe

EndRun ==
    /\ stage = "running" /\ loaded = <<>>
    /\ stage' = "reported"
    /\ UNCHANGED <<asked, options, fate, markers, loaded, lineup, attempt, scenarios, made, reportVars>>

GarakNext ==
    \/ ResolveName \/ StartRun \/ StartProbe \/ StartAttempt \/ Detect \/ EndAttempt
    \/ EndProbe \/ ProbeRaises \/ EndRun

-----------------------------------------------------------------------------
(* Every name is told of, once: as skipped, as an error, or by each of the *)
(* conversations that its probe had.  Only what the mode of the target     *)
(* excludes is not told of.  And no conversation passes unseen: only when  *)
(* a detector scored it low and none high, raised or gave no valid score;  *)
(* what nobody scored is skipped.                                          *)
EveryNameTold ==
    /\ Evaluated => \A i \in DOMAIN attempt.checks :
         LET scores == attempt.scores[i]
         IN  StatusOf(attempt.checks[i]) =
               IF attempt.raised \/ "invalid" \in scores THEN "error"
               ELSE IF "high" \in scores THEN "fail"
               ELSE IF "low" \in scores THEN "pass"
               ELSE "skip"
    /\ stage = "reported" => \A p \in Probes :
        LET mine == {i \in DOMAIN results : results[i].probe = p}
            statuses == {results[i].status : i \in mine}
        IN  CASE fate[p] = "skipped" -> Cardinality(mine) = 1 /\ statuses = {"skip"}
              [] fate[p] \in {"unseen", "left out"} -> mine = {}
              [] fate[p] = "iterative" /\ options.singleturn -> mine = {}
              [] made[p] = -1 -> Cardinality(mine) = 1 /\ statuses = {"error"}
              [] OTHER -> Cardinality(mine) = made[p]
=============================================================================
