--------------------------------- MODULE Scan ---------------------------------
(***************************************************************************)
(* quality_scan and vulnerability_scan of giskard-scan: a suite is         *)
(* generated (GenerateSuite) and run (SuiteContract says what that gives), *)
(* a recommendation is asked for, and telemetry hears of the beginning and *)
(* of the end.                                                             *)
(***************************************************************************)
EXTENDS GenerateSuite

VARIABLES quality,     \* quality_scan asks for a recommendation
          phase,       \* "generating", "running", "recommending", or "over"
          ran,         \* how the suite ran: "none", "result", "raised", or "cancelled"
          advice,      \* the recommendation: "none", "text", or "empty"
          events,      \* the ends that telemetry heard of
          outcome      \* what the caller was given

scan == <<quality, phase, ran, advice, events, outcome>>
vars == <<generation, scan>>

Init ==
    /\ GenerateInit
    /\ quality = (registered = Quality)
    /\ phase = "generating" /\ ran = "none" /\ advice = "none"
    /\ events = {} /\ outcome = "none"

End(how) == phase' = "over" /\ outcome' = how

(* An exception is told to telemetry and goes on to the caller; a          *)
(* cancellation just goes on.                                              *)
Leave(how) ==
    /\ End(how)
    /\ events' = IF how = "raised" THEN events \cup {"error"} ELSE events

Generating ==
    /\ phase = "generating"
    /\ Generate
    /\ \/ suite' \in {"raised", "cancelled"} /\ Leave(suite')
       \/ suite' = "given" /\ phase' = "running" /\ UNCHANGED <<events, outcome>>
       \/ suite' = "none" /\ UNCHANGED <<phase, events, outcome>>
    /\ UNCHANGED <<quality, ran, advice>>

Complete ==
    /\ End("result")
    /\ events' = events \cup {"completed"}

(* Suite.run: a result, an exception, or the caller's cancellation.        *)
RunSuite ==
    /\ phase = "running"
    /\ ran' \in IF abandoned THEN {"result", "raised", "cancelled"} ELSE {"result", "raised"}
    /\ \/ ran' # "result" /\ Leave(ran')
       \/ ran' = "result" /\ quality /\ phase' = "recommending" /\ UNCHANGED <<events, outcome>>
       \/ ran' = "result" /\ ~quality /\ Complete
    /\ UNCHANGED <<generation, quality, advice>>

(* A recommendation that fails is left out.                                *)
Recommend ==
    /\ phase = "recommending"
    /\ \/ advice' \in {"text", "empty"} /\ Complete
       \/ abandoned /\ Leave("cancelled") /\ UNCHANGED advice
    /\ UNCHANGED <<generation, quality, ran>>

(* The caller cancels the scan, wherever it is.                            *)
Abandon ==
    /\ ~abandoned /\ phase # "over"
    /\ abandoned' = TRUE
    /\ UNCHANGED <<pc, permits, queue, request, have, tries, embedded,
                   cancelling, stopping, aborting, suite, scan>>

Finished == phase = "over" /\ UNCHANGED vars

Next == Generating \/ RunSuite \/ Recommend \/ Abandon \/ Finished

Spec == Init /\ [][Next]_vars

(* The loop goes on, models answer, and the suite ends (RunEnds, SuiteRun). *)
FairSpec == Spec /\ WF_vars(Generating) /\ WF_vars(RunSuite) /\ WF_vars(Recommend)

-----------------------------------------------------------------------------
(* The caller and telemetry are told what happened: a result means that    *)
(* every unit of every generator did its part, and no failed unit is lost  *)
(* in the two layers of task groups; an exception means that something     *)
(* failed other than the recommendation; a cancellation was asked for.     *)
ScanTellsAll ==
    /\ outcome = "none" => events = {}
    /\ outcome = "result" =>
          /\ ran = "result" /\ events = {"completed"}
          /\ \A t \in Tasks : pc[t] = "done"
    /\ outcome = "raised" =>
          /\ events = {"error"}
          /\ ran = "raised" \/ \E t \in Tasks : pc[t] = "failed"
    /\ outcome = "cancelled" => abandoned /\ events = {}

(* Every scan ends: generators, groups and lock do not wait for each other *)
(* for ever, whatever fails and whenever the caller cancels.               *)
EveryScanEnds == <>(phase = "over")
=============================================================================
