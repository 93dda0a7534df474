\* Two steps with nested generators that may go wrong in every way, run up to
\* twice.
SPECIFICATION FairSpec
CONSTANTS
    MaxSteps = 2
    MaxInteracts = 1
    MaxChecks = 2
    MaxRuns = 2
    MaxTrace = 2
    MaxDepth = 2
    MaxTurns = 2
    MaxRetries = 1
    Mishaps = {"raise", "exhausted", "foreign", "refuse"}
INVARIANTS
    GreenOnEvidence
    ReportIsComplete
    IndexAttribution
    StopsAtFirstNonPass
    VerdictHidesNothing
PROPERTIES
    KeepsContract
    Terminates
