\* A target that raises StopAsyncIteration.
SPECIFICATION Spec
CONSTANTS
    MaxSteps = 1
    MaxInteracts = 1
    MaxChecks = 1
    MaxRuns = 1
    MaxTrace = 1
    MaxDepth = 1
    MaxTurns = 2
    MaxRetries = 1
    Mishaps = {"exhausted"}
INVARIANTS
    TargetErrorsSurface
