SPECIFICATION FairSpec
CONSTANTS
    NumRuns = 2
    NoLimit = NoLimit
    StepLimits = {0, 2, 3, NoLimit}
    MaxCalls = 2
    NumRetries = 1
    MaxMessages = 4
INVARIANTS
    CallsAnswered
    ContextKeepsUp
    WithinStepLimit
    AnswerTellsAll
PROPERTIES
    EveryRunEnds
