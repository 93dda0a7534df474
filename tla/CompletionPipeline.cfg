\* Three requests, two attempts each, share two permits; the loop may be one
\* tick late.
SPECIFICATION PipelineFairSpec
CONSTANTS
    Tasks = {c1, c2, c3}
    Interval = 2
    MaxPermits = 2
    Lateness = 1
    MaxCalls = 2
    IdleHorizon = 1
INVARIANTS
    PermitsConserved
    AttemptsAccounted
PROPERTIES
    StartsPaced
    EveryRequestAnswered
CHECK_DEADLOCK FALSE
