\* Three scenarios, two at a time.
SPECIFICATION FairSpec
CONSTANTS
    Tasks = {1, 2, 3}
    Count = 3
    MaxPermits = 2
INVARIANTS
    TallyIsTrue
PROPERTIES
    KeepsContract
    RunEnds
