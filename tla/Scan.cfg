\* Two categories, two objectives, two topics, budgets of none, of three or four
\* scenarios or without a limit; each registry, with up to two documents;
\* rules and topics are asked for twice.
SPECIFICATION FairSpec
CONSTANTS
    Tasks = {1, 2, 3, 4, 5, 6, 7, 8}
    MaxPermits = 1
    NumCategories = 2
    NumTopics = 2
    NoLimit = NoLimit
    Budgets = {0, 3, 4, NoLimit}
    Default = 1
    NumObjectives = 2
    DatasetSize = 2
    MaxRules = 2
    MaxReply = 2
    Rounds = 2
    Attempts = 2
INVARIANTS
    BudgetKept
    EmbeddedOnce
    ScanTellsAll
PROPERTIES
    EveryScanEnds
