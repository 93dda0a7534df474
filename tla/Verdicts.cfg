\* Suites of two scenarios, each a combination of up to three checks; garak
\* scans for two names, two conversations and two detectors; keys that find up
\* to two of five scalars.
SPECIFICATION SuiteSpec
CONSTANTS
    MaxChecks = 3
    Keys = {"Category", "Level"}
    Values = {"x", "y"}
    MaxTags = 2
    MaxResults = 2
    Probes = {p1, p2}
    MaxRequest = 2
    MaxAttempts = 2
    MaxConversations = 2
    MaxDetectors = 2
    TagsOf <- ScanTags
    MaxNumber = 1
    MaxItems = 2
INVARIANTS
    GreenOnEvidence
    TableTellsTheSuite
    EveryNameTold
    BrokenKeysStayErrors
    MatchLaws
