SPECIFICATION ClientsSpec
CONSTANTS
    Names = {"mine", "google"}
    MaxChanges = 2
    Tools = {"a", "b"}
    MaxItems = 5
    ShortChat = 1
    MaxBlocks = 2
    Limiters = {l1, l2, l3, l4}
    Fields = {f, g}
    Nobody = Nobody
    NumTalks = 3
    MaxCalls = 3
    MaxOpening = 3
INVARIANTS
    StateShared
    MapFollowsUse
    ChatOnTheWire
    AcceptedByAnthropic
    OutcomesTold
    TracesTold
PROPERTIES
    ServedAsConfigured
CHECK_DEADLOCK FALSE
