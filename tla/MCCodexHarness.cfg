SPECIFICATION FairSpec
CONSTANTS
    None = None
    Connections = {c1}
    h1 = h1
    h2 = h2
    s1 = s1
    s2 = s2
    InitialSettings <- MCSettings
    Homes = {h1, h2}
    Secrets = {s1, s2}
    MaxRuns = 2
    ChannelCapacity = 1
    PendingCapacity = 2
    MaxAdapters = 3
    MaxProgress = 2
    FaultPlans <- MCPlans
INVARIANTS
    TypeOK
    NoRunUsesAStaleSecret
PROPERTIES
    NoRotationUnderRuns
    EventsAreDelivered
CHECK_DEADLOCK FALSE
