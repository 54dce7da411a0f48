SPECIFICATION FairSpec
CONSTANTS
    None = None
    Runs = {r1, r2}
    Providers = {r1, r2}
    Approvals = {}
    Requests = {1}
    Decisions = {"approved", "denied"}
    Clients = {}
    Calls = {"reconcile", "command", "resolve"}
    Consumers = {c1, c2}
    RouteCapacity = 1
    MaxUncertainStarts = 1
    EmitKinds = {"completed"}
    MaxEvents = 1
    MaxStoreFaults = 0
    MaxPumpFailures = 1
    MaxCrashes = 1
INVARIANTS
    StateIsConsistent
PROPERTIES
    RestartAccountsForEveryRun
    StartSettles
    OrphanedConsumersEnd
CHECK_DEADLOCK FALSE
