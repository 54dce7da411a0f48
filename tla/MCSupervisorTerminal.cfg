SPECIFICATION FairSpec
CONSTANTS
    None = None
    Runs = {r1}
    Providers = {r1}
    Approvals = {}
    Requests = {1}
    Decisions = {"approved", "denied"}
    Clients = {t1}
    Calls = {"reconcile", "command", "resolve"}
    Consumers = {c1, c2}
    RouteCapacity = 1
    MaxUncertainStarts = 1
    EmitKinds = {"completed"}
    MaxEvents = 1
    MaxStoreFaults = 0
    MaxPumpFailures = 0
    MaxCrashes = 0
PROPERTIES
    TerminalEventsFinalize
CHECK_DEADLOCK FALSE
