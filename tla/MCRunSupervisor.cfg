SPECIFICATION Spec
CONSTANTS
    None = None
    Runs = {r1}
    Providers = {r1}
    Approvals = {a1}
    Requests = {1, 2}
    Decisions = {"approved", "denied"}
    Clients = {t1, t2}
    Calls = {"reconcile", "command", "resolve"}
    Consumers = {c1, c2}
    RouteCapacity = 1
    MaxUncertainStarts = 1
    EmitKinds = {"item", "approval", "completed"}
    MaxEvents = 2
    MaxStoreFaults = 1
    MaxPumpFailures = 0
    MaxCrashes = 1
SYMMETRY SupervisorSymmetry
CONSTRAINT Scope
INVARIANTS
    TimelineHasEachEventOnce
    OutcomeIsTheProviders
    ProviderHearsTheRecordedDecision
    ResolvedMeansDelivered
CHECK_DEADLOCK FALSE
