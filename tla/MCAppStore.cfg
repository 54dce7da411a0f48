SPECIFICATION Spec
CONSTANTS
    None = None
    Runs = {r1, r2}
    Providers = {p1}
    Approvals = {a1}
    Requests = {1}
    Decisions = {"approved", "denied"}
    WorkItems = {w1, w2, w3}
    Projects = {"p", "q"}
    Streams = {"provider", "application"}
    Batches = {b1, b2}
    ProviderItems = {"i1"}
    MaxTransitions = 3
    MaxBatchItems = 2
SYMMETRY StoreSymmetry
CONSTRAINT Scope
INVARIANTS
    TypeOK
    NoOpenApprovalOfEndedRun
    ProviderRunBelongsToOneRun
    AuditReplaysTables
    CursorCountsItems
    OkMeansAppliedOnce
    ArchivedSubtreesAreClosed
PROPERTIES
    EveryCommitMovesRevisionByOne
    ImplementsLifecycle
CHECK_DEADLOCK FALSE
