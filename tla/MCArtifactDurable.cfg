SPECIFICATION Spec
CONSTANTS
    None = None
    Digests = {d1}
    Publishers = {p1, p2}
    Grace = 1
    MaxClock = 2
    MaxInodes = 3
    FaultPlans <- MCKilledPlans
SYMMETRY ArtifactSymmetry
INVARIANTS
    ReturnedBlobsAreDurable
CHECK_DEADLOCK FALSE
