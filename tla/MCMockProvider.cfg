SPECIFICATION FairSpec
CONSTANTS
    None = None
    Callers = {c1, c2}
    Ids = {"p", "q"}
    Answers = {yes, no}
    PlanLists <- MCPlanLists
    Capacity = 1
    MaxRuns = 2
    MaxCalls = 4
    MaxRefusals = 1
INVARIANTS
    ScriptsAreFollowed
PROPERTIES
    CallsReturn
CHECK_DEADLOCK FALSE
