SPECIFICATION Spec
CONSTANTS
    None = None
    Calls = {c1, c2, c3}
    Runs = {r1}
    Requests = {q1}
    Kinds = {"account", "start", "steer", "login", "respond", "shutdown"}
    Notices = {"begin", "completed", "garbled"}
    InFlight = 1
    MaxNotices = 1
    MaxRuntimes = 2
SYMMETRY ActorSymmetry
INVARIANTS
    TypeOK
    UnsentMeansUnheard
    RunsEndOnce
    NothingOutlivesItsRun
    RequestsAreAnsweredOnce
    WaitersAreReachable
    PendingLoginIsOpen
    OutcomeIsTheTurns
CHECK_DEADLOCK FALSE
