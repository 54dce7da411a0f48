SPECIFICATION Spec
CONSTANTS
    None = None
    MaxCommands = 2
    EmitKinds = {"message_delta", "command_delta", "command_completed",
                 "user_input", "approval", "terminal"}
    BatchChunks = 2
    MaxEvents = 4
    MaxStoreFaults = 1
    MaxRestarts = 1
    MaxAnswers = 2
INVARIANTS
    NothingIsLost
    ApprovalsFollowTheirContext
    
CHECK_DEADLOCK FALSE
