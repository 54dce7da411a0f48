SPECIFICATION Spec
CONSTANTS
    None = None
    MaxCommands = 1
    EmitKinds = {"command_delta", "command_completed", "terminal"}
    BatchChunks = 2
    MaxEvents = 3
    MaxStoreFaults = 0
    MaxRestarts = 0
    MaxAnswers = 0
INVARIANTS
    StreamedCommandsFinalize
CHECK_DEADLOCK FALSE
