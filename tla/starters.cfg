\* Tasks besides the loop that kick the queue, against interjections and cancels.
SPECIFICATION Spec
CONSTANTS
    None = None
    p1 = p1
    p2 = p2
    c1 = c1
    c2 = c2
    Prompts = {p1}
    Interjections = {i1}
    TaskWakes = {}
    SubagentWakes = {}
    WorkflowWakes = {}
    TimerWakes = {}
    GoalTurns = {}
    DrainTurns = {}
    ResumeTurns = {r1}
    Monitors = {}
    Clients = {c1, c2}
    Owner <- MCOwner
    MonitorTask <- MCMonitorTask
    Mergeable = {}
    Imaged = {}
    CombineQueued = FALSE
    MaxNotes = 2
    MaxBuffer = 2
    CancelKinds <- Escapes
    Commands = {"prompt", "interject", "cancel", "output"}
    Starters = {"mcp", "resume"}
INVARIANTS Conserved TerminalOnce OverlapOnlyInCancel PinAgrees FlushOwnTurn NoWedge NoStall
CHECK_DEADLOCK FALSE
