\* Interjecting a queued row.
SPECIFICATION Spec
CONSTANTS
    None = None
    p1 = p1
    p2 = p2
    c1 = c1
    c2 = c2
    Prompts = {p1, p2}
    Interjections = {}
    TaskWakes = {}
    SubagentWakes = {}
    WorkflowWakes = {}
    TimerWakes = {}
    GoalTurns = {}
    DrainTurns = {}
    ResumeTurns = {}
    Monitors = {}
    Clients = {c1, c2}
    Owner <- MCOwner
    MonitorTask <- MCMonitorTask
    Mergeable = {p1, p2}
    Imaged = {}
    CombineQueued = FALSE
    MaxNotes = 2
    MaxBuffer = 2
    CancelKinds <- NoCancels
    Commands = {"prompt", "interjectQueued"}
    Starters = {}
PROPERTIES InterjectLeavesQueue
CHECK_DEADLOCK FALSE
