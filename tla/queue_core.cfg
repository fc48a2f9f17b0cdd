\* Three prompts of two clients: every way to edit the shared queue.
SPECIFICATION Spec
CONSTANTS
    None = None
    p1 = p1
    p2 = p2
    c1 = c1
    c2 = c2
    Prompts = {p1, p2, p3}
    Interjections = {}
    TaskWakes = {}
    SubagentWakes = {}
    WorkflowWakes = {}
    TimerWakes = {}
    GoalTurns = {}
    DrainTurns = {}
    ResumeTurns = {}
    Monitors = {}
    Clients = {c1, c2}
    Owner <- MCOwner
    MonitorTask <- MCMonitorTask
    Mergeable = {p1, p2, p3}
    Imaged = {p2}
    CombineQueued = TRUE
    MaxNotes = 2
    MaxBuffer = 2
    CancelKinds <- Escapes
    Commands = {"prompt", "remove", "interjectQueued", "hold", "reorder", "clear", "cancel", "output", "wait"}
    Starters = {}
INVARIANTS RunningIsFront Conserved TerminalOnce
PROPERTIES QueuedSurviveCancel Implements
CHECK_DEADLOCK FALSE
