\* Ctrl+C against the promotion of a resumed plan.
SPECIFICATION Spec
CONSTANTS
    None = None
    p1 = p1
    p2 = p2
    c1 = c1
    c2 = c2
    Prompts = {p1}
    Interjections = {}
    TaskWakes = {}
    SubagentWakes = {}
    WorkflowWakes = {}
    TimerWakes = {}
    GoalTurns = {}
    DrainTurns = {}
    ResumeTurns = {r1}
    Monitors = {}
    Clients = {c1, c2}
    Owner <- MCOwner
    MonitorTask <- MCMonitorTask
    Mergeable = {}
    Imaged = {}
    CombineQueued = FALSE
    MaxNotes = 2
    MaxBuffer = 2
    CancelKinds <- CtrlCs
    Commands = {"prompt", "cancel"}
    Starters = {"resume"}
INVARIANTS StateIsActorOwned
CHECK_DEADLOCK FALSE
