\* Completion wakes and monitors against user prompts and Ctrl+C.
SPECIFICATION Spec
CONSTANTS
    None = None
    p1 = p1
    p2 = p2
    c1 = c1
    c2 = c2
    Prompts = {p1}
    Interjections = {}
    TaskWakes = {w1}
    SubagentWakes = {}
    WorkflowWakes = {f1}
    TimerWakes = {}
    GoalTurns = {}
    DrainTurns = {d1, d2}
    ResumeTurns = {}
    Monitors = {m1, m2}
    Clients = {c1, c2}
    Owner <- MCOwner
    MonitorTask <- MCMonitorTask
    Mergeable = {}
    Imaged = {}
    CombineQueued = FALSE
    MaxNotes = 2
    MaxBuffer = 1
    CancelKinds <- CtrlCs
    Commands = {"prompt", "wake", "workflow", "notify", "dropMonitor", "late", "cancel", "consume", "report"}
    Starters = {}
INVARIANTS TypeOK RunningIsFront NoStrandedNotes
PROPERTIES BarrierHolds
CHECK_DEADLOCK FALSE
