\* Goals, timers, teardown and shutdown: each message goes through its life once.
SPECIFICATION Spec
CONSTANTS
    None = None
    p1 = p1
    p2 = p2
    c1 = c1
    c2 = c2
    Prompts = {p1}
    Interjections = {}
    TaskWakes = {w1}
    SubagentWakes = {}
    WorkflowWakes = {}
    TimerWakes = {t1}
    GoalTurns = {g1}
    DrainTurns = {d1}
    ResumeTurns = {}
    Monitors = {}
    Clients = {c1, c2}
    Owner <- MCOwner
    MonitorTask <- MCMonitorTask
    Mergeable = {}
    Imaged = {}
    CombineQueued = FALSE
    MaxNotes = 2
    MaxBuffer = 2
    CancelKinds <- Hard
    Commands = {"prompt", "timer", "interjectQueued", "notifyDone", "goalSummary", "goal", "wait", "cancel", "shutdown"}
    Starters = {}
INVARIANTS TerminalOnce
PROPERTIES Implements
CHECK_DEADLOCK FALSE
