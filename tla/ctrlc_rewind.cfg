\* Ctrl+C on a turn that has produced nothing yet.
SPECIFICATION Spec
CONSTANTS
    None = None
    p1 = p1
    p2 = p2
    c1 = c1
    c2 = c2
    Prompts = {p1}
    Interjections = {}
    TaskWakes = {w1}
    SubagentWakes = {}
    WorkflowWakes = {}
    TimerWakes = {}
    GoalTurns = {}
    DrainTurns = {d1}
    ResumeTurns = {}
    Monitors = {m1}
    Clients = {c1, c2}
    Owner <- MCOwner
    MonitorTask <- MCMonitorTask
    Mergeable = {}
    Imaged = {}
    CombineQueued = FALSE
    MaxNotes = 2
    MaxBuffer = 2
    CancelKinds <- AllCancels
    Commands = {"prompt", "notify", "cancel", "output"}
    Starters = {}
INVARIANTS CtrlCDefersNotes
CHECK_DEADLOCK FALSE
