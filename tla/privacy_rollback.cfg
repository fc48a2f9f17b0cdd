\* A refresh ends while another process is saving its privacy setting.
SPECIFICATION WritersSpec
CONSTANTS
    None = None
    Gone = Gone
    p1 = p1
    p2 = p2
    Procs = {p1, p2}
    MaxGen = 2
    Faults = {}
    MaxFaults = 0
    MaxOrphans = 0
    Listeners = {p1}
    OtherScopes = TRUE
PROPERTIES NoRollback
CHECK_DEADLOCK FALSE
