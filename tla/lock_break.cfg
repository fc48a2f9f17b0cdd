\* A holder that has not written its name yet: what a waiter may take for stale.
SPECIFICATION Spec
CONSTANTS
    None = None
    Gone = Gone
    p1 = p1
    p2 = p2
    Procs = {p1, p2}
    MaxGen = 2
    Faults = {}
    MaxFaults = 0
    MaxOrphans = 0
    Listeners = {p1}
    OtherScopes = TRUE
INVARIANT OneSpender
CHECK_DEADLOCK FALSE
