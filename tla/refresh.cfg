\* Two processes, one fault or one sleep: who may exchange the refresh token.
SPECIFICATION FairSpec
CONSTANTS
    None = None
    Gone = Gone
    p1 = p1
    p2 = p2
    Procs = {p1, p2}
    MaxGen = 2
    Faults = {"crash", "stop", "lose", "persist", "suspend", "orphan"}
    MaxFaults = 1
    MaxOrphans = 1
    Listeners = {p1}
    OtherScopes = TRUE
INVARIANTS TypeOK SpendsAlone ReuseOnlyAfterHarm
PROPERTIES HeartbeatIsSeen AcceptedKept NoStraddle Recovers
CHECK_DEADLOCK FALSE
