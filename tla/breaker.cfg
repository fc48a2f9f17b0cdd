\* Requests that race a trip, a probe that is dropped: the breaker recovers.
SPECIFICATION FairSpec
CONSTANTS
    t1 = t1
    t2 = t2
    Threads = {t1, t2}
    OpenDuration = 1
    MaxProbes = 1
    MinSamples = 2
    MaxEntries = 2
    WordMax = 4
    MaxPause = 1
    MaxLost = 1
INVARIANTS TypeOK WindowCount
PROPERTIES AdmitsAgain ClosesWhenHealthy
