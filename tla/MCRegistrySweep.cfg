\* The reaper and the lock it holds: one session, no crash.
SPECIFICATION FairSpec
CONSTANTS
    Sessions = {s1}
    Closers = {k1}
    MaxSessions = 1
    MaxCrashes = 0
PROPERTIES
    SweepEnds
CHECK_DEADLOCK FALSE
