\* Two sessions competing for one place, two closes of each, the reaper, a crash
\* and a restart.
SPECIFICATION Spec
CONSTANTS
    Sessions = {s1, s2}
    Closers = {k1, k2}
    MaxSessions = 1
    MaxCrashes = 1
SYMMETRY Symmetry
CHECK_DEADLOCK FALSE
INVARIANTS
    IndInv
    WithinLimit
    ReaperSparesTurns
    DiskIsHonest
PROPERTIES
    ClosedOnDisk
