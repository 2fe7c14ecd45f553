\* Two torn writes.
SPECIFICATION Spec
CONSTANTS
    Keys <- MCKeys
    NoSubpath = ""
    NoJob = NoJob
    Safe <- MCSafe
    Entries = {"e1", "e2", "e3", "title", "a1", "a2"}
    Unkeyed = {"title"}
    Batches <- MCBatches
    MaxTears = 2
    MaxLines = 4
INVARIANTS
    IndInv
    NothingTwice
    LossBounded
