\* The log, its pollers, failing writes and a crash.
SPECIFICATION FairSpec
CONSTANTS
    p1 = p1
    p2 = p2
    text = text
    result = result
    caller = caller
    Types = {text, result}
    Pollers = {p1, p2}
    Include <- MCInclude
    Senders = {caller}
    MemoryLimit = 2
    Limits = {1, 2}
    DefaultLimit = 2
    MaxBatch = 2
    MaxEvents = 4
    MaxFailures = 1
INVARIANTS
    TypeOK
    PollersMissNothing
    TranscriptComplete
PROPERTIES
    EveryEventDelivered
CHECK_DEADLOCK FALSE
