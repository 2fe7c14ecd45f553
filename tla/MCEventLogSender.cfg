\* A turn with more events than the snapshot of session_send holds.
SPECIFICATION Spec
CONSTANTS
    p1 = p1
    p2 = p2
    text = text
    result = result
    caller = caller
    Types = {text, result}
    Pollers = {p1}
    Include <- MCInclude
    Senders = {caller}
    MemoryLimit = 2
    Limits = {2}
    DefaultLimit = 2
    MaxBatch = 2
    MaxEvents = 4
    MaxFailures = 0
INVARIANTS
    SendersMissNothing
CHECK_DEADLOCK FALSE
