\* A query() that returns at once: turns, bills, history, and who gets a result.
SPECIFICATION LongSpec
CONSTANTS
    Senders = {s1, s2}
    Interrupters = {i1, i2}
    Closers = {k1, k2}
    Callbacks = {c1}
    Pollers = {}
    PromptQuery = TRUE
SYMMETRY Symmetry
INVARIANTS
    OneTurnAtATime
    BilledForOwnQuery
    RecordedOnce
    OverSendersAwake
PROPERTIES
    ResultIsOwn
CHECK_DEADLOCK FALSE
