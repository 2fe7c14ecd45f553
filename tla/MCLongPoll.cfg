\* A query() that takes its time: who wakes whom.
SPECIFICATION LongSpec
CONSTANTS
    Senders = {s1}
    Interrupters = {i1}
    Closers = {k1}
    Callbacks = {c1, c2}
    Pollers = {p1}
    PromptQuery = FALSE
SYMMETRY Symmetry
INVARIANTS
    LongInv
    NewsWakesPollers
    AskedSendersAwake
PROPERTIES
    ClosedNeverServes
CHECK_DEADLOCK FALSE
