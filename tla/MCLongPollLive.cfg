\* One call of each kind and a query() that takes its time, with fairness.
SPECIFICATION LongFairSpec
CONSTANTS
    Senders = {s1}
    Interrupters = {i1}
    Closers = {k1}
    Callbacks = {c1}
    Pollers = {}
    PromptQuery = FALSE
INVARIANTS
    IndInv
    ConsumerGone
PROPERTIES
    EveryCallReturns
    CompletedSendersReturn
CHECK_DEADLOCK FALSE
