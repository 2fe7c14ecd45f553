\* A close that raises.
SPECIFICATION Spec
CONSTANTS
    Senders = {s1}
    Interrupters = {i1}
    Closers = {k1}
    Callbacks = {c1}
    PromptQuery = TRUE
INVARIANTS
    CloseSucceeds
CHECK_DEADLOCK FALSE
