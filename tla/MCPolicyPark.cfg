\* Two parallel requests, every race of the callback with its resolvers and its
\* timer, and what was remembered between the two.
SPECIFICATION FairPolicySpec
CONSTANTS
    r1 = r1
    r2 = r2
    edit = edit
    status = status
    push = push
    curl = curl
    date = date
    rm = rm
    rmAll = rmAll
    fetchA = fetchA
    fetchB = fetchB
    s1 = s1
    s2 = s2
    other = other
    Requests <- MCRequests
    Turns = {t1}
    Calls <- MCCalls
    ToolOf <- MCToolOf
    ShellCalls <- MCShell
    CommandOf <- MCCommandOf
    Sessions = {s1, s2, other}
    Policies = {"reviewed", "readonly"}
    PolicyOf <- MCPolicyOf
    Files <- MCFiles
    Default <- MCDefault
    Objections <- MCObjections
    Objectionable <- MCObjectionable
    Asks <- MCAsks
INVARIANTS
    IndInv
    ResolveHonoured
    FailClosed
    AnsweredNotPending
    AllowedForAReason
    DenialsReached
PROPERTIES
    RememberedNotAsked
    EveryRequestAnswered
    ImplementsOneShot
CHECK_DEADLOCK FALSE
