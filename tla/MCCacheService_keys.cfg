\* Locks, failed-login counters and chat sessions: three calls, two processes, two failed commands.
SPECIFICATION MCSpec
CONSTANTS
    c1 = c1
    c2 = c2
    c3 = c3
    w1 = w1
    w2 = w2
    Call = {c1, c2, c3}
    Worker = {w1, w2}
    At <- MCAt
    Job = {"lock", "failure", "clear", "create", "update"}
    Stamp = {1, 2, 3}
    Gone = Gone
    Limit = 2
    Retries = 2
    MaxFaults = 2
INVARIANTS
    NothingStaysForever
    FailuresLeadToABlock
    SessionsAreWhole
PROPERTIES
    KeepsTheLease
CHECK_DEADLOCK FALSE
