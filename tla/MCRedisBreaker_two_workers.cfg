CONSTANTS
    t1 = t1
    t2 = t2
    p1 = p1
    p2 = p2
    Absent = Absent
    Task <- TwoTasks
    Process <- TwoProcesses
    ProcessOf <- Apart
    Respectful <- TwoTasks
    Probe <- OneTask
    Threshold = 1
    Timeout = 1
    KeyTtl = 2
SPECIFICATION FairSpec
INVARIANTS
    TypeOK
    CleanIsClosed
PROPERTY
    ProbesGoOn
