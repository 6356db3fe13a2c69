CONSTANTS
    root = root
    ana = ana
    newcomer = newcomer
    c1 = c1
    c2 = c2
    Absent = Absent
    Nobody = Nobody
    Initial = Initial
    Admin <- Person
    Call <- TwoCalls
    Jobs <- AnyJob
    Unit <- Committing
    FirstRows <- Rows
    MaxFailed = 2
    MaxFaults = 1
SPECIFICATION FairSpec
INVARIANTS
    TypeOK
    OnlyTheEntitled
PROPERTIES
    KeepsTheLedger
    EveryCallEnds
CHECK_DEADLOCK FALSE
