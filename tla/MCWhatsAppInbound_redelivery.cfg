CONSTANTS
    t1 = t1
    t2 = t2
    t3 = t3
    ask = ask
    stop = stop
    start = start
    unsub = unsub
    photo = photo
    ana = ana
    ben = ben
    NoPhone = NoPhone
    Task <- RedeliveryTask
    Batch <- RedeliveryBatch
    Msg <- MsgNames
    Phone <- PhoneNames
    PhoneOf <- PhoneOfName
    KindOf <- KindOfName
    MaxSends = 1
    MaxRestarts = 1
    OutagesOccur = TRUE
    MaxLapses = 1
SPECIFICATION Spec
INVARIANTS
    TypeOK
    RepliedIsMarked
    DuplicateOnlyByRace
