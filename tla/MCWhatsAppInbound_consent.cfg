CONSTANTS
    t1 = t1
    t2 = t2
    t3 = t3
    ask = ask
    stop = stop
    start = start
    unsub = unsub
    photo = photo
    ana = ana
    ben = ben
    NoPhone = NoPhone
    Task <- ConsentTask
    Batch <- ConsentBatch
    Msg <- MsgNames
    Phone <- PhoneNames
    PhoneOf <- PhoneOfName
    KindOf <- KindOfName
    MaxSends = 1
    MaxRestarts = 1
    OutagesOccur = FALSE
    MaxLapses = 0
SPECIFICATION FairSpec
PROPERTIES
    KeepsThePromise
    EveryMessageSettles
CHECK_DEADLOCK FALSE
