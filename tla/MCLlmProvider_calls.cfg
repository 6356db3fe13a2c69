\* Two tasks of one process; all times, thanks to the cut-off ages.
SPECIFICATION FairSpec
CONSTANTS
    Task = {1, 2}
    Threshold = 3
    Reset = 3
    MaxRetries = 2
INVARIANTS
    TypeOK
    RefusalHasCause
    
PROPERTIES
    OpenIsProbed
    EveryCallEnds
