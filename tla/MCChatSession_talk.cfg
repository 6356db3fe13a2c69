CONSTANTS
    ask = ask
    hello = hello
    word = word
    stop = stop
    start = start
    other = other
    ana = ana
    bob = bob
    NoSession = NoSession
    Stranger = Stranger
    Nobody = Nobody
    Request <- TalkRequest
    Client <- Clients
    By <- TalkBy
    KindOf <- TalkKind
    Resuming <- TalkRequest
    OnWhatsApp <- OnPhone
    IdleKills = TRUE
    MaxFaults = 1
    MaxRestarts = 1
SPECIFICATION FairSpec
INVARIANTS
    TypeOK
    AnsweredIsStored
    UnwrittenIsFailed
    Continuity
PROPERTY
    EveryRequestEnds
CHECK_DEADLOCK FALSE
