CONSTANTS
    ask = ask
    hello = hello
    word = word
    stop = stop
    start = start
    other = other
    ana = ana
    bob = bob
    NoSession = NoSession
    Stranger = Stranger
    Nobody = Nobody
    Request <- OneRequest
    Client <- Clients
    By <- OneBy
    KindOf <- OneKind
    Resuming <- OneRequest
    OnWhatsApp <- Nothing
    IdleKills = TRUE
    MaxFaults = 0
    MaxRestarts = 0
SPECIFICATION Spec
INVARIANT StoredSurvives
CHECK_DEADLOCK FALSE
