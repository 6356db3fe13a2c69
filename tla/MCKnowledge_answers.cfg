\* Two indexing runs, two requests in different languages and one failed command; three writers of a row.
SPECIFICATION MCSpec
CONSTANTS
    d1 = d1
    i1 = i1
    i2 = i2
    d2 = d2
    Doc = {d1, d2}
    Parts = 2
    Indexing = {i1, i2}
    Subject <- MCSubject
    Request = {1, 2}
    Question = {1, 2}
    Write = {1, 2, 3}
    None = None
    MaxFaults = 1
INVARIANTS
    IndexedInFull
    SweepsAreThorough
    DeprecatedStaysHidden
    RetrievalsAreNotInvented
PROPERTIES
    DeletedFades
CHECK_DEADLOCK FALSE
