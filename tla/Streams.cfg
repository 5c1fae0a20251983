SPECIFICATION StreamsSpec
CONSTANTS
    Readers = {r1}
    MaxEvents = 3
    MaxDrops = 1
    MaxRestarts = 1
    MaxResyncs = 1
    MaxAttempts = 1
    Viewers = {v1}
    Queries = {11, 12}
    BufferLimit = 1
    MaxChanges = 2
    MaxAsks = 1
    MaxLosses = 1
    MaxLives = 1
    Paths = {p1, p2}
    NoPath = NoPath
    MaxTexts = 2
    MaxRequests = 4
    MaxFaults = 1
INVARIANTS StreamsTypeOK NothingIsSkipped FilesAreTended
PROPERTIES ImplementsLedger AcceptedInOrder EveryEventArrives StatusCatchesUp
CHECK_DEADLOCK FALSE
