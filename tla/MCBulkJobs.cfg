CONSTANTS
    a = a
    x = x
    long = long
    short = short
    tiny = tiny
    w1 = w1
    w2 = w2
    web = web
    rd = rd
    NoRow = NoRow
    Pairs = {a, x}
    MaxInt = 3
    Jobs = {long, short, tiny}
    Alone = {long, tiny}
    Beside <- MCBeside
    Workers = {w1, w2}
    Services = {web}
    Writers = {w1, w2, web}
    Readers = {rd}
    Lines <- MCLines
    KnownPairs = {a}
    Opening <- MCOpening
    ChunkSize = 2
    ReportLimit = 1
    MaxAttempts <- MCMaxAttempts
    MaxStalls <- MCMaxStalls
    MaxVersion = 7
    ServiceMax = 2

SPECIFICATION Spec

INVARIANTS
    TypeOK
    EveryLineAccounted
    ReportMatchesLedger
    CacheHoldsSettledWrites

PROPERTIES
    JobsEnd
    CacheCatchesUp

CHECK_DEADLOCK FALSE
