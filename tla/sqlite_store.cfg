SPECIFICATION SQLiteSpec
CONSTANTS
    code = code
    consent = consent
    refresh1 = refresh1
    refresh2 = refresh2
    NoRow = NoRow
    NoFamily = NoFamily
    Idle = Idle
    NoHandler = NoHandler
    Handler = {h1, h2}
    Value = {code, consent, refresh1, refresh2}
    Kind <- MCKind
    Family = {f1}
    Migrated = {refresh1, refresh2}
    TTL = 0
    MaxTime = 1
SYMMETRY Symmetry
INVARIANTS
    WriterHasReadTheLatest
    ConsumedOnce
    ReuseIsReal
PROPERTY
    ImplementsOneTimeStore
