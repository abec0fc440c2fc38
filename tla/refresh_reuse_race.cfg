SPECIFICATION Spec
CONSTANTS
    NoRow = NoRow
    NoFamily = NoFamily
    NoToken = NoToken
    NoGrant = NoGrant
    Handler = {h1, h2}
    Token = {t1, t2, t3}
    Family = {f1, f2}
    Client = {c1}
    Authority = {a1}
    LegacyToken = {}
    RefreshTTL = 0
    MaxTime = 1
    Faults = FALSE
INVARIANT
    ReuseRevokesWholeFamily
