SPECIFICATION FairSpec
CONSTANTS
    NoRow = NoRow
    NoFamily = NoFamily
    NoToken = NoToken
    NoGrant = NoGrant
    Handler = {h1, h2}
    Token = {t1, t2, t3}
    Family = {f1}
    Client = {c1, c2}
    Authority = {a1}
    LegacyToken = {t1, t2}
    RefreshTTL = 0
    MaxTime = 1
    Faults = TRUE
INVARIANTS
    TypeOK
    RotatedAtMostOnce
    OneHeadPerFamily
    RotationPreservesGrant
    FamilyHasOneGrant
    SettledFamilyIsDead
PROPERTY
    SpentStaysSpent
    RevocationStaysInFamily
    DetectedReuseIsRevoked
