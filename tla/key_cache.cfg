SPECIFICATION FairSpec
CONSTANTS
    Caller = {c1, c2}
    NoKid = NoKid
    Kid = {k1, k2}
    Verifiers <- MCVerifiers
    Long = 3
    MaxTime = 2
INVARIANTS
    AcceptedKeyIsRecent
    OnlyAbsentKeysAreRefused
    RotatedKeyIsFound
PROPERTIES
    RequestsAreSpaced
    EveryVerificationIsAnswered
