SPECIFICATION RegistrySpec
CONSTANTS
    NoEntry = NoEntry
    NoRow = NoRow
    d1 = d1
    c1 = c1
    pk1 = pk1
    pk2 = pk2
    LocalClientID = LocalClientID
    BadKey = BadKey
    Handler = {h1, h2}
    Client = {c1}
    Jti = {j1, j2}
    Exp = {1, 2}
    Skew = 1
    MaxTime = 2
    MaxAccepted = 2
    Backends = {"memory", "sqlite"}
    Dynamic = {d1}
    Url <- MCUrl
    LocalRedirect <- callback1
    PublicKey = {pk1, pk2}
    Code = {k1}
    Redirect <- MCRedirect
    Registrations <- MCRegistrations
    Documents <- MCDocuments
    Lookups <- MCLookups
    Files <- MCFiles
    Configs <- MCConfigs
    Worlds <- MCWorlds
INVARIANTS
    CodeStaysOnListedHost
    OnlyDialableIsContacted
PROPERTIES
    NoReplayBeforeExpiry
    RedeemedRedirectIsCurrent
    AssertionKeyInForce
SYMMETRY Symmetry
