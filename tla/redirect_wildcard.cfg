SPECIFICATION RegistrySpec
CONSTANTS
    NoEntry = NoEntry
    NoRow = NoRow
    d1 = d1
    c1 = c1
    pk1 = pk1
    pk2 = pk2
    LocalClientID = LocalClientID
    BadKey = BadKey
    Handler = {h1}
    Client = {c1}
    Jti = {j1}
    Exp = {1}
    Skew = 0
    MaxTime = 1
    MaxAccepted = 1
    Backends = {"sqlite"}
    Dynamic = {d1}
    Url <- MCUrl
    LocalRedirect <- callback1
    PublicKey = {pk1, pk2}
    Code = {k1}
    Redirect <- WildcardRedirect
    Registrations <- WildcardRegistrations
    Documents <- MCDocuments
    Lookups <- MCLookups
    Files <- MCFiles
    Configs <- MCConfigs
    Worlds <- MCWorlds
INVARIANT
    RedirectCanBeSent
