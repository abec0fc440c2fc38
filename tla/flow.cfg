SPECIFICATION Spec
CONSTANTS
    c1 = c1
    c2 = c2
    u1 = u1
    v1 = v1
    v2 = v2
    res1 = res1
    res2 = res2
    s1 = s1
    s2 = s2
    n1 = n1
    NoRow = NoRow
    NoFamily = NoFamily
    Empty = Empty
    Handler = {h1, h2}
    Id = {i1, i2, i3, i4}
    Code = {k1, k2}
    Client = {c1, c2}
    Redirect = {u1}
    Verifier = {v1, v2}
    Resource = {res1, res2}
    Scope = {s1, s2}
    Subject = {alice, bob}
    ClientNonce = {n1}
    Registered <- MCRegistered
    AllowedScopes = {s1}
    Deployments <- MCDeployments
    Requests <- MCRequests
    CodeTTL = 0
    MaxTime = 1
    Faults = TRUE
SYMMETRY Symmetry
INVARIANTS
    TypeOK
    RequestNeverForks
    CodeOnlyAfterApproval
    DenialIsFinal
    SubjectSignedInForRequest
    CodeHasSession
    OneGrantPerCode
    TokensMatchApproval
