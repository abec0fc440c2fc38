SPECIFICATION Spec
CONSTANTS
    NoRow = NoRow
    NoToken = NoToken
    Handler = {h1, h2}
    Subject = {alice, bob}
    Token = {r1, r2, r3, r4}
    Resources = {res1, res2}
    ConfigResource = res1
    Providers = {"rotating", "keeping", "mixed"}
    TTL = 1
    MaxTime = 2
    Faults = TRUE
INVARIANTS
    SessionStaysUsable
PROPERTY
    RefreshTokenIsKept
