SPECIFICATION Spec
CONSTANTS
    NoEntry = NoEntry
    Handler = {h1, h2}
    Client = {c1}
    Jti = {j1, j2}
    Exp = {1, 2}
    Skew = 2
    MaxTime = 4
    MaxAccepted = 2
    Backends = {"memory", "sqlite"}
INVARIANT
    SingleUse
