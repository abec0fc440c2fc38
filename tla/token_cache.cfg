SPECIFICATION Spec
CONSTANTS
    NoRow = NoRow
    alice = alice
    bob = bob
    api = api
    read = read
    write = write
    SDKs = {"go", "python", "typescript"}
    Caller = {c1, c2}
    Request <- MCRequest
    MaxEntries = 2
    Margin = 2
    Second = 2
    Lifetimes = {1, 4}
    DefaultLifetime = 4
    MaxTime = 4
INVARIANTS
    CacheIsConsistent
    HitServesRequest
PROPERTY
    ImplementsLRUCache
SYMMETRY CallerSymmetry
