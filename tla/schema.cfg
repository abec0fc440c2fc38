SPECIFICATION FairSpec
CONSTANTS
    Process = {p1, p2, p3}
    StartVersions <- StartAny
    Crashes = TRUE
INVARIANTS
    ServingHasCurrentSchema
    LegacyClientsUnverified
    UpgradeKeepsOpenable
PROPERTY
    EventuallyServes
