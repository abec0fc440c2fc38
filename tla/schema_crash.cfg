SPECIFICATION Spec
CONSTANTS
    Process = {p1, p2, p3}
    StartVersions <- StartFresh
    Crashes = TRUE
INVARIANT
    Openable
