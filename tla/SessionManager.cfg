SPECIFICATION Spec
CONSTANTS
    p1 = p1
    p2 = p2
    s1 = s1
    s2 = s2
    NoSession = NoSession
    NoProfile = NoProfile
    Sessions = {s1, s2}
    Profiles = {p1, p2}
    ProfileOf <- MCProfileOf
    MaxPids = 2
    DbMayFail = TRUE
SYMMETRY SessionsAlike
INVARIANTS
    TypeOK
    RestingRowHasNoPid
PROPERTIES
    RestartReconciles
    PromptHasReadyRow
    WakeKeepsArchived
    DeleteSparesProcess
