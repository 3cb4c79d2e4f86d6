\* One session at a time may start; no statement fails.
SPECIFICATION FairSpec
CONSTANTS
    p1 = p1
    p2 = p2
    s1 = s1
    s2 = s2
    NoSession = NoSession
    NoProfile = NoProfile
    Sessions = {s1}
    Profiles = {p1, p2}
    ProfileOf <- MCProfileOf
    MaxPids = 1
    DbMayFail = FALSE
PROPERTIES
    ActiveRowCatchesUp
    StoppingEnds
