\* One handler, so that no symmetry is needed; waitpid works.
SPECIFICATION FairSpec
CONSTANTS
    s1 = s1
    s2 = s2
    p1 = p1
    p2 = p2
    h1 = h1
    h2 = h2
    decider = decider
    caller = caller
    NoProfile = NoProfile
    NoSession = NoSession
    Profiles = {p1, p2}
    Sessions = {s1, s2}
    ProfileOf <- MCProfileOf
    Handlers = {h1}
    Callers = {decider}
    Deciders = {decider}
    MaxSpawns = 2
    MaxGeneration = 3
    WaitMayFail = FALSE
INVARIANT RestingPhase
PROPERTIES
    StreamLossStopsProcess
    WorkspaceReleased
    DeathIsNoticed
