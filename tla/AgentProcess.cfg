SPECIFICATION Spec
CONSTANTS
    s1 = s1
    s2 = s2
    p1 = p1
    p2 = p2
    h1 = h1
    h2 = h2
    decider = decider
    caller = caller
    NoProfile = NoProfile
    NoSession = NoSession
    Profiles = {p1, p2}
    Sessions = {s1, s2}
    ProfileOf <- MCProfileOf
    Handlers = {h1, h2}
    Callers = {decider, caller}
    Deciders = {decider}
    MaxSpawns = 2
    MaxGeneration = 5
    WaitMayFail = TRUE
SYMMETRY HandlersAlike
INVARIANTS
    TypeOK
    ReadyIsObserved
    ActiveCountExact
    NoStrayChild
    ChildHasProfile
    TaskStopsOnlyItsChild
    PromptRunsInItsSession
PROPERTIES
    ReaperSparesRequests
    ReplacementSparesRequests
    DecisionKeepsProcess
    ImplementsLifecycle
