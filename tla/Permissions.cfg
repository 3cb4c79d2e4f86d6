SPECIFICATION Spec
CONSTANTS
    r1 = r1
    r2 = r2
    s1 = s1
    s2 = s2
    a1 = a1
    Requests = {r1, r2}
    Sessions = {s1, s2}
    NoSession = NoSession
    NoRequest = NoRequest
    ActionOf <- MCActionOf
    MaxPending = 1
    MaxProc = 1
SYMMETRY MCSymmetry
INVARIANTS
    TypeOK
    OnceIsAuthorised
    RestedHasNoGrant
    AskedIsTracked
PROPERTY
    SwitchDropsGrants
