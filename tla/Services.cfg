SPECIFICATION Spec
CONSTANTS
    h1 = h1
    h2 = h2
    c1 = c1
    c2 = c2
    Followed <- Parts
    QueueLimit = 1
    TtyLimit = 1
    ChannelLimit = 2
    Calls = {c1, c2}
    SeenLimit = 1
    MaxEmptied = 1
    MaxStreams = 2
    Logins = {h1, h2}
    Failures = 2
    Window = 2
    MaxTime = 4
    Handlers = {h1, h2}
    MaxId = 3
    Operators = {h1, h2}
    Intervals = {5, 15}
    Balanced = 15
    Wanted <- MCWanted
    Alphabet = {0, 2, 10, 13}
    NewLine = 10
    Return = 13
    FrameLimit = 2
    BufferLimit = 5
    LineLimit = 2
    MaxBytes = 6
    MaxChunk = 3
CHECK_DEADLOCK FALSE
INVARIANTS
    TypeOK
    ShellHasPermit
    AuditBrackets
    ReportsAreRecorded
    FailuresAreBounded
    RegistryMatchesLog
    ConfigIsDurable
    LinesAreWhole
PROPERTIES
    SessionEnds
    ThreadsEnd
    LeavingStopsReadSource
    SnapshotsCatchUp
