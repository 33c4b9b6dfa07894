SPECIFICATION Spec
CONSTANTS
    w1 = w1
    i1 = i1
    i2 = i2
    Worker = {w1}
    Event = {1, 2}
    Message <- McMessage
    NoClip = NoClip
    Answer <- McAnswer
    Backend = {"pg", "file"}
    Limit = 2
    MaxPolls = 1
    MaxFaults = 1
    Absent = Absent
    Indexer = {i1, i2}
    IndexLimit = 1
    MaxRuns = 2
    None = None
    NoValue = NoValue
    NoProfile = NoProfile
    NotMeasured = NotMeasured
    Registered = {"nvidia", "qwen"}
SYMMETRY Symmetry
INVARIANTS
    VerdictIsAboutTheEvent
    WatchedOncePerProcess
    MessageIsBacked
    EmbeddingsPerEntity
\* The messages are finite, and so are the polls and the index runs.
CHECK_DEADLOCK FALSE
