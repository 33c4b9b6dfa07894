SPECIFICATION FairSpec
CONSTANTS
    Job = {1, 2, 3, 4}
    w1 = w1
    w2 = w2
    v = v
    events = events
    needsVlm = needsVlm
    Worker = {w1, w2, v}
    Stream = {events, needsVlm}
    StreamOf <- McStreamOf
    Reads <- McReads
    Limit = 2
    MaxCrashes = 1
    NoJob = NoJob
    NoWorker = NoWorker
INVARIANTS
    ExclusiveClaim
    HandledAtMostOnce
    StrandedOnlyByCrash
    TableAgreesWithWorkers
PROPERTIES
    ImplementsLifecycle
    Settles
