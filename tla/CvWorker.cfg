SPECIFICATION Spec
CONSTANTS
    Camera = {"aisle", "counter"}
    Label = {"person", "item"}
    Zone <- McZone
    SampleStep = 1
    MinChange = 1
    Reach = 4
    Unit = 8
    MaxAge = 2
    w1 = w1
    w2 = w2
    Worker = {w1, w2}
    Clip = {"c1", "c2", "c3"}
    CameraOf <- McCameraOf
    Footage <- McFootage
    Window <- McWindow
    Backend = {"pg", "redis", "file"}
    CacheSize = 2
    Limit = 2
    MaxPolls = 1
    Seeded = {"aisle"}
    MaxFaults = 2
    MaxId = 24
SYMMETRY Symmetry
INVARIANTS
    SameIdsWhileRecent
    IdsIdentify
    GapsEndTracks
    RowsPerTrack
\* The windows are finite and the file fallback is polled MaxPolls times.
CHECK_DEADLOCK FALSE
