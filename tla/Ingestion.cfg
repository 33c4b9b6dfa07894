SPECIFICATION Spec
CONSTANTS
    Cameras = 1
    ClipsPerCamera = 2
    WindowsPerClip = 1
    MaxRuns = 2
    MaxDay = 1
    MaxDeletes = 1
    MaxBackfills = 2
    Nothing = Nothing
INVARIANTS
    JobsAreBacked
    ChecksumOfLastRun
    HalfDoneByAbort
PROPERTIES
    BackfillMirrors
\* Runs, backfills and deletions are bounded.
CHECK_DEADLOCK FALSE
