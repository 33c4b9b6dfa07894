SPECIFICATION SourceSpec
CONSTANTS
    ClipSec = 12
    OverlapSec = 5
    WinSec = 5
    StrideSec = 2
    DurationLimit = 23
    LastTime = 25
    MaxGaps = 2
    Second = 5
    Clocks <- McClocks
    SegmentLen = 2
    KeyframeGap = 1
    CatalogLen = 6
    MaxClips = 3
    MaxRecordings = 2
    MaxBreaks = 1
INVARIANTS
    BoundaryEventsContained
    RowCoversFile
    SpansAreWatched
    CatalogDrift
    ChecksumOfWholeClip
\* The footage ends, and so do the recordings.
CHECK_DEADLOCK FALSE
