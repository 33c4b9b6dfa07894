SPECIFICATION FairSpec
CONSTANTS
    r1 = r1
    r2 = r2
    Worker = {r1, r2}
    Feed <- ShelfToExit
    MaxFaults = 1
    NoSegment = NoSegment
INVARIANTS
    FiresOncePerEngine
    ForwardsOncePerEngine
    RowBeforeMessages
    FlaggedReachesVlm
    IncidentIsExplained
PROPERTIES
    FeedbackDiesOut
\* The system rests when the feed is published and handled.
CHECK_DEADLOCK FALSE
