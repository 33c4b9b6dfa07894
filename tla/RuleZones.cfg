SPECIFICATION Spec
CONSTANTS
    r1 = r1
    r2 = r2
    Worker = {r1}
    Feed <- CvOnly
    MaxFaults = 0
    NoSegment = NoSegment
INVARIANT ZonesStandInForZoneTypes
\* The system rests when the feed is published and handled.
CHECK_DEADLOCK FALSE
