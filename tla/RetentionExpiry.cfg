SPECIFICATION TrailSpec
CONSTANTS
    c1 = c1
    c2 = c2
    i1 = i1
    i2 = i2
    r1 = r1
    r2 = r2
    Runner = {r1, r2}
    MaxJobs = 2
    Clip = {c1}
    Incident = {i1}
    Days <- McDays
    MaxDay = 5
    Unborn = Unborn
    Deleted = Deleted
PROPERTY LockedUntilClosed
\* The days are bounded.
CHECK_DEADLOCK FALSE
