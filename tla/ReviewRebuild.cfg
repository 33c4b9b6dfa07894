SPECIFICATION Spec
CONSTANTS
    a = a
    b = b
    x = x
    y = y
    Reviewer = {a}
    Builder = {x}
    MaxReviews = 1
    MaxBuilds = 1
    MaxObs = 1
    MaxFaults = 0
    Nil = Nil
    Torn = Torn
PROPERTY AuditIsAppendOnly
\* The incident is at rest when the bounded reviews and builds are over.
CHECK_DEADLOCK FALSE
