SPECIFICATION Spec
CONSTANTS
    a = a
    b = b
    x = x
    y = y
    Reviewer = {a, b}
    Builder = {x}
    MaxReviews = 3
    MaxBuilds = 2
    MaxObs = 2
    MaxFaults = 1
    Nil = Nil
    Torn = Torn
INVARIANTS
    StatusIsExplained
    HashOfFinishedClip
PROPERTIES
    ReviewedStaysReviewed
    LostToStaleWritersOnly
\* The incident is at rest when the bounded reviews and builds are over.
CHECK_DEADLOCK FALSE
