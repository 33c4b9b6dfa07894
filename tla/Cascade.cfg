SPECIFICATION FairSpec
CONSTANTS
    Camera = {1, 2, 3}
    Query = {"enters", "conceals"}
    Queries <- McQueries
    Caption <- McCaption
    Find <- McFind
    Workers = 2
    Duration = TRUE
    MaxFaults = 2
    MaxSamples = 1
    Torn = Torn
    NoFile = NoFile
    SecurityQuestion = {"conceals"}
    NoSpan = NoSpan
    Failed = Failed
    Pending = Pending
    Lost = Lost
    NoCamera = NoCamera
INVARIANT
    ProgressEndsAtTotal
PROPERTIES
    ImplementsBatch
    Finishes
\* main exits.
CHECK_DEADLOCK FALSE
