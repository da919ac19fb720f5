\* The label of an answer that fell back.
SPECIFICATION Spec

CONSTANTS
    Unit = 12
    NoRequest = NoRequest
    Scenes <- TheScenes
    Requests <- TheRequests
    SampleSize = 4
    PathCount = 1
    RowLimit = 3
    MaxRequests = 1
    MaxFailures = 1

INVARIANTS
    FallbackNeverLive

\* The requests of the bound are answered and the database is seeded.
CHECK_DEADLOCK FALSE
