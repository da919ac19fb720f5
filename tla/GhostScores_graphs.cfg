\* Every graph of four or five people; two threads on a few of them.
SPECIFICATION Spec

CONSTANTS
    Unit = 12
    t1 = t1
    t2 = t2
    None = None
    Threads = {t1, t2}
    Addresses = {0, 1, 2}
    Served = 0
    Workloads <- AllWorkloads
    MaxLen = 4
    ExactBelow = 5

INVARIANTS
    TypeOK
    MemoIsLean
    RankingExact
    ImpactMeansCentral
    BridgeIsLeast

PROPERTIES
    CallsEnd

\* The threads stop when their calls are made.
CHECK_DEADLOCK FALSE
