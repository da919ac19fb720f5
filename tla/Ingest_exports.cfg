\* Exports of up to three rows.
SPECIFICATION FairSpec

CONSTANTS
    None = None
    Normal <- MCNormal
    FullKey <- MCFullKey
    Inputs <- MCInputs
    stable_id <- MCStableId
    OwnersPerModule = 1
    BoundaryDays = 30
    MaxRows = 3

INVARIANTS
    TypeOK
    RegistryOneToOne
    GraphClosed
    RefusalExplained
    RepliesLinkedOnce
    CommunicationCounted
    OwnersByAuthorship

PROPERTIES
    IngestEnds

CHECK_DEADLOCK FALSE
