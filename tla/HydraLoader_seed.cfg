\* Two requests seed two snapshots of the dataset, a loader each.
SPECIFICATION Spec

CONSTANTS
    Nodes = {"m", "p", "q", "r"}
    Edges <- MCEdges
    Ends <- MCEnds
    RelType <- MCRelType
    RelTypes <- MCRelTypes
    Manifest <- MCManifest
    Batches <- MCBatches
    Loaders = {l1, l2}
    Staged = {"first", "second"}
    BatchSizes = {2}
    KeepsLoader = FALSE
    DurableStore = FALSE
    MaxLoads = 3
    MaxFaults = 1

INVARIANTS
    CompleteMeansLoaded
