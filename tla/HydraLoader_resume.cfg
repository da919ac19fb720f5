\* One loader kept over several loads, with a store that outlives a crash.
SPECIFICATION Spec

CONSTANTS
    Nodes = {"m", "p", "q", "r"}
    Edges <- MCEdges
    Ends <- MCEnds
    RelType <- MCRelType
    RelTypes <- MCRelTypes
    Manifest <- MCManifest
    Batches <- MCBatches
    Loaders = {l1}
    Staged = {"first"}
    BatchSizes = {1, 2}
    KeepsLoader = TRUE
    DurableStore = TRUE
    MaxLoads = 4
    MaxFaults = 3

INVARIANTS
    TypeOK
    CompleteMeansLoaded
    NodesBeforeCounting
    BatchesAccounted
