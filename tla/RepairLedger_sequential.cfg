\* One thread: the handlers as a client sees them when nothing interleaves.
SPECIFICATION Spec

CONSTANTS
    g1 = g1
    demo = demo
    other = other
    upload = upload
    d1 = d1
    d2 = d2
    good = good
    bad = bad
    Sources = {demo, other, upload}
    Datasets = {d1, d2}
    Phantoms = {g1}
    Modules = {1, 2, 3}
    People = {1, 2, 3, 4, 5}
    SourceData <- MCSourceData
    Catalog <- MCCatalog
    Initial = "demo"
    WriteToken = good
    ReadOnly = FALSE
    MaxProposed = 5
    Threads = {t1}
    Listed = {"demo", "other"}
    Imports = {"upload"}
    AskedRepairs <- AllRepairs
    Tokens = {good}
    MaxRequests = 4

PROPERTIES
    PromisedSpec
