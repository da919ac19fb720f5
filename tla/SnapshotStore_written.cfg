\* Writes that may be killed, and reads at any time.
SPECIFICATION Spec
CONSTANTS
    Absent = Absent
    Torn = Torn
    Datasets = {"x", "y"}
    Contents = {1, 2, 3}
    Bundles <- MCBundles
    Valid <- MCValid
    Readers = {r1, r2}
    MaxWrites = 2
    MaxReads = 2
INVARIANTS
    TypeOK
    QuietReadsAreWritten
    FinishedCanBeRead
SYMMETRY
    ReaderSymmetry
