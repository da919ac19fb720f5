\* A command line and a program that keeps its manager.
SPECIFICATION FairRuntimeSpec

CONSTANTS
    None = None
    Processes = {shell, program}
    Kept = {program}
    Specs <- AllSpecs
    MaxCommands = 3

INVARIANTS
    RuntimeTypeOK
    NoAliasInManager
    RunningHasItsToken

PROPERTIES
    FilesWrittenOnce
    CommandsEnd

\* No more commands are given once the bound is reached.
CHECK_DEADLOCK FALSE
