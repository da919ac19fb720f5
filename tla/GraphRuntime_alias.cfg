\* Two command lines, each with a manager of its own.
SPECIFICATION RuntimeSpec

CONSTANTS
    None = None
    Processes = {shell, other}
    Kept = {}
    Specs <- OneGraph
    MaxCommands = 3

INVARIANTS
    RuntimesNeverAlias

\* No more commands are given once the bound is reached.
CHECK_DEADLOCK FALSE
