SPECIFICATION BackupSpec
CONSTANTS
    Statements = {s1}
    MaxEntries = 1
INVARIANTS RestoredShowsEntries
CHECK_DEADLOCK FALSE
