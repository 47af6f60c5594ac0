SPECIFICATION FilesSpec
CONSTANTS
    Spaces = {1, 2, 3}
    Deks = {k1, k2, k3}
    Passwords = {p1, p2}
    Absent = Absent
    Torn = Torn
    None = None
    Statements = {s1}
    MaxEntries = 1
    Nil = Nil
    LastVersion = 2
    MaxRows = 1
    Checkpoints = {c1, c2, c3}
SYMMETRY FilesSymmetry
INVARIANTS KeysKept NoSecondSpace BackupKeeps RestoredWholeOrNot MigrationsRecoverable InstalledWasJudged RestoredFolderWhole
PROPERTIES LockAsked
CHECK_DEADLOCK FALSE
