SPECIFICATION Spec
CONSTANTS
    Journals = {j1, j2, j3}
    Texts = {t1, t2}
    Categories = {c1}
    Links = {l1, l2}
    NoLink = NoLink
    NoEntity = NoEntity
    Clock = {1, 2}
    MaxInverses = 2
    MaxVersion = 2
    MaxLog = 3
SYMMETRY Symmetry
INVARIANTS TypeOK VersionIdentifiesRow TransferLinksPaired
PROPERTIES UndoRestores UndoneOnce MergeKeepsLiveCopy
CHECK_DEADLOCK FALSE
CONSTRAINT Focused
