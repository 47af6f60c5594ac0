SPECIFICATION Uninterrupted
CONSTANTS
    Journals = {j1}
    Texts = {t1, t2}
    Categories = {c1}
    Links = {l1}
    NoLink = NoLink
    NoEntity = NoEntity
    Clock = {1}
    MaxInverses = 3
    MaxVersion = 3
    MaxLog = 4
SYMMETRY Symmetry
INVARIANTS BlockedOnlyByLaterChange

CHECK_DEADLOCK FALSE
