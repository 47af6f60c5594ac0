SPECIFICATION Spec
CONSTANTS
    Journals = {j1, j2}
    Texts = {t1}
    Categories = {c1}
    Links = {l1}
    NoLink = NoLink
    NoEntity = NoEntity
    Clock = {1}
    MaxInverses = 2
    MaxVersion = 2
    MaxLog = 3
SYMMETRY Symmetry
PROPERTIES MergeIsRecorded

CHECK_DEADLOCK FALSE
