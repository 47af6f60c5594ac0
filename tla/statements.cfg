SPECIFICATION StatementsSpec
CONSTANTS
    Batches = {b1, b2}
    Sources = {s1}
    Records = {r1, r2}
    Keys = {k1, k2}
    MaxRevision = 2
    None = None
    Documents = {d1, d2}
    Tokens = {t1}
    Modes = {"page_images"}
    Setups = {e1, e2}
    Providers = {"openai", "ollama"}
    SecretRefs = {f1, f2}
SYMMETRY StatementsSymmetry
CONSTRAINT Focused
INVARIANTS OneCommitPerSource NothingPartlyAdded MemoryNotBehind SentIsReviewed SavedKeyKept
PROPERTIES AttachmentsOnce
