SPECIFICATION PublicationSpec
CONSTANTS
    a = a
    b = b
    Publications = {p, q}
    Shas = {a, b}
    ClaimOf <- MCClaimOf
    MaxKeys = 2
    MaxCorpus = 1
    MaxMishaps = 2
SYMMETRY Symmetry
INVARIANTS DriftIsReported JournalIsTruthful
CHECK_DEADLOCK FALSE
