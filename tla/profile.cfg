CONSTANTS
    None = None
    Procs = {p, q}
    Edits = {e}
    Operations = {g, h}
    MaxOperations = 1
    MaxSigned = 3
    MaxStores = 2
    MaxLegacy = 2
    MaxCrashes = 2
    MaxFaults = 2
    MaxLosses = 1
SPECIFICATION FairSpec
INVARIANTS AckedIsKept SignedOnce ImportIsTheSignedOne
PROPERTIES NeverReplaced Resumes
