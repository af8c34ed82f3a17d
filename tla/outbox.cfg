CONSTANTS
    None = None
    Ops = {o1, o2}
    Ids = {i, j}
    Readers = {r}
    MaxPending = 1
    MaxTotal = 1
    MaxAttempts = 1
    Failing = {"journal", "object"}
    MayCrash = TRUE
    Fragile = {i}
    Mortal = {j}
    MayLock = TRUE
SPECIFICATION FairSpec
INVARIANTS JournalFirst MemoryIsJournal Opens
PROPERTIES RecordsKept PinnedIsKept PinsReleased
CHECK_DEADLOCK FALSE
