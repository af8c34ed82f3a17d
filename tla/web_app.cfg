CONSTANTS
    None = None
    Ops = {o1}
    Readers = {r}
    Foreign = {m}
    Perishable = {o1}
    Quotas = {0, 1}
    DefaultQuota = 2
    MaxPending = 1
    MaxTotal = 1
    MaxLocks = 1
    MaxFaults = 1
SPECIFICATION FairSpec
INVARIANTS PendingIsHeld
PROPERTIES Delivered
