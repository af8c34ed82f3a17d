CONSTANTS
    s1 = s1 s2 = s2 s3 = s3 n1 = n1 n2 = n2 b1 = b1 b2 = b2
    None = None
    Packets <- QueuePackets
    Priority <- QueuePriority
    Fragments <- QueueFragments
    Created <- QueueCreated
    Cancellable = {n1, n2, b1}
    Mortal = {}
    Recycled = {}
    MaxTransfers = 4
    MaxPending = 5
    SosReserve = 1
    MaxAssemblies = 4
    MaxControl = 1
    MaxAcks = 1
    MaxInvalid = 2
    RetryTicks = 1
    IdleTicks = 0
    MaxWire = 1
    Reticulum = FALSE
    Lossy = FALSE
    Prompt = FALSE
    Ticks = FALSE
    PowerModes = {TRUE, FALSE}
SPECIFICATION Spec
INVARIANTS
    PartialsBounded
PROPERTIES
    StartedAreKept
CHECK_DEADLOCK FALSE
