CONSTANTS
    s1 = s1 s2 = s2 s3 = s3 n1 = n1 n2 = n2 b1 = b1 b2 = b2
    None = None
    Packets <- LossPackets
    Priority <- LossPriority
    Fragments <- LossFragments
    Created <- LossCreated
    Cancellable = {}
    Mortal = {n1}
    Recycled = {}
    MaxTransfers = 5
    MaxPending = 5
    SosReserve = 1
    MaxAssemblies = 4
    MaxControl = 1
    MaxAcks = 1
    MaxInvalid = 2
    RetryTicks = 1
    IdleTicks = 1
    MaxWire = 1
    Reticulum = FALSE
    Lossy = TRUE
    Prompt = FALSE
    Ticks = TRUE
    PowerModes = {}
SPECIFICATION FairSpec
INVARIANTS
    AckSound
PROPERTIES
    AssembliesEnd
    
CHECK_DEADLOCK FALSE
