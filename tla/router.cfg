CONSTANTS
    A = A B = B C = C p = p q = q
    Nodes = {A, B, C}
    Edges <- Line
    Packets = {p, q}
    Source <- FromA
    Priority <- Mixed
    Created <- Together
    Bytes <- OneByte
    RelayOnly = {}
    Cancellable = {q}
    MaxHops = 3
    SeenCap = 2
    MaxRetained = 1
    MaxBytes = 2
    MaxLinks = 2
    Mortal = {q}
    Pausing = {B}
    MayDrop = TRUE
    MayStop = TRUE
SPECIFICATION FairSpec
PROPERTIES FloodSpec Delivery UrgentIsKept
CHECK_DEADLOCK FALSE
