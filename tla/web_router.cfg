CONSTANTS
    NoPacket = NoPacket
    Local = {pa}
    Relayed = {pb}
    Links = {la, lb}
    Parts = 2
    Slots = 2
    Transfers = 1
    MaxRequests = 2
SPECIFICATION Spec
INVARIANTS  AnsweredIsTaken ConsentIsCurrent
CHECK_DEADLOCK FALSE
