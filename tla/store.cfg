CONSTANTS
    x = x y = y z = z
    None = None
    Ids <- TwoObjects
    Size <- TwoSizes
    Quotas = {2, 3}
    FirstQuota = 2
    MaxObjects = 2
    Failing = {"object", "unlink", "index", "config"}
    MayExpire = TRUE
    MayCorrupt = TRUE
    MayCrash = TRUE
SPECIFICATION Spec
INVARIANTS PinsSurvive UnionProtected
PROPERTIES NoOrphans
CHECK_DEADLOCK FALSE
