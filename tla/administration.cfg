SPECIFICATION PartSpec
CONSTANTS
    Fields = {f1}
    PartnerTypes = {"partner", "own", "default"}
    NewBlanks <- NoneBlank
    Requests = {r1}
    Operations <- CurrentOrCrash
    MaxWarehouses = 3
    Callers = {r1, r2}
    Tenants = {t1, t2, t3}
    MaxCached = 2
    Retries = 2
    None = None
    Timer = Timer
    Owner = Owner
    Traffic = {"alone", "together"}
    Users = {u1}
    Companies = {t1, t2}
    Names = {n1, n2}
    Null = Null
    Together = {"assign", "toggle", "pause"}
INVARIANTS
    TypeOK
    AtMostOneActive
    ActiveIsComplete
    CacheSound
    AccountsFit
PROPERTIES
    DeletedForGood
    ActiveKept
    CallsEnd
CHECK_DEADLOCK FALSE
