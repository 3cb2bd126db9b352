SPECIFICATION FairSpec
CONSTANTS
    Products = {p1, p2}
    Members = {m1}
    Offices = {}
    FPWarehouse = FP
    Dates = {d1}
    Requests = {r1}
    Operations = {"assign", "cancel", "setStatus", "member"}
    SetStatuses <- ForwardStatuses
    MaxNames = 1
    MaxShipments = 2
    MaxEvents = 1
INVARIANTS
    TypeOK
    ShipmentDescribesEnds
    FlagsExact
    StatusFollowsDetails
PROPERTIES
    TerminalIsFinal
    RequestsEnd
    AddressesArrive
