SPECIFICATION Spec
CONSTANTS
    Products = {p1}
    Members = {m1}
    Offices = {}
    FPWarehouse = FP
    Dates = {d1}
    Requests = {r1}
    Operations = {"assign", "setStatus", "member"}
    SetStatuses <- ForwardStatuses
    MaxNames = 0
    MaxShipments = 1
    MaxEvents = 1
PROPERTIES
    MembersKeepAddressInTransit
CHECK_DEADLOCK FALSE
