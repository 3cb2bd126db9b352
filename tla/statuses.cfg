SPECIFICATION Spec
CONSTANTS
    Products = {p1, p2}
    Members = {m1}
    Offices = {o1}
    FPWarehouse = FP
    Dates = {d1}
    Requests = {r1}
    Operations = {"assign", "transfer", "cancel", "setStatus", "member", "office"}
    SetStatuses <- ForwardStatuses
    MaxNames = 0
    MaxShipments = 2
    MaxEvents = 1
INVARIANTS
    ProductStatusMatchesShipment
CHECK_DEADLOCK FALSE
