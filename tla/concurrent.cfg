SPECIFICATION Spec
CONSTANTS
    Products = {p1}
    Members = {m1, m2}
    Offices = {}
    FPWarehouse = FP
    Dates = {d1}
    Requests = {r1, r2}
    Operations = {"assign", "transfer", "move", "cancel", "patch", "crash"}
    SetStatuses <- EndStatuses
    MaxNames = 0
    MaxShipments = 3
    MaxEvents = 0
INVARIANTS
    OneHolder
