SPECIFICATION Spec
CONSTANTS
    Products = {p1}
    Members = {m1, m2}
    Offices = {o1}
    FPWarehouse = FP
    Dates = {d1}
    Requests = {r1}
    Operations = {"assign", "transfer", "return", "relocate", "move", "cancel", "setStatus",
                  "member", "office", "default"}
    SetStatuses <- ForwardStatuses
    MaxNames = 0
    MaxShipments = 2
    MaxEvents = 1
INVARIANTS
    LetGo
    DetailsFresh
