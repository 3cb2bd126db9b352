SPECIFICATION Spec
CONSTANTS
    Products = {p1, p2}
    Members = {}
    Offices = {o1}
    FPWarehouse = FP
    Dates = {d1, d2}
    Requests = {r1}
    Operations = {"transfer", "move", "reschedule", "cancel", "setStatus"}
    SetStatuses <- AllButPreparation
    MaxNames = 0
    MaxShipments = 3
    MaxEvents = 0
SYMMETRY Symmetry

    
PROPERTIES
    MergeLosesNothing
    
