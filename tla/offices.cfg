SPECIFICATION Spec
CONSTANTS
    Offices = {o1, o2, o3}
    Names = {n1, n2}
    Products = {p1, p2}
    Recoverable = {p2}
    None = None
    Requests = {r1, r2}
    Operations = {"setup", "tenant", "updateDefault", "create", "csv", "update", "toggle", "delete"}
    DefaultChanges = {"keep", "set"}
    Traffic = {"alone", "together"}
SYMMETRY Symmetry
INVARIANTS
    OfficesFit
    DeletionsWhole
    OfficesAgree
CHECK_DEADLOCK FALSE
