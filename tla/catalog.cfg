SPECIFICATION Spec
CONSTANTS
    Products = {p1, p2}
    Recoverable = {p1}
    Members = {m1, m2}
    Emails = {e1, e2, e3}
    Serials = {s1, s2}
    None = None
    Invented = Invented
    Requests = {r1, r2}
    Addresses = {"live", "unknown"}
    Spaced = {s2}
    Traffic = {"assets", "staff", "together"}
    Operations <- MCOperations
SYMMETRY Symmetry
INVARIANTS
    ProductsFit
    OneHome
    CopiesAgree
PROPERTIES
    Implements
CHECK_DEADLOCK FALSE
