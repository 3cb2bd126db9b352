SPECIFICATION PartSpec
CONSTANTS
    Requests = {r1, r2}
    Shipments = {s1, s2, s3}
    Codes = {c1, XX}
    Unknown = {XX}
    None = None
    Digits = 3
    MaxNumber = 4
    QuoteIds = {q1, q2}
    Images = {i1, i2, i3}
    Callers = {r1}
    MaxAttachments = 1
    MaxServices = 2
    TeamIds = {t1, t2}
    Names = {n1, n2}
    Colors = {k1, k2}
    Members = {m1, m2}
    Together = {"update", "associate", "member", "members"}
INVARIANTS
    NumbersTell
    ImagesFit
    TeamsFit
PROPERTIES
    CancelledIsClean
CHECK_DEADLOCK FALSE
