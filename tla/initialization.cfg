SPECIFICATION PartSpec
CONSTANTS
    Fields = {f1}
    PartnerTypes = {"own", "default"}
    NewBlanks <- NoneBlank
    Requests = {r1, r2}
    Operations <- AllRoutes
    MaxWarehouses = 2
    Products = {x1, x2}
    Tenants = {t1, t2}
    Staying = {x2}
    Members = {m1, m2}
    Offices = {o1}
    GoneOffices = {o2}
    Countries = {"AR", "BR"}
    Argentina = "AR"
    None = None
    Text = Text
    TenantOf <- FirstTenants
    CountryOf <- SomeCountries
    DefaultOffice <- SomeOffice
    Editors = {e1}
    Listeners = {l1, l2}
    MaxEdits = 2
INVARIANTS
    CountryHasWarehouse
    PlacesFit
    SnapshotsFit
CHECK_DEADLOCK FALSE
