------------------------------- MODULE Offices -------------------------------
(***************************************************************************)
(* The offices of one tenant, from src/src/offices/offices.service.ts, the *)
(* CSV office coordinator and SuperAdminService.updateTenantOffice.        *)
(*                                                                         *)
(* An office is found by its flag isDefault when a request names none, is  *)
(* told from the others by its name within a country, and is copied by     *)
(* name into the products that stand in it and from there into the global  *)
(* collection. Nothing of this is kept by the database: each handler reads, *)
(* decides, and writes in further calls. A request is a little process;    *)
(* reads that directly follow one another are one action, every write is   *)
(* an action of its own, and the process may die between any two.          *)
(***************************************************************************)
EXTENDS Naturals, FiniteSets

CONSTANTS
    Offices,         \* ids MongoDB may hand out; none is used twice
    Names,           \* office names, alike up to case, within one country
    Products,        \* assets
    Recoverable,     \* those of them whose flag recoverable is set
    None,            \* no office, no name
    Requests,        \* requests that may be in flight at the same time
    Operations,      \* the kinds of request a run lets users issue
    DefaultChanges,  \* what a body may say about isDefault
    Traffic          \* how requests may arrive in a run

OperationKinds ==
    {"setup", "tenant", "updateDefault", "create", "csv", "update", "toggle", "delete"}

ASSUME ConstantsAssumption ==
    /\ Recoverable \subseteq Products
    /\ None \notin Offices \cup Names
    /\ Operations \subseteq OperationKinds
    /\ DefaultChanges \subseteq {"keep", "set", "unset"}
    /\ Traffic \subseteq {"alone", "together"}

VARIABLES
    offices,    \* the offices collection
    products,   \* the products, in whichever collection they are stored
    copies,     \* what the global collection says of them
    shipping,   \* offices at an end of an active shipment
    onTheWay,   \* those of them whose shipment is on its way
    requests,   \* what every request is doing
    crashed,    \* has a process died with a request in hand?
    refused,    \* offices that could not be deleted because of a shipment
    bypassed,   \* offices renamed by the route of the default office
    traffic     \* the arrivals this behaviour has

vars == <<offices, products, copies, shipping, onTheWay, requests, crashed,
          refused, bypassed, traffic>>

-----------------------------------------------------------------------------
\* Values.

Office  == [status : {"unused", "live", "deleted"}, name : Names \cup {None}, isDefault : BOOLEAN]
Product == [office : Offices \cup {None}, officeName : Names \cup {None}, isDeleted : BOOLEAN]

Calls == {"start", "insert", "clear", "write", "propagate", "affected", "sync",
          "destroy", "mark", "check", "ensure", "promote"}

\* A request: what it is, the call it makes next, the office it works on, what
\* its body says, what it has read and the products it still has to see to.
Request ==
    [op : OperationKinds \cup {"none"}, at : Calls, office : Offices \cup {None},
     name : Names \cup {None}, change : {"keep", "set", "unset"}, was : BOOLEAN,
     read : [Products -> Product], todo : SUBSET Products]

Nowhere == [p \in Products |-> [office |-> None, officeName |-> None, isDeleted |-> FALSE]]

Idle == [op |-> "none", at |-> "start", office |-> None, name |-> None,
         change |-> "keep", was |-> FALSE, read |-> Nowhere, todo |-> {}]

Live(o)    == offices[o].status = "live"
LiveOffices == {o \in Offices : Live(o)}
Defaults   == {o \in LiveOffices : offices[o].isDefault}
NameTaken(name, own) == \E o \in LiveOffices \ own : offices[o].name = name
In(o)      == {p \in Products : products[p].office = o /\ ~products[p].isDeleted}

Busy(r) == requests[r] # Idle
Quiet   == \A r \in Requests : ~Busy(r)

Finish(r) == requests' = [requests EXCEPT ![r] = Idle]
Goto(r, at) == requests' = [requests EXCEPT ![r].at = at]

\* The request r of kind op makes the call at.
At(r, ops, at) == requests[r].op \in ops /\ requests[r].at = at

Init ==
    /\ offices = [o \in Offices |-> [status |-> "unused", name |-> None, isDefault |-> FALSE]]
    /\ products = Nowhere /\ copies = Nowhere
    /\ shipping = {} /\ onTheWay = {} /\ refused = {} /\ bypassed = {}
    /\ crashed = FALSE
    /\ traffic \in Traffic
    /\ requests = [r \in Requests |-> Idle]

UnchangedData     == UNCHANGED <<offices, products, copies>>
UnchangedWorld    == UNCHANGED <<shipping, onTheWay, crashed, refused, bypassed, traffic>>
UnchangedProducts == UNCHANGED <<products, copies>>

\* What a body may say: which office, which name, and what of isDefault.
NamesOffice == {"update", "toggle", "delete"}
NamesName   == OperationKinds \ {"toggle", "delete"}
SaysDefault == {"updateDefault", "create", "update"}

\* Requests that arrive together delete nothing and clear no default by hand.
Arrive(r) ==
    /\ ~Busy(r)
    /\ traffic = "alone" => Quiet
    /\ \E op \in Operations, o \in LiveOffices \cup {None}, n \in Names \cup {None},
          c \in DefaultChanges \cup {"keep"} :
          /\ (o # None) = (op \in NamesOffice)
          /\ (n # None) = (op \in NamesName)
          /\ c # "keep" => op \in SaysDefault
          /\ traffic = "together" => op # "delete" /\ c # "unset"
          /\ requests' = [requests EXCEPT ![r] =
                 [Idle EXCEPT !.op = op, !.office = o, !.name = n, !.change = c]]
    /\ UnchangedData /\ UnchangedWorld

-----------------------------------------------------------------------------
\* The first and the default office.

\* An insert; MongoDB hands out an id that was never used.
Insert(r, isDefault) ==
    /\ \E o \in Offices :
          /\ offices[o].status = "unused"
          /\ offices' = [offices EXCEPT ![o] =
                 [status |-> "live", name |-> requests[r].name, isDefault |-> isDefault]]
    /\ Finish(r)
    /\ UnchangedProducts /\ UnchangedWorld

SetupLook(r) ==
    /\ At(r, {"setup"}, "start")
    /\ IF Defaults # {} THEN Finish(r) ELSE Goto(r, "insert")
    /\ UnchangedData /\ UnchangedWorld

SetupInsert(r) == At(r, {"setup"}, "insert") /\ Insert(r, TRUE)

\* The superadmin's form goes to one of the two services.
TenantLook(r) ==
    /\ At(r, {"tenant"}, "start")
    /\ requests' = [requests EXCEPT
           ![r].op = IF LiveOffices # {} THEN "updateDefault" ELSE "setup"]
    /\ UnchangedData /\ UnchangedWorld

UpdateDefaultLook(r) ==
    /\ At(r, {"updateDefault"}, "start")
    /\ \/ Defaults = {} /\ Goto(r, "insert")
       \/ \E o \in Defaults :
             IF NameTaken(requests[r].name, {o}) /\ requests[r].name # offices[o].name
             THEN Finish(r)
             ELSE requests' = [requests EXCEPT ![r].at = "write", ![r].office = o]
    /\ UnchangedData /\ UnchangedWorld

UpdateDefaultInsert(r) == At(r, {"updateDefault"}, "insert") /\ Insert(r, TRUE)

\* An update by id: it finds the office whether or not it is deleted by now.
Changed(office, name, change) ==
    [office EXCEPT !.name = name,
                   !.isDefault = CASE change = "set"   -> TRUE
                                   [] change = "unset" -> FALSE
                                   [] OTHER            -> office.isDefault]

\* A default office that is renamed here keeps its old name in its products.
UpdateDefaultWrite(r) ==
    /\ At(r, {"updateDefault"}, "write")
    /\ LET q == requests[r] IN
          /\ offices' = [offices EXCEPT ![q.office] = Changed(offices[q.office], q.name, q.change)]
          /\ bypassed' = IF q.name = offices[q.office].name THEN bypassed
                         ELSE bypassed \cup {q.office}
    /\ Finish(r)
    /\ UnchangedProducts /\ UNCHANGED <<shipping, onTheWay, crashed, refused, traffic>>

-----------------------------------------------------------------------------
\* Further offices.

\* An import uses the office that is there.
CsvLook(r) ==
    /\ At(r, {"csv"}, "start")
    /\ IF NameTaken(requests[r].name, {}) THEN Finish(r)
       ELSE requests' = [requests EXCEPT ![r].op = "create"]
    /\ UnchangedData /\ UnchangedWorld

CreateLook(r) ==
    /\ At(r, {"create"}, "start")
    /\ IF NameTaken(requests[r].name, {}) THEN Finish(r)
       ELSE requests' = [requests EXCEPT
                ![r].was = LiveOffices = {},
                ![r].at  = IF requests[r].change = "set" THEN "clear" ELSE "insert"]
    /\ UnchangedData /\ UnchangedWorld

\* updateMany over the live offices.
Cleared(except) ==
    [o \in Offices |-> IF Live(o) /\ o \notin except
                       THEN [offices[o] EXCEPT !.isDefault = FALSE] ELSE offices[o]]
CreateClear(r) ==
    /\ At(r, {"create"}, "clear")
    /\ offices' = Cleared({})
    /\ Goto(r, "insert")
    /\ UnchangedProducts /\ UnchangedWorld

CreateInsert(r) ==
    At(r, {"create"}, "insert") /\ Insert(r, requests[r].change = "set" \/ requests[r].was)

-----------------------------------------------------------------------------
\* Changing an office, and what its name is copied into.

UpdateLook(r) ==
    /\ At(r, {"update"}, "start")
    /\ LET q == requests[r] IN
       IF \/ ~Live(q.office)
          \/ q.office \in onTheWay
          \/ q.name # offices[q.office].name /\ NameTaken(q.name, {q.office})
       THEN Finish(r)
       ELSE requests' = [requests EXCEPT
                ![r].was = q.name # offices[q.office].name,
                ![r].at  = IF q.change = "set" THEN "clear" ELSE "write"]
    /\ UnchangedData /\ UnchangedWorld

UpdateClear(r) ==
    /\ At(r, {"update"}, "clear")
    /\ offices' = Cleared({requests[r].office})
    /\ Goto(r, "write")
    /\ UnchangedProducts /\ UnchangedWorld

UpdateWrite(r) ==
    /\ At(r, {"update"}, "write")
    /\ LET q == requests[r] IN
          /\ offices' = [offices EXCEPT ![q.office] = Changed(offices[q.office], q.name, q.change)]
          /\ IF q.was THEN Goto(r, "propagate") ELSE Finish(r)
    /\ UnchangedProducts /\ UnchangedWorld

\* One transaction over the products and the members collections, deleted
\* products included.
Renamed(o, name) ==
    [p \in Products |-> IF products[p].office = o
                        THEN [products[p] EXCEPT !.officeName = name] ELSE products[p]]
Propagate(r) ==
    /\ At(r, {"update"}, "propagate")
    /\ products' = Renamed(requests[r].office, requests[r].name)
    /\ Goto(r, "affected")
    /\ UNCHANGED <<offices, copies>> /\ UnchangedWorld

\* The products to copy are read together, find leaves out the deleted ones.
Affected(r) ==
    /\ At(r, {"update"}, "affected")
    /\ requests' = [requests EXCEPT ![r].at = "sync",
           ![r].read = products, ![r].todo = In(requests[r].office)]
    /\ UnchangedData /\ UnchangedWorld

\* The copies are written one by one from what was read; a copy that is written
\* this way is never marked as deleted.
SyncAffected(r) ==
    /\ At(r, {"update"}, "sync")
    /\ LET q == requests[r] IN
       \/ /\ q.todo = {}
          /\ Finish(r)
          /\ UnchangedData
       \/ \E p \in q.todo :
             /\ copies' = [copies EXCEPT ![p] = [q.read[p] EXCEPT !.isDeleted = FALSE]]
             /\ requests' = [requests EXCEPT ![r].todo = q.todo \ {p}]
             /\ UNCHANGED <<offices, products>>
    /\ UnchangedWorld

ToggleLook(r) ==
    /\ At(r, {"toggle"}, "start")
    /\ IF Live(requests[r].office) THEN Goto(r, "clear") ELSE Finish(r)
    /\ UnchangedData /\ UnchangedWorld

ToggleClear(r) ==
    /\ At(r, {"toggle"}, "clear")
    /\ offices' = Cleared({})
    /\ Goto(r, "write")
    /\ UnchangedProducts /\ UnchangedWorld

ToggleWrite(r) ==
    /\ At(r, {"toggle"}, "write")
    /\ offices' = [offices EXCEPT ![requests[r].office].isDefault = TRUE]
    /\ Finish(r)
    /\ UnchangedProducts /\ UnchangedWorld

-----------------------------------------------------------------------------
\* Deleting an office: the products that need not be given back go first.

\* Mutant: products that must be given back do not stop a deletion.
BlocksNever(o) == FALSE
Blocks(o)      == In(o) \cap Recoverable # {}

DeleteLook(r) ==
    /\ At(r, {"delete"}, "start")
    /\ LET o == requests[r].office IN
       IF ~Live(o) \/ Blocks(o) THEN Finish(r)
       ELSE requests' = [requests EXCEPT ![r].at = "destroy",
                ![r].was = offices[o].isDefault, ![r].todo = In(o) \ Recoverable]
    /\ UnchangedData /\ UnchangedWorld

\* Each of them is marked as deleted, and then its copy is.
Destroy(r) ==
    /\ At(r, {"delete"}, "destroy")
    /\ IF requests[r].todo = {}
       THEN Goto(r, "check") /\ UNCHANGED products
       ELSE \E p \in requests[r].todo :
               /\ products' = [products EXCEPT ![p].isDeleted = TRUE]
               /\ requests' = [requests EXCEPT ![r].at = "mark", ![r].todo = @ \ {p},
                                   ![r].read = [@ EXCEPT ![p] = products'[p]]]
    /\ UNCHANGED <<offices, copies>> /\ UnchangedWorld

\* Mutant: the copy of a destroyed product is forgotten.
MarkNot(r) ==
    /\ At(r, {"delete"}, "mark")
    /\ Goto(r, "destroy")
    /\ UnchangedData /\ UnchangedWorld

Mark(r) ==
    /\ At(r, {"delete"}, "mark")
    /\ \E p \in Products :
          /\ requests[r].read[p].isDeleted /\ ~copies[p].isDeleted
          /\ copies' = [copies EXCEPT ![p].isDeleted = TRUE]
    /\ Goto(r, "destroy")
    /\ UNCHANGED <<offices, products>> /\ UnchangedWorld

\* Only now is the office asked for active shipments.
DeleteCheck(r) ==
    /\ At(r, {"delete"}, "check")
    /\ IF requests[r].office \in shipping
       THEN Finish(r) /\ refused' = refused \cup {requests[r].office}
       ELSE Goto(r, "write") /\ UNCHANGED refused
    /\ UnchangedData /\ UNCHANGED <<shipping, onTheWay, crashed, bypassed, traffic>>

DeleteWrite(r) ==
    /\ At(r, {"delete"}, "write")
    /\ offices' = [offices EXCEPT ![requests[r].office].status = "deleted",
                                  ![requests[r].office].isDefault = FALSE]
    /\ IF requests[r].was THEN Goto(r, "ensure") ELSE Finish(r)
    /\ UnchangedProducts /\ UnchangedWorld

\* Mutant: no office takes over.
EnsureNobody(r) ==
    /\ At(r, {"delete"}, "ensure")
    /\ Finish(r)
    /\ UnchangedData /\ UnchangedWorld

EnsureLook(r) ==
    /\ At(r, {"delete"}, "ensure")
    /\ LET others == LiveOffices \ {requests[r].office} IN
       IF Defaults \ {requests[r].office} # {} \/ others = {} THEN Finish(r)
       ELSE \E o \in others :
               requests' = [requests EXCEPT ![r].at = "promote", ![r].office = o]
    /\ UnchangedData /\ UnchangedWorld

EnsureWrite(r) ==
    /\ At(r, {"delete"}, "promote")
    /\ offices' = [offices EXCEPT ![requests[r].office].isDefault = TRUE]
    /\ Finish(r)
    /\ UnchangedProducts /\ UnchangedWorld

-----------------------------------------------------------------------------
\* The rest of the platform, and crashes. Requests that arrive alone have the
\* tenant to themselves; those that arrive together are asked about the offices
\* only, so that no product and no shipment is needed.

Undisturbed == traffic = "alone" /\ Quiet

\* A product is put into a live office: it takes the name of the office along,
\* and its copy follows.
ProductArrives ==
    /\ Undisturbed
    /\ \E p \in Products, o \in LiveOffices :
          /\ products[p].office = None /\ ~products[p].isDeleted
          /\ products' = [products EXCEPT ![p].office = o, ![p].officeName = offices[o].name]
          /\ copies' = [copies EXCEPT ![p] = products'[p]]
    /\ UNCHANGED <<offices, requests>> /\ UnchangedWorld

ShipmentStarts ==
    /\ Undisturbed
    /\ \E o \in LiveOffices :
          /\ shipping = {}        \* bound: one office with shipments at a time
          /\ shipping' = {o}
          /\ onTheWay' \in {{}, {o}}
    /\ UnchangedData /\ UNCHANGED <<requests, crashed, refused, bypassed, traffic>>

ShipmentEnds ==
    /\ Undisturbed
    /\ \E o \in shipping :
          /\ shipping' = shipping \ {o}
          /\ onTheWay' = onTheWay \ {o}
    /\ UnchangedData /\ UNCHANGED <<requests, crashed, refused, bypassed, traffic>>

Crash(r) ==
    /\ Busy(r) /\ traffic = "alone" /\ ~crashed     \* bound: one crash
    /\ Finish(r)
    /\ crashed' = TRUE
    /\ UnchangedData /\ UNCHANGED <<shipping, onTheWay, refused, bypassed, traffic>>

Step(r) ==
    \/ SetupLook(r) \/ SetupInsert(r) \/ TenantLook(r)
    \/ UpdateDefaultLook(r) \/ UpdateDefaultInsert(r) \/ UpdateDefaultWrite(r)
    \/ CsvLook(r) \/ CreateLook(r) \/ CreateClear(r) \/ CreateInsert(r)
    \/ UpdateLook(r) \/ UpdateClear(r) \/ UpdateWrite(r)
    \/ Propagate(r) \/ Affected(r) \/ SyncAffected(r)
    \/ ToggleLook(r) \/ ToggleClear(r) \/ ToggleWrite(r)
    \/ DeleteLook(r) \/ Destroy(r) \/ Mark(r) \/ DeleteCheck(r) \/ DeleteWrite(r)
    \/ EnsureLook(r) \/ EnsureWrite(r)

Next ==
    \/ \E r \in Requests : Arrive(r) \/ Step(r) \/ Crash(r)
    \/ ProductArrives \/ ShipmentStarts \/ ShipmentEnds

Spec == Init /\ [][Next]_vars

-----------------------------------------------------------------------------
\* Properties.

\* Every variable keeps its shape.
TypeOK ==
    /\ offices \in [Offices -> Office]
    /\ products \in [Products -> Product]
    /\ copies \in [Products -> Product]
    /\ shipping \subseteq Offices /\ onTheWay \subseteq shipping
    /\ refused \subseteq Offices /\ bypassed \subseteq Offices
    /\ requests \in [Requests -> Request]
    /\ crashed \in BOOLEAN /\ traffic \in {"alone", "together"}

\* While requests come one after the other there is at most one default office
\* and it is a live one, at every moment, crashes included: whoever sets the
\* flag has cleared it everywhere before.
OneLiveDefault ==
    traffic = "alone" =>
        \A o, q \in Offices : offices[o].isDefault /\ offices[q].isDefault =>
                                  o = q /\ Live(o)

\* When no request is in flight and none has died, a tenant that has offices has
\* a default one, also when the requests before overlapped: the flag is cleared
\* only by a request that sets it later, or hands it on.
DefaultWhenSettled ==
    ~crashed /\ Quiet /\ LiveOffices # {} => Defaults # {}

\* Two live offices never share a name and country. Setting up the default
\* office does not look for the name; it is saved by there being no other
\* office when there is no default one.
UniqueNames ==
    traffic = "alone" /\ ~crashed =>
        \A o, q \in LiveOffices : offices[o].name = offices[q].name => o = q

\* No product that is not deleted is left in a deleted office, even when the
\* process dies in the middle of the deletion.
NobodyLeftBehind ==
    traffic = "alone" =>
        \A p \in Products : \A o \in Offices :
            offices[o].status = "deleted" => p \notin In(o)

\* The products a deletion destroys go with the office, unless the deletion was
\* refused because of an active shipment, which is asked for too late.
DestroyedWithOffice ==
    traffic = "alone" /\ Quiet /\ ~crashed =>
        \A p \in Products : products[p].isDeleted =>
            /\ p \notin Recoverable
            /\ \/ offices[products[p].office].status = "deleted"
               \/ products[p].office \in refused

\* What the global collection says of a product's office is what the product
\* says, once the requests have ended; deleted products are deleted there too.
CopiesAgree ==
    traffic = "alone" /\ Quiet /\ ~crashed =>
        \A p \in Products : products[p].isDeleted = copies[p].isDeleted /\
            (~products[p].isDeleted => copies[p] = products[p])

\* A product carries the present name of its office, once the requests have
\* ended, unless the office was renamed by the route of the default office, which
\* does not pass the name on.
NamesArrive ==
    traffic = "alone" /\ Quiet /\ ~crashed =>
        \A o \in LiveOffices \ bypassed : \A p \in In(o) :
            products[p].officeName = offices[o].name

\* The offices of a tenant fit together: names differ, there is one default
\* office, a live one, and there is one whenever all is settled.
OfficesFit == TypeOK /\ OneLiveDefault /\ DefaultWhenSettled /\ UniqueNames

\* The deletion of an office leaves no product in it, and destroys none without it,
\* although it asks for active shipments only after it has destroyed some.
DeletionsWhole == NobodyLeftBehind /\ DestroyedWithOffice

\* What products and their copies say of an office is what the office says.
OfficesAgree == CopiesAgree /\ NamesArrive

=============================================================================
