------------------------------ MODULE Placement ------------------------------
(***************************************************************************)
(* Where a product is said to be: its location, the office or the FP       *)
(* warehouse written into it, whom or what it was last assigned to, and    *)
(* the same in its copy in the global collection. A product that goes to   *)
(* the FP warehouse gets a warehouse of the country it comes from, and the *)
(* name of that warehouse, which later renamings bring up to date in the   *)
(* copies and in every tenant. From assignments.service.ts,                *)
(* last-assigned.helper.ts and src/src/warehouses/services.                *)
(*                                                                         *)
(* Moves come one after the other here: Catalog has those that overlap,    *)
(* Shipments what a shipment does meanwhile, Warehouses how a warehouse    *)
(* comes to be active.                                                     *)
(***************************************************************************)
EXTENDS Naturals, FiniteSets

CONSTANTS
    Products, Tenants,
    Staying,         \* products that are in the FP warehouse from the start, and stay
    Members, Offices,
    GoneOffices,    \* deleted offices, which a body may still name
    Countries,
    Argentina,      \* the country of what comes from nowhere in particular
    None, Text,     \* nothing; a text that tells a warehouse or an office
    TenantOf,       \* of every product
    CountryOf,      \* of every member, who may have none, and of every office
    Default         \* the default office, if there is one

VARIABLES
    products,    \* the documents of the tenants
    copies,      \* the documents of the global collection
    warehouses,  \* the warehouses of every country
    move,        \* what the request for a product is doing
    news,        \* new names that are spreading
    lost,        \* products of which a copy was not written
    missed,      \* warehouses of which a new name was not told
    crossed,     \* products to which a name was copied after it had changed
    edited,      \* products edited after a shipment brought them in
    from         \* the country a product came to the FP warehouse from

vars == <<products, copies, warehouses, move, news, lost, missed, crossed, edited, from>>

-----------------------------------------------------------------------------
\* Values.

Which == {"default", "partner"}
Names == 0..1      \* the first name, and a new one

Stock == [country : Countries, which : Which, name : Names, status : {"STORED", "IN_TRANSIT_IN"}]

Product ==
    [location : {"nowhere", "Employee", "FP warehouse", "Our office"},
     member : Members \cup {None}, office : Offices \cup {None},
     stock : Stock \cup {None}, last : Members \cup {None, Text}, shipped : BOOLEAN]

Copy == [location : {"nowhere", "Employee", "FP warehouse", "Our office"},
         office : Offices \cup {None}, stock : Stock \cup {None}]

Nowhere == [location |-> "nowhere", member |-> None, office |-> None,
            stock |-> None, last |-> None, shipped |-> FALSE]

Resting == [at |-> "none"]

Here(p, location) == products[p].location = location

-----------------------------------------------------------------------------
\* The warehouse of a country.

\* An unknown country is given its default warehouse.
Opened(c) ==
    IF warehouses[c].known THEN warehouses
    ELSE [warehouses EXCEPT ![c].known = TRUE, ![c].listed = {"default"}]

\* The active one, else the default one, else any that is not deleted.
Chosen(c) ==
    LET w == Opened(c)[c] IN
    IF w.active # {} THEN w.active ELSE IF "default" \in w.listed THEN {"default"} ELSE w.listed

\* What is written into a product that goes there, on its way or at once.
Assigned(c, shipped) ==
    IF Chosen(c) = {} THEN {None}
    ELSE {[country |-> c, which |-> w, name |-> warehouses[c].name[w],
           status |-> IF shipped THEN "IN_TRANSIT_IN" ELSE "STORED"] : w \in Chosen(c)}

\* getMemberOriginCountry.
MemberCountry(who) == IF who \in Members THEN CountryOf[who] ELSE None

FirstKnown(s) ==
    LET known == {i \in DOMAIN s : s[i] # None} IN
    IF known = {} THEN Argentina ELSE s[CHOOSE i \in known : \A j \in known : i <= j]

\* The country the warehouse of x is looked for in: that of its office, that of
\* the member given, that of whoever had it last, that of its member.
Origin(x, given) ==
    FirstKnown(<<IF x.location = "Our office" /\ x.office # None THEN CountryOf[x.office] ELSE None,
                 MemberCountry(given), MemberCountry(x.last), MemberCountry(x.member)>>)

-----------------------------------------------------------------------------
\* What a move makes of a product.

\* getOfficeInfoForLastAssigned.
OfficeTold(x) == x.office # None

\* calculateLastAssigned: whom or what x leaves, if that can be told.
Leaving(x, to) ==
    CASE x.location = "Employee"                           -> IF x.member # None THEN x.member ELSE x.last
      [] x.location = "FP warehouse" /\ to # "FP warehouse" -> IF x.stock # None THEN Text ELSE x.last
      [] x.location = "Our office" /\ OfficeTold(x)        -> Text
      [] OTHER                                             -> x.last

\* handleOfficeAssignment: the office of the body, if it is there, or else the
\* default one. Nothing can be moved to an office that is not told.
OfficesFor(office) ==
    IF office = None THEN {Default} \ {None}
    ELSE IF office \in Offices THEN {office} ELSE {None}

\* getLocationCleanupForUnset, and handleLocationObjectCleanup.
Cleared(x, to) ==
    CASE x.location = "FP warehouse" /\ to = "Our office" -> [x EXCEPT !.stock = None]
      [] x.location = "Our office" /\ to = "FP warehouse" -> [x EXCEPT !.office = None]
      [] OTHER                                            -> x

\* Within the pool: to another office, to an office, or to the FP warehouse.
\* An office that cannot be found is not written; there is no default here.
WithinPool(x, to, office, shipped) ==
    LET y == [Cleared(x, to) EXCEPT !.location = to, !.last = Leaving(x, to), !.shipped = shipped] IN
    IF to = "FP warehouse" THEN {[y EXCEPT !.stock = s] : s \in Assigned(Origin(x, None), shipped)}
    ELSE {IF office \in Offices THEN [y EXCEPT !.office = office] ELSE y}

\* From a member to the pool. The warehouse is looked for with what the member
\* had the product from, and only then with the member.
ToPool(x, to, office, shipped) ==
    LET y == [Nowhere EXCEPT !.location = to, !.last = Leaving(x, to), !.shipped = shipped]
        given == IF x.last # None THEN x.last ELSE x.member
    IN  IF to = "FP warehouse" THEN {[y EXCEPT !.stock = s] : s \in Assigned(Origin(y, given), shipped)}
        ELSE {[y EXCEPT !.office = o] : o \in OfficesFor(office)}

\* To a member, from the pool or from another member.
ToMember(x, m, shipped) ==
    {[Nowhere EXCEPT !.location = "Employee", !.member = m, !.last = Leaving(x, "Employee"), !.shipped = shipped]}

\* handleCSVWarehouseAssignment: a file names the country.
Imported(country) == Assigned(country, FALSE) \ {None}

\* A new product: with a member, in an office, or in an office or a warehouse a
\* file names. A form may leave out the office, and then there is none.
Created(to, m, office, country) ==
    CASE to = "Employee"     -> {[Nowhere EXCEPT !.location = to, !.member = m]}
      [] to = "FP warehouse" -> {[Nowhere EXCEPT !.location = to, !.stock = s] : s \in Imported(country)}
      [] to = "Our office"   -> {[Nowhere EXCEPT !.location = to, !.office = IF office \in Offices THEN office ELSE None]}

-----------------------------------------------------------------------------
\* The copy.

\* What the pool or a member says, but a place that is not told stays as it was
\* while the location is the same.
Copied(old, x) ==
    [location |-> x.location,
     stock |-> IF x.stock = None /\ x.location = "FP warehouse" THEN old.stock ELSE x.stock,
     office |-> IF x.office = None /\ x.location = "Our office" THEN old.office ELSE x.office]

\* A shipment arrived, or was cancelled: what the copy tells of the warehouse is
\* kept, or else taken from the product, and the product is in. The product
\* itself goes on saying that it is on its way.
CopiedOnArrival(old, x) ==
    LET told == IF old.stock # None THEN old.stock ELSE x.stock IN
    [Copied(old, x) EXCEPT
        !.stock = IF x.location # "FP warehouse" \/ told = None THEN x.stock
                  ELSE [told EXCEPT !.status = "STORED"],
        !.office = IF x.location = "Our office" THEN old.office ELSE None]

-----------------------------------------------------------------------------
\* Steps.

UnchangedGhosts == UNCHANGED <<lost, missed, crossed, edited>>

\* The request for p has found out what p becomes.
Decide(p, x, country) ==
    /\ move' = [at |-> "copy", product |-> p, becomes |-> x]
    /\ warehouses' = IF x.stock = None THEN warehouses ELSE Opened(x.stock.country)
    /\ from' = [from EXCEPT ![p] = country]
    /\ edited' = edited \ {p} /\ crossed' = crossed \ {p}
    /\ UNCHANGED <<products, copies, news, lost, missed>>

CreateProduct(p) ==
    /\ move = Resting /\ Here(p, "nowhere")
    /\ \E to \in {"Employee", "FP warehouse", "Our office"}, m \in Members,
          o \in Offices \cup {None}, c \in Countries :
          \E x \in Created(to, m, o, c) : Decide(p, x, c)

\* Bound: a product that is being shipped is not moved before it arrives.
MoveWithinPool(p) ==
    /\ move = Resting /\ ~products[p].shipped
    /\ \E to \in {"FP warehouse", "Our office"}, o \in Offices \cup GoneOffices \cup {None}, shipped \in BOOLEAN :
          /\ \/ Here(p, "Our office") /\ to = "FP warehouse"
             \/ Here(p, "FP warehouse") /\ to = "Our office"
             \/ Here(p, "Our office") /\ to = "Our office" /\ o \notin {None, products[p].office}
          /\ \E x \in WithinPool(products[p], to, o, shipped) :
                Decide(p, x, IF products[p].office = None THEN None ELSE CountryOf[products[p].office])

\* A product that its member had from another member is looked for in the
\* country of that one.
MoveToPool(p) ==
    /\ move = Resting /\ Here(p, "Employee") /\ ~products[p].shipped
    /\ \E to \in {"FP warehouse", "Our office"}, o \in Offices \cup GoneOffices \cup {None}, shipped \in BOOLEAN :
          \E x \in ToPool(products[p], to, o, shipped) :
              Decide(p, x, IF products[p].last \in Members THEN None ELSE CountryOf[products[p].member])

MoveToMember(p) ==
    /\ move = Resting /\ ~Here(p, "nowhere") /\ ~products[p].shipped
    /\ \E m \in Members \ {products[p].member}, shipped \in BOOLEAN :
          \E x \in ToMember(products[p], m, shipped) : Decide(p, x, None)

\* The copy is written before the transaction is through. A failure is logged.
CopyMove ==
    /\ move.at = "copy"
    /\ \/ /\ copies' = [copies EXCEPT ![move.product] = Copied(@, move.becomes)]
          /\ UNCHANGED lost
       \/ /\ lost = {}        \* bound: one failure
          /\ lost' = lost \cup {move.product}
          /\ UNCHANGED copies
    /\ move' = [move EXCEPT !.at = "commit"]
    /\ UNCHANGED <<products, warehouses, news, missed, crossed, edited, from>>

\* Then the copy of a product that is shipped within the pool is written once
\* more, unless the body names another action.
CommitMove ==
    /\ move.at = "commit"
    /\ LET p == move.product x == move.becomes IN
       /\ products' = [products EXCEPT ![p] = x]
       /\ \/ UNCHANGED copies
          \/ /\ x.shipped /\ x.location # "Employee" /\ ~Here(p, "Employee")
             /\ copies' = [copies EXCEPT ![p] = Copied(@, x)]
    /\ move' = Resting
    /\ UNCHANGED <<warehouses, news, from>> /\ UnchangedGhosts

Arrive(p) ==
    /\ move = Resting /\ products[p].shipped
    /\ products' = [products EXCEPT ![p].shipped = FALSE]
    /\ copies' = [copies EXCEPT ![p] = CopiedOnArrival(@, products[p])]
    /\ UNCHANGED <<warehouses, move, news, from>> /\ UnchangedGhosts

In(x, n) == x.location = "FP warehouse" /\ x.stock # None /\ x.stock.country = n.country /\ x.stock.which = n.which

\* Anything else about the product changes, and the copy is written anew, with
\* the old name if the new one has not come to the product.
Edit(p) ==
    /\ move = Resting /\ ~Here(p, "nowhere")
    /\ copies' = [copies EXCEPT ![p] = Copied(@, products[p])]
    /\ edited' = edited \cup {p}
    /\ crossed' = IF \E n \in news : In(products[p], n) THEN crossed \cup {p} ELSE crossed
    /\ UNCHANGED <<products, warehouses, move, news, lost, missed, from>>

-----------------------------------------------------------------------------
\* Warehouses.

\* Bound: one new name. It does not come to a product that is on its way there.
NewName(c, w) ==
    /\ w \in warehouses[c].listed
    /\ \A x \in Countries, y \in Which : warehouses[x].name[y] = 0
    /\ warehouses' = [warehouses EXCEPT ![c].name[w] = 1]
    /\ crossed' = IF move # Resting /\ In(move.becomes, [country |-> c, which |-> w])
                  THEN crossed \cup {move.product} ELSE crossed
    /\ UNCHANGED <<products, copies, move, lost, edited, from>>

\* updateWarehouseData saves the name and emits an event, which it does not
\* wait for.
Rename(c, w) ==
    /\ NewName(c, w)
    /\ news' = news \cup {[country |-> c, which |-> w, name |-> 1, at |-> "copies", tenants |-> {}]}
    /\ UNCHANGED missed

\* updateWarehouse saves the name and tells nobody.
RenameSilently(c, w) ==
    /\ NewName(c, w)
    /\ missed' = missed \cup {<<c, w>>}
    /\ UNCHANGED news

\* The copies first; they tell which tenants have products in the warehouse.
SpreadToCopies(n) ==
    /\ n.at = "copies"
    /\ copies' = [p \in Products |-> IF In(copies[p], n) THEN [copies[p] EXCEPT !.stock.name = n.name] ELSE copies[p]]
    /\ news' = (news \ {n}) \cup
           {[n EXCEPT !.at = "tenants", !.tenants = {TenantOf[p] : p \in {q \in Products : In(copies[q], n)}}]}
    /\ UNCHANGED <<products, warehouses, move, from>> /\ UnchangedGhosts

\* Mutant: only the first tenant is told.
LeftToTellNone(n, t) == {}
LeftToTell(n, t) == n.tenants \ {t}

\* Then one tenant after the other; a transaction in progress is waited for.
SpreadToTenant(n) ==
    /\ n.at = "tenants"
    /\ \/ n.tenants = {} /\ news' = news \ {n} /\ UNCHANGED products
       \/ \E t \in n.tenants :
             /\ move.at # "none" => TenantOf[move.product] # t
             /\ products' = [p \in Products |->
                    IF TenantOf[p] = t /\ In(products[p], n) THEN [products[p] EXCEPT !.stock.name = n.name]
                    ELSE products[p]]
             /\ news' = (news \ {n}) \cup
                    IF LeftToTell(n, t) = {} THEN {} ELSE {[n EXCEPT !.tenants = LeftToTell(n, t)]}
    /\ UNCHANGED <<copies, warehouses, move, from>> /\ UnchangedGhosts

\* A warehouse with data of its own takes over, or no longer does.
Toggle(c) ==
    /\ "partner" \in warehouses[c].listed
    /\ warehouses' = [warehouses EXCEPT ![c].active = IF @ = {} THEN {"partner"} ELSE {}]
    /\ UNCHANGED <<products, copies, move, news, from>> /\ UnchangedGhosts

\* The process ends: what was to be told is forgotten.
Crash ==
    /\ news # {} /\ lost = {}
    /\ news' = {} /\ move' = Resting
    /\ missed' = missed \cup {<<n.country, n.which>> : n \in news}
    /\ lost' = lost \cup (IF move = Resting THEN {} ELSE {move.product})
    /\ UNCHANGED <<products, copies, warehouses, crossed, edited, from>>

InArgentina == [country |-> Argentina, which |-> "default", name |-> 0, status |-> "STORED"]

Untouched == {[known |-> k, listed |-> l, active |-> {}, name |-> [w \in Which |-> 0]] :
                 k \in BOOLEAN, l \in {{}, {"default"}, Which}}

Init ==
    /\ products = [p \in Products |->
           IF p \in Staying THEN [Nowhere EXCEPT !.location = "FP warehouse", !.stock = InArgentina] ELSE Nowhere]
    /\ copies = [p \in Products |->
           [location |-> products[p].location, office |-> None, stock |-> products[p].stock]]
    /\ warehouses \in [Countries -> Untouched]
    /\ \A c \in Countries : warehouses[c].listed # {} => warehouses[c].known
    /\ Staying # {} => "default" \in warehouses[Argentina].listed
    /\ move = Resting /\ news = {}
    /\ lost = {} /\ missed = {} /\ crossed = {} /\ edited = {} /\ from = [p \in Products |-> None]

Next ==
    \/ \E p \in Products \ Staying :
          \/ CreateProduct(p) \/ MoveWithinPool(p) \/ MoveToPool(p) \/ MoveToMember(p)
          \/ Arrive(p) \/ Edit(p)
    \/ CopyMove \/ CommitMove
    \/ \E c \in Countries : Toggle(c) \/ \E w \in Which : Rename(c, w) \/ RenameSilently(c, w)
    \/ \E n \in news : SpreadToCopies(n) \/ SpreadToTenant(n)
    \/ Crash

Spec == Init /\ [][Next]_vars

-----------------------------------------------------------------------------
\* Properties.

\* Every variable keeps its shape.
TypeOK ==
    /\ products \in [Products -> Product] /\ copies \in [Products -> Copy]
    /\ lost \subseteq Products /\ crossed \subseteq Products /\ edited \subseteq Products
    /\ missed \subseteq Countries \X Which
    /\ from \in [Products -> Countries \cup {None}]

\* Only a product in an office names an office, and only one in the FP warehouse
\* a warehouse, however it came there: otherwise shipments start from a place
\* the product is not at.
OneCustodian ==
    \A p \in Products :
        /\ products[p].office # None => Here(p, "Our office")
        /\ products[p].stock # None => Here(p, "FP warehouse")

\* A product in the FP warehouse is in the country it came from: that of its
\* office or of its member. Exception: a member who had it from another member.
ComesFromThere ==
    \A p \in Products :
        products[p].stock # None /\ from[p] # None /\ move = Resting => products[p].stock.country = from[p]

\* Between moves a copy tells the place the product tells, unless it failed to
\* be written.
CopiesTell ==
    move = Resting =>
        \A p \in Products \ lost :
            /\ copies[p].location = products[p].location
            /\ copies[p].office = products[p].office
            /\ (copies[p].stock = None) = (products[p].stock = None)
            /\ products[p].stock # None =>
                   /\ copies[p].stock.country = products[p].stock.country
                   /\ copies[p].stock.which = products[p].stock.which

\* Once a new name has spread, product and copy tell the name the warehouse has.
\* Exceptions: the name was saved by updateWarehouse, or the process ended before
\* it had spread; the copy was not written; the product was on its way while the
\* name changed, or was edited while it spread.
NamesArrive ==
    move = Resting /\ news = {} =>
        \A p \in Products \ (lost \cup crossed) :
            LET s == products[p].stock IN
            s # None /\ <<s.country, s.which>> \notin missed =>
                /\ s.name = warehouses[s.country].name[s.which]
                /\ copies[p].stock.name = s.name

\* A copy says that a product is on its way to the warehouse only while it is,
\* unless the product was edited since.
TransitEnds ==
    move = Resting =>
        \A p \in Products \ (lost \cup edited) :
            copies[p].stock # None /\ copies[p].stock.status = "IN_TRANSIT_IN" => products[p].shipped

\* The place of a product fits the way it went, its copy and its warehouse.
PlacesFit == TypeOK /\ OneCustodian /\ ComesFromThere /\ CopiesTell /\ NamesArrive /\ TransitEnds

=============================================================================
