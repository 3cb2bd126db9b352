-------------------------- MODULE Placement_proofs --------------------------
(***************************************************************************)
(* What is proved of where products are said to be, and of what shipments  *)
(* say of them: for any products, members, offices and countries the place *)
(* of a product fits the way it went, its copy tells the same, and a new   *)
(* name of a warehouse arrives; and the snapshots a shipment keeps of its  *)
(* products tell what they are, whatever the listener and changes of       *)
(* status do meanwhile.                                                    *)
(***************************************************************************)
EXTENDS MCPlacement, FiniteSetTheorems, WellFoundedInduction, TLAPS

-----------------------------------------------------------------------------
\* Places: the inductive invariant.

Spot(x) ==
    /\ x \in Place!Product
    /\ x.office # None => x.location = "Our office"
    /\ x.stock # None => x.location = "FP warehouse"
    /\ x.location = "Employee" => x.member \in Members

Known == [known : BOOLEAN, listed : SUBSET Place!Which, active : SUBSET Place!Which, name : [Place!Which -> Place!Names]]

Shapes ==
    /\ DOMAIN products = Products /\ (\A p \in Products : Spot(products[p])) /\ copies \in [Products -> Place!Copy]
    /\ products \in [Products -> Place!Product]
    /\ lost \subseteq Products /\ crossed \subseteq Products /\ edited \subseteq Products
    /\ missed \subseteq Countries \X Place!Which
    /\ from \in [Products -> Countries \cup {None}] /\ warehouses \in [Countries -> Known]

\* A product in the FP warehouse of the country it came from, on its way only if it is shipped.
Named(w, s) == s.name = w[s.country].name[s.which]
CameFrom(s, whence) == s # None /\ whence # None => s.country = whence

\* What a request makes of a product: where it says too little, the product said nothing either.
MoveFits ==
    move = Place!Resting \/
      /\ DOMAIN move = {"at", "product", "becomes"}
      /\ move.at \in {"copy", "commit"} /\ move.product \in Products /\ Spot(move.becomes)
      /\ LET x == move.becomes
             old == products[move.product]
         IN  /\ CameFrom(x.stock, from[move.product])
             /\ x.stock # None => /\ move.product \notin crossed => Named(warehouses, x.stock)
                                  /\ x.stock.status = "IN_TRANSIT_IN" => x.shipped = TRUE
             /\ x.location = "FP warehouse" /\ x.stock = None => old.stock = None
             /\ x.location = "Our office" /\ x.office = None => old.office = None

\* What the copy of a product tells: the product itself, or what a request that has
\* written the copy is about to make of it.
CopyWritten(p) == move.at = "commit" /\ move.product = p
Told(p)    == IF CopyWritten(p) THEN move.becomes ELSE products[p]

Tells(c, x) ==
    /\ c.location = x.location /\ c.office = x.office
    /\ c.stock = None <=> x.stock = None
    /\ x.stock # None => c.stock.country = x.stock.country /\ c.stock.which = x.stock.which

About(n, s) == n.country = s.country /\ n.which = s.which

\* A new name that spreads has reached the copies first, and the tenants it is through with.
NewsFit ==
    /\ \A n, o \in news : n = o
    /\ \A n \in news :
          /\ DOMAIN n = {"country", "which", "name", "at", "tenants"}
          /\ n.country \in Countries /\ n.which \in Place!Which /\ n.at \in {"copies", "tenants"}
          /\ n.name = 1 /\ warehouses[n.country].name[n.which] = 1

NameFits(p) ==
    LET s == Told(p).stock
        c == copies[p].stock
    IN  s # None /\ <<s.country, s.which>> \notin missed =>
            /\ (\A n \in news : ~About(n, s)) => Named(warehouses, s) /\ c.name = s.name
            /\ \A n \in news : About(n, s) /\ n.at = "tenants" =>
                  c.name = n.name /\ (s.name = n.name \/ TenantOf[p] \in n.tenants)

TransitFits(p) ==
    copies[p].stock # None /\ copies[p].stock.status = "IN_TRANSIT_IN" => Told(p).shipped = TRUE

CopiesFit ==
    \A p \in Products \ lost :
        /\ Tells(copies[p], Told(p))
        /\ p \notin crossed => NameFits(p) \/ (move.at = "copy" /\ move.product = p)
        /\ p \notin edited => TransitFits(p) \/ (move.at = "copy" /\ move.product = p)

PlacesCameFrom == \A p \in Products : CameFrom(products[p].stock, from[p])

PlacesInv == Shapes /\ MoveFits /\ NewsFit /\ CopiesFit /\ PlacesCameFrom

-----------------------------------------------------------------------------
\* What the copy becomes.

LEMMA CopyOf ==
    ASSUME NEW old \in Place!Copy, NEW x, Spot(x)
    PROVE  /\ Place!Copied(old, x) \in Place!Copy
           /\ /\ x.location = "FP warehouse" /\ x.stock = None => old.stock = None
              /\ x.location = "Our office" /\ x.office = None => old.office = None
              => /\ Place!Copied(old, x).location = x.location /\ Place!Copied(old, x).stock = x.stock
                 /\ Place!Copied(old, x).office = x.office
BY DEF Spot, Place!Copied, Place!Copy, Place!Product

LEMMA CopyTells ==
    ASSUME NEW old \in Place!Copy, NEW x, Spot(x), Tells(old, x)
    PROVE  /\ Place!Copied(old, x).location = x.location /\ Place!Copied(old, x).stock = x.stock
           /\ Place!Copied(old, x).office = x.office
BY CopyOf DEF Tells

LEMMA ArrivalOf ==
    ASSUME NEW old \in Place!Copy, NEW x, Spot(x)
    PROVE  /\ Place!CopiedOnArrival(old, x) \in Place!Copy
           /\ Tells(old, x) =>
                /\ Tells(Place!CopiedOnArrival(old, x), x)
                /\ x.stock # None => /\ Place!CopiedOnArrival(old, x).stock.name = old.stock.name
                                     /\ Place!CopiedOnArrival(old, x).stock.status = "STORED"
<1> DEFINE told == IF old.stock # None THEN old.stock ELSE x.stock
           s == IF x.location # "FP warehouse" \/ told = None THEN x.stock ELSE [told EXCEPT !.status = "STORED"]
           o == IF x.location = "Our office" THEN old.office ELSE None
           c == Place!CopiedOnArrival(old, x)
<1>1. PICK k : k = Place!Copied(old, x)
  OBVIOUS
<1>2. told \in Place!Stock \cup {None}
  BY DEF Spot, Place!Product, Place!Copy
<1>3. told # None => /\ [told EXCEPT !.status = "STORED"] \in Place!Stock
                     /\ [told EXCEPT !.status = "STORED"].status = "STORED"
                     /\ [told EXCEPT !.status = "STORED"].name = told.name
                     /\ [told EXCEPT !.status = "STORED"].country = told.country
                     /\ [told EXCEPT !.status = "STORED"].which = told.which
  BY <1>2 DEF Place!Stock
<1>4. c.location = x.location /\ c.stock = s /\ c.office = o
  <2>1. k \in Place!Copy /\ k.location = x.location /\ c = [k EXCEPT !.stock = s, !.office = o]
    BY <1>1, CopyOf DEF Place!CopiedOnArrival, Place!Copied
  <2> HIDE DEF s, o, c
  <2> QED  BY <2>1 DEF Place!Copy
<1> HIDE DEF c, told
<1>5. s \in Place!Stock \cup {None} /\ o \in Offices \cup {None}
  BY <1>2, <1>3 DEF Spot, Place!Product, Place!Copy
<1>6. c \in Place!Copy
  <2>1. k \in Place!Copy /\ c = [k EXCEPT !.stock = s, !.office = o]
    BY <1>1, CopyOf DEF Place!CopiedOnArrival, c, told
  <2> HIDE DEF s, o
  <2> QED  BY <1>5, <2>1 DEF Place!Copy
<1>7. ASSUME Tells(old, x)
      PROVE  Tells(c, x) /\ (x.stock # None => c.stock.name = old.stock.name /\ c.stock.status = "STORED")
  <2>1. c.office = x.office
    BY <1>4, <1>7 DEF Tells, Spot
  <2>2. CASE x.stock = None
    BY <1>4, <1>7, <2>1, <2>2 DEF Tells, Spot, told
  <2>3. CASE x.stock # None
    <3>1. told = old.stock /\ told # None /\ x.location = "FP warehouse"
      BY <1>7, <2>3 DEF Tells, Spot, told
    <3>2. c.stock = [told EXCEPT !.status = "STORED"] /\ c.stock # None
      BY <1>3, <1>4, <3>1, PlaceConstants
    <3> QED  BY <1>3, <1>4, <1>7, <2>1, <3>1, <3>2 DEF Tells
  <2> QED  BY <2>2, <2>3
<1> QED  BY <1>6, <1>7 DEF c

-----------------------------------------------------------------------------
\* The country and the warehouse of a product.

LEMMA First ==
    ASSUME NEW a \in Countries \cup {None}, NEW b \in Countries \cup {None},
           NEW c \in Countries \cup {None}, NEW d \in Countries \cup {None}
    PROVE  /\ Place!FirstKnown(<<a, b, c, d>>) \in Countries
           /\ a # None => Place!FirstKnown(<<a, b, c, d>>) = a
           /\ a = None /\ b # None => Place!FirstKnown(<<a, b, c, d>>) = b
           /\ a = None /\ b = None /\ c # None => Place!FirstKnown(<<a, b, c, d>>) = c
<1> DEFINE s == <<a, b, c, d>>
           known == {i \in 1 .. 4 : s[i] # None}
<1>1. DOMAIN s = 1 .. 4 /\ s[1] = a /\ s[2] = b /\ s[3] = c /\ s[4] = d
  OBVIOUS
<1>2. Place!FirstKnown(s) = IF known = {} THEN Argentina ELSE s[CHOOSE i \in known : \A j \in known : i <= j]
  BY <1>1 DEF Place!FirstKnown
<1> HIDE DEF s
<1>3. ASSUME known # {}
      PROVE  \E i \in known : Place!FirstKnown(s) = s[i] /\ \A j \in known : i <= j
  <2>1. \E i \in known : \A j \in known : i <= j
    BY <1>1, <1>3
  <2> QED  BY <1>2, <1>3, <2>1
<1>4. CASE known = {}
  BY <1>1, <1>2, <1>4, PlaceConstants DEF s
<1>5. CASE known # {}
  <2>1. PICK i \in known : Place!FirstKnown(s) = s[i] /\ \A j \in known : i <= j
    BY <1>3, <1>5
  <2>2. i \in 1 .. 4 /\ s[i] # None /\ \A j \in 1 .. 4 : s[j] # None => i <= j
    BY <2>1
  <2>3. i = 1 \/ i = 2 \/ i = 3 \/ i = 4
    BY <2>2
  <2> QED  BY <1>1, <2>1, <2>2, <2>3 DEF s
<1> QED  BY <1>4, <1>5 DEF s

LEMMA Origins ==
    ASSUME NEW x, Spot(x), NEW given
    PROVE  LET c == Place!Origin(x, given) IN
           /\ c \in Countries
           /\ x.location = "Our office" /\ x.office # None /\ CountryOf[x.office] # None => c = CountryOf[x.office]
           /\ x.location # "Our office" /\ Place!MemberCountry(given) # None => c = Place!MemberCountry(given)
           /\ /\ x.location # "Our office" /\ Place!MemberCountry(given) = None
              /\ Place!MemberCountry(x.last) # None
              => c = Place!MemberCountry(x.last)
<1> DEFINE a == IF x.location = "Our office" /\ x.office # None THEN CountryOf[x.office] ELSE None
           M(who) == Place!MemberCountry(who)
<1>1. a \in Countries \cup {None} /\ \A who : M(who) \in Countries \cup {None}
  BY PlaceConstants DEF Spot, Place!Product, Place!MemberCountry
<1>2. Place!Origin(x, given) = Place!FirstKnown(<<a, M(given), M(x.last), M(x.member)>>)
  BY DEF Place!Origin
<1> HIDE DEF M, a
<1> DEFINE f == Place!FirstKnown(<<a, M(given), M(x.last), M(x.member)>>)
<1>3. /\ f \in Countries /\ (a # None => f = a) /\ (a = None /\ M(given) # None => f = M(given))
      /\ a = None /\ M(given) = None /\ M(x.last) # None => f = M(x.last)
  BY <1>1, First
<1> HIDE DEF f
<1> QED  BY <1>2, <1>3 DEF a, M, f

LEMMA AssignedFits ==
    ASSUME Shapes, NEW c \in Countries, NEW shipped \in BOOLEAN, NEW s \in Place!Assigned(c, shipped)
    PROVE  s = None \/
             /\ s \in Place!Stock /\ s # None /\ s.country = c /\ Named(warehouses, s)
             /\ s.status = "IN_TRANSIT_IN" => shipped = TRUE
<1>1. Place!Chosen(c) \subseteq Place!Which
  BY DEF Shapes, Known, Place!Chosen, Place!Opened, Place!Which
<1>2. CASE Place!Chosen(c) = {}
  BY <1>2 DEF Place!Assigned
<1>3. CASE Place!Chosen(c) # {}
  <2>1. PICK w \in Place!Chosen(c) :
          s = [country |-> c, which |-> w, name |-> warehouses[c].name[w],
               status |-> IF shipped THEN "IN_TRANSIT_IN" ELSE "STORED"]
    BY <1>3 DEF Place!Assigned
  <2>2. w \in Place!Which /\ warehouses[c].name[w] \in Place!Names
    BY <1>1 DEF Shapes, Known
  <2> QED  BY <2>1, <2>2, PlaceConstants DEF Place!Stock, Named
<1> QED  BY <1>2, <1>3


-----------------------------------------------------------------------------
\* What a request decides.

Decision(p, x, whence) ==
    /\ Spot(x) /\ whence \in Countries \cup {None} /\ CameFrom(x.stock, whence)
    /\ x.stock # None => Named(warehouses, x.stock) /\ (x.stock.status = "IN_TRANSIT_IN" => x.shipped = TRUE)
    /\ x.location = "FP warehouse" /\ x.stock = None => products[p].stock = None
    /\ x.location = "Our office" /\ x.office = None => products[p].office = None
    /\ products[p].stock # None => whence = None

LEMMA Leaves ==
    ASSUME NEW x, Spot(x), NEW to
    PROVE  /\ Place!Leaving(x, to) \in Members \cup {None, Text}
           /\ x.location = "Employee" => Place!Leaving(x, to) = x.member /\ x.member \in Members
BY PlaceConstants DEF Spot, Place!Product, Place!Leaving, Place!OfficeTold

LEMMA PoolDecision ==
    ASSUME Shapes, NEW p \in Products, NEW to \in {"FP warehouse", "Our office"},
           NEW o \in Offices \cup GoneOffices \cup {None}, NEW shipped \in BOOLEAN,
           \/ products[p].location = "Our office" /\ to = "FP warehouse"
           \/ products[p].location = "FP warehouse" /\ to = "Our office"
           \/ products[p].location = "Our office" /\ to = "Our office",
           NEW x \in Place!WithinPool(products[p], to, o, shipped)
    PROVE  Decision(p, x, IF products[p].office = None THEN None ELSE CountryOf[products[p].office])
<1> DEFINE old == products[p]
           last == Place!Leaving(old, to)
           y == [Place!Cleared(old, to) EXCEPT !.location = to, !.last = last, !.shipped = shipped]
           whence == IF old.office = None THEN None ELSE CountryOf[old.office]
<1>1. Spot(old) /\ last \in Members \cup {None, Text}
  BY Leaves DEF Shapes
<1>2. whence \in Countries \cup {None} /\ (old.stock # None => whence = None)
  BY <1>1, PlaceConstants DEF Spot, Place!Product
<1> HIDE DEF last
<1>3. /\ y \in Place!Product /\ y.location = to /\ y.shipped = shipped /\ y.stock = None
      /\ y.office = IF to = "FP warehouse" THEN None ELSE old.office
  BY <1>1 DEF Place!Cleared, Spot, Place!Product
<1>4. CASE to = "FP warehouse"
  <2>1. PICK s \in Place!Assigned(Place!Origin(old, None), shipped) : x = [y EXCEPT !.stock = s]
    BY <1>4 DEF Place!WithinPool, last
  <2>2. /\ Place!Origin(old, None) \in Countries
        /\ whence # None => Place!Origin(old, None) = whence
    BY <1>1, <1>4, Origins
  <2>3. s = None \/
          /\ s \in Place!Stock /\ s # None /\ s.country = Place!Origin(old, None) /\ Named(warehouses, s)
          /\ s.status = "IN_TRANSIT_IN" => shipped = TRUE
    BY <2>2, AssignedFits
  <2> HIDE DEF y, whence
  <2>4. /\ x \in Place!Product /\ x.location = to /\ x.stock = s /\ x.shipped = shipped /\ x.office = None
    BY <1>3, <1>4, <2>1, <2>3 DEF Place!Product
  <2>5. old.stock = None
    BY <1>1, <1>4 DEF Spot
  <2>6. Decision(p, x, whence)
    BY <1>2, <1>4, <2>2, <2>3, <2>4, <2>5 DEF Decision, Spot, CameFrom
  <2> QED  BY <2>6 DEF whence
<1>5. CASE to = "Our office"
  <2>1. x = IF o \in Offices THEN [y EXCEPT !.office = o] ELSE y
    BY <1>5 DEF Place!WithinPool, last
  <2> HIDE DEF y, whence
  <2>2. /\ x \in Place!Product /\ x.location = to /\ x.stock = None
        /\ x.office = None => old.office = None
    BY <1>3, <1>5, <2>1, PlaceConstants DEF Place!Product
  <2>3. Decision(p, x, whence)
    BY <1>2, <1>5, <2>2 DEF Decision, Spot, CameFrom
  <2> QED  BY <2>3 DEF whence
<1> QED  BY <1>4, <1>5

LEMMA NowhereFits ==
    /\ Place!Nowhere \in Place!Product /\ Place!Nowhere.office = None /\ Place!Nowhere.stock = None
    /\ Place!Nowhere.shipped = FALSE /\ Place!Nowhere.location = "nowhere"
BY DEF Place!Nowhere, Place!Product

LEMMA ReturnDecision ==
    ASSUME Shapes, NEW p \in Products, NEW to \in {"FP warehouse", "Our office"}, products[p].location = "Employee",
           NEW o \in Offices \cup GoneOffices \cup {None}, NEW shipped \in BOOLEAN,
           NEW x \in Place!ToPool(products[p], to, o, shipped)
    PROVE  Decision(p, x, IF products[p].last \in Members THEN None ELSE CountryOf[products[p].member])
<1> DEFINE old == products[p]
           last == Place!Leaving(old, to)
           y == [Place!Nowhere EXCEPT !.location = to, !.last = last, !.shipped = shipped]
           whence == IF old.last \in Members THEN None ELSE CountryOf[old.member]
           given == IF old.last # None THEN old.last ELSE old.member
<1>1. /\ Spot(old) /\ last = old.member /\ old.member \in Members /\ last \in Members
      /\ old.stock = None /\ old.office = None
  BY Leaves DEF Shapes, Spot
<1>2. whence \in Countries \cup {None}
  BY <1>1, PlaceConstants
<1> HIDE DEF last
<1>3. /\ y \in Place!Product /\ y.location = to /\ y.shipped = shipped /\ y.stock = None
      /\ y.office = None /\ y.last = last
  BY <1>1, NowhereFits DEF Place!Product
<1>4. CASE to = "FP warehouse"
  <2>1. PICK s \in Place!Assigned(Place!Origin(y, given), shipped) : x = [y EXCEPT !.stock = s]
    BY <1>4 DEF Place!ToPool, last
  <2> HIDE DEF y
  <2>2. /\ Place!Origin(y, given) \in Countries
        /\ whence # None => Place!Origin(y, given) = whence
    <3>1. Spot(y)
      BY <1>3, <1>4 DEF Spot
    <3>2. whence # None => Place!MemberCountry(given) \in {None, whence} /\ Place!MemberCountry(y.last) = whence
      BY <1>1, <1>3, PlaceConstants DEF Place!MemberCountry, Spot, Place!Product
    <3> HIDE DEF given, whence
    <3> QED  BY <1>3, <1>4, <3>1, <3>2, Origins
  <2>3. s = None \/
          /\ s \in Place!Stock /\ s # None /\ s.country = Place!Origin(y, given) /\ Named(warehouses, s)
          /\ s.status = "IN_TRANSIT_IN" => shipped = TRUE
    BY <2>2, AssignedFits
  <2> HIDE DEF whence
  <2>4. /\ x \in Place!Product /\ x.location = to /\ x.stock = s /\ x.shipped = shipped /\ x.office = None
    BY <1>3, <1>4, <2>1, <2>3 DEF Place!Product
  <2>5. Decision(p, x, whence)
    BY <1>1, <1>2, <1>4, <2>2, <2>3, <2>4 DEF Decision, Spot, CameFrom
  <2> QED  BY <2>5 DEF whence
<1>5. CASE to = "Our office"
  <2>1. PICK off \in Place!OfficesFor(o) : x = [y EXCEPT !.office = off]
    BY <1>5 DEF Place!ToPool, last
  <2>2. off \in Offices \cup {None}
    BY PlaceConstants DEF Place!OfficesFor
  <2> HIDE DEF y, whence
  <2>3. x \in Place!Product /\ x.location = to /\ x.stock = None
    BY <1>3, <1>5, <2>1, <2>2 DEF Place!Product
  <2>4. Decision(p, x, whence)
    BY <1>1, <1>2, <1>5, <2>3 DEF Decision, Spot, CameFrom
  <2> QED  BY <2>4 DEF whence
<1> QED  BY <1>4, <1>5

LEMMA MemberDecision ==
    ASSUME Shapes, NEW p \in Products, NEW m \in Members, NEW shipped \in BOOLEAN,
           NEW x \in Place!ToMember(products[p], m, shipped)
    PROVE  Decision(p, x, None)
<1> DEFINE last == Place!Leaving(products[p], "Employee")
<1>1. last \in Members \cup {None, Text}
  BY Leaves DEF Shapes
<1>2. x = [Place!Nowhere EXCEPT !.location = "Employee", !.member = m, !.last = last, !.shipped = shipped]
  BY DEF Place!ToMember
<1> HIDE DEF last
<1>3. x \in Place!Product /\ x.location = "Employee" /\ x.member = m /\ x.stock = None /\ x.office = None
  BY <1>1, <1>2, NowhereFits DEF Place!Product
<1> QED  BY <1>3 DEF Decision, Spot, CameFrom

LEMMA NewDecision ==
    ASSUME Shapes, NEW p \in Products, products[p].location = "nowhere",
           NEW to \in {"Employee", "FP warehouse", "Our office"}, NEW m \in Members,
           NEW o \in Offices \cup {None}, NEW c \in Countries, NEW x \in Place!Created(to, m, o, c)
    PROVE  Decision(p, x, c)
<1>1. products[p].stock = None /\ products[p].office = None
  BY DEF Shapes, Spot
<1>2. CASE to = "Employee"
  <2>1. x = [Place!Nowhere EXCEPT !.location = to, !.member = m]
    BY <1>2 DEF Place!Created
  <2>2. x \in Place!Product /\ x.location = "Employee" /\ x.member = m /\ x.stock = None /\ x.office = None
    BY <1>2, <2>1, NowhereFits DEF Place!Product
  <2> QED  BY <1>1, <2>2 DEF Decision, Spot, CameFrom
<1>3. CASE to = "FP warehouse"
  <2>1. PICK s \in Place!Assigned(c, FALSE) : x = [Place!Nowhere EXCEPT !.location = to, !.stock = s] /\ s # None
    BY <1>3 DEF Place!Created, Place!Imported
  <2>2. s \in Place!Stock /\ s.country = c /\ Named(warehouses, s) /\ s.status # "IN_TRANSIT_IN"
    BY <2>1, AssignedFits
  <2>3. x \in Place!Product /\ x.location = "FP warehouse" /\ x.stock = s /\ x.office = None
    BY <1>3, <2>1, <2>2, NowhereFits DEF Place!Product
  <2> QED  BY <1>1, <2>1, <2>2, <2>3 DEF Decision, Spot, CameFrom
<1>4. CASE to = "Our office"
  <2>1. PICK off \in Offices \cup {None} : x = [Place!Nowhere EXCEPT !.location = to, !.office = off]
    BY <1>4 DEF Place!Created
  <2>2. x \in Place!Product /\ x.location = "Our office" /\ x.stock = None
    BY <1>4, <2>1, NowhereFits DEF Place!Product
  <2> QED  BY <1>1, <2>2 DEF Decision, Spot, CameFrom
<1> QED  BY <1>2, <1>3, <1>4


-----------------------------------------------------------------------------
\* The steps of a move.

LEMMA RestingIs ==
    /\ Place!Resting.at = "none"
    /\ \A k : k = Place!Resting => k.at \notin {"copy", "commit"}
BY DEF Place!Resting

LEMMA Decided ==
    ASSUME PlacesInv, move = Place!Resting, NEW p \in Products, NEW x, NEW whence,
           Decision(p, x, whence), Place!Decide(p, x, whence)
    PROVE  PlacesInv'
<1>1. /\ move' = [at |-> "copy", product |-> p, becomes |-> x]
      /\ UNCHANGED <<products, copies, news, lost, missed>>
      /\ from' = [from EXCEPT ![p] = whence] /\ edited' = edited \ {p} /\ crossed' = crossed \ {p}
      /\ warehouses' = IF x.stock = None THEN warehouses ELSE Place!Opened(x.stock.country)
  BY DEF Place!Decide
<1>2. /\ move'.at = "copy" /\ move'.product = p /\ move'.becomes = x
  BY <1>1
<1>3. warehouses' \in [Countries -> Known] /\ \A c \in Countries : warehouses'[c].name = warehouses[c].name
  <2>1. CASE x.stock = None
    BY <1>1, <2>1 DEF PlacesInv, Shapes
  <2>2. CASE x.stock # None
    <3>1. PICK c : c = x.stock.country
      OBVIOUS
    <3>2. c \in Countries
      BY <2>2, <3>1 DEF Decision, Spot, Place!Product, Place!Stock
    <3>3. warehouses' = Place!Opened(c)
      BY <1>1, <2>2, <3>1
    <3> QED  BY <3>2, <3>3 DEF PlacesInv, Shapes, Known, Place!Opened, Place!Which
  <2> QED  BY <2>1, <2>2
<1>4. \A q \in Products : ~CopyWritten(q) /\ ~CopyWritten(q)' /\ Told(q) = products[q] /\ Told(q)' = products[q]
  BY <1>1, <1>2, RestingIs DEF CopyWritten, Told
<1>5. \A s \in Place!Stock : Named(warehouses', s) <=> Named(warehouses, s)
  BY <1>3 DEF Named, Place!Stock
<1>6. /\ from' \in [Products -> Countries \cup {None}] /\ from'[p] = whence
      /\ \A q \in Products \ {p} : from'[q] = from[q]
  BY <1>1 DEF PlacesInv, Shapes, Decision
<1>7. Shapes'
  BY <1>1, <1>3, <1>6 DEF PlacesInv, Shapes, Spot
<1>8. MoveFits'
  <2>1. x.stock # None => x.stock \in Place!Stock
    BY DEF Decision, Spot, Place!Product
  <2>2. x.stock # None => Named(warehouses', x.stock)
    BY <1>5, <2>1 DEF Decision
  <2> QED  BY <1>1, <1>2, <1>6, <2>2 DEF MoveFits, Decision, Spot, CameFrom, Named
<1>9. NewsFit'
  BY <1>1, <1>3 DEF PlacesInv, NewsFit
<1>10. CopiesFit'
  <2>1. ASSUME NEW q \in Products \ lost, q \notin crossed, q # p PROVE NameFits(q)'
    <3>1. NameFits(q) /\ Spot(products[q])
      BY <2>1, RestingIs DEF PlacesInv, CopiesFit, Shapes
    <3>2. products[q].stock # None => products[q].stock \in Place!Stock
      BY <3>1 DEF Spot, Place!Product
    <3>3. products[q].stock # None => (Named(warehouses', products[q].stock) <=> Named(warehouses, products[q].stock))
      BY <1>5, <3>2
    <3> QED  BY <1>1, <1>4, <3>1, <3>3 DEF NameFits, Named, About
  <2> QED  BY <1>1, <1>2, <1>4, <2>1, RestingIs DEF PlacesInv, CopiesFit, Tells, TransitFits
<1>11. PlacesCameFrom'
  BY <1>1, <1>6 DEF PlacesInv, PlacesCameFrom, CameFrom, Decision
<1> QED  BY <1>7, <1>8, <1>9, <1>10, <1>11 DEF PlacesInv

LEMMA MovesDecided ==
    ASSUME PlacesInv, NEW p \in Products,
           Place!CreateProduct(p) \/ Place!MoveWithinPool(p) \/ Place!MoveToPool(p) \/ Place!MoveToMember(p)
    PROVE  PlacesInv'
<1>1. Shapes
  BY DEF PlacesInv
<1>2. CASE Place!CreateProduct(p)
  <2>1. PICK to \in {"Employee", "FP warehouse", "Our office"}, m \in Members, o \in Offices \cup {None}, c \in Countries :
          \E x \in Place!Created(to, m, o, c) : Place!Decide(p, x, c)
    BY <1>2 DEF Place!CreateProduct
  <2>2. PICK x \in Place!Created(to, m, o, c) : Place!Decide(p, x, c)
    BY <2>1
  <2> QED  BY <1>1, <1>2, <2>2, NewDecision, Decided DEF Place!CreateProduct, Place!Here
<1>3. CASE Place!MoveWithinPool(p)
  <2>1. PICK to \in {"FP warehouse", "Our office"}, o \in Offices \cup GoneOffices \cup {None}, shipped \in BOOLEAN :
          /\ \/ products[p].location = "Our office" /\ to = "FP warehouse"
             \/ products[p].location = "FP warehouse" /\ to = "Our office"
             \/ products[p].location = "Our office" /\ to = "Our office"
          /\ \E x \in Place!WithinPool(products[p], to, o, shipped) :
                Place!Decide(p, x, IF products[p].office = None THEN None ELSE CountryOf[products[p].office])
    BY <1>3 DEF Place!MoveWithinPool, Place!Here
  <2>2. PICK x \in Place!WithinPool(products[p], to, o, shipped) :
          Place!Decide(p, x, IF products[p].office = None THEN None ELSE CountryOf[products[p].office])
    BY <2>1
  <2>3. Decision(p, x, IF products[p].office = None THEN None ELSE CountryOf[products[p].office])
    BY <1>1, <2>1, <2>2, PoolDecision
  <2> QED  BY <1>3, <2>2, <2>3, Decided DEF Place!MoveWithinPool
<1>4. CASE Place!MoveToPool(p)
  <2>1. PICK to \in {"FP warehouse", "Our office"}, o \in Offices \cup GoneOffices \cup {None}, shipped \in BOOLEAN :
          \E x \in Place!ToPool(products[p], to, o, shipped) :
             Place!Decide(p, x, IF products[p].last \in Members THEN None ELSE CountryOf[products[p].member])
    BY <1>4 DEF Place!MoveToPool
  <2>2. PICK x \in Place!ToPool(products[p], to, o, shipped) :
             Place!Decide(p, x, IF products[p].last \in Members THEN None ELSE CountryOf[products[p].member])
    BY <2>1
  <2>3. Decision(p, x, IF products[p].last \in Members THEN None ELSE CountryOf[products[p].member])
    BY <1>1, <1>4, <2>2, ReturnDecision DEF Place!MoveToPool, Place!Here
  <2> QED  BY <1>4, <2>2, <2>3, Decided DEF Place!MoveToPool
<1>5. CASE Place!MoveToMember(p)
  <2>1. PICK m \in Members, shipped \in BOOLEAN :
          \E x \in Place!ToMember(products[p], m, shipped) : Place!Decide(p, x, None)
    BY <1>5 DEF Place!MoveToMember
  <2>2. PICK x \in Place!ToMember(products[p], m, shipped) : Place!Decide(p, x, None)
    BY <2>1
  <2> QED  BY <1>1, <1>5, <2>2, MemberDecision, Decided DEF Place!MoveToMember
<1> QED  BY <1>2, <1>3, <1>4, <1>5

\* Where only one copy is written, the others fit as before.
LEMMA OthersTold ==
    ASSUME PlacesInv, NEW p \in Products, UNCHANGED <<warehouses, news, missed>>, lost \subseteq lost',
           \A q \in Products \ {p} : /\ Told(q)' = Told(q) /\ copies'[q] = copies[q]
                                     /\ (q \in edited => q \in edited')
                                     /\ (q \in crossed => q \in crossed')
                                     /\ move'.at = "copy" /\ move'.product = q <=> move.at = "copy" /\ move.product = q,
           p \notin lost' => /\ Tells(copies[p], Told(p))'
                             /\ p \notin crossed' => NameFits(p)' \/ (move'.at = "copy" /\ move'.product = p)
                             /\ p \notin edited' => TransitFits(p)' \/ (move'.at = "copy" /\ move'.product = p)
    PROVE  CopiesFit'
<1>1. ASSUME NEW q \in Products \ lost', q # p
      PROVE  /\ Tells(copies[q], Told(q))'
             /\ q \notin crossed' => NameFits(q)' \/ (move'.at = "copy" /\ move'.product = q)
             /\ q \notin edited' => TransitFits(q)' \/ (move'.at = "copy" /\ move'.product = q)
  <2>1. /\ Tells(copies[q], Told(q))
        /\ q \notin crossed => NameFits(q) \/ (move.at = "copy" /\ move.product = q)
        /\ q \notin edited => TransitFits(q) \/ (move.at = "copy" /\ move.product = q)
    BY <1>1 DEF PlacesInv, CopiesFit
  <2>2. Told(q)' = Told(q) /\ copies'[q] = copies[q]
    BY <1>1
  <2>3. Tells(copies[q], Told(q))'
    BY <2>1, <2>2 DEF Tells
  <2>4. NameFits(q) => NameFits(q)'
    BY <2>2 DEF NameFits, Named, About
  <2>5. TransitFits(q)' <=> TransitFits(q)
    BY <2>2 DEF TransitFits
  <2> QED  BY <1>1, <2>1, <2>3, <2>4, <2>5
<1> QED  BY <1>1 DEF CopiesFit

LEMMA MoveCopied == ASSUME PlacesInv, Place!CopyMove PROVE PlacesInv'
<1>0. PICK p, x : p = move.product /\ x = move.becomes
  OBVIOUS
<1>1. /\ move.at = "copy" /\ move' = [move EXCEPT !.at = "commit"]
      /\ UNCHANGED <<products, warehouses, news, missed, crossed, edited, from>>
      /\ \/ copies' = [copies EXCEPT ![p] = Place!Copied(@, x)] /\ lost' = lost
         \/ lost' = lost \cup {p} /\ copies' = copies
  BY <1>0 DEF Place!CopyMove
<1>2. move # Place!Resting
  BY <1>1, RestingIs
<1>3. /\ p \in Products /\ Spot(x)
      /\ x.location = "FP warehouse" /\ x.stock = None => products[p].stock = None
      /\ x.location = "Our office" /\ x.office = None => products[p].office = None
      /\ x.stock # None => /\ p \notin crossed => Named(warehouses, x.stock)
                           /\ x.stock.status = "IN_TRANSIT_IN" => x.shipped = TRUE
  BY <1>0, <1>2 DEF PlacesInv, MoveFits
<1>4. /\ copies' \in [Products -> Place!Copy] /\ \A q \in Products \ {p} : copies'[q] = copies[q]
      /\ lost' = lost \/ lost' = lost \cup {p}
      /\ p \notin lost' => copies'[p] = Place!Copied(copies[p], x)
  <2>1. Place!Copied(copies[p], x) \in Place!Copy
    BY <1>3, CopyOf DEF PlacesInv, Shapes
  <2> QED  BY <1>1, <1>3, <2>1 DEF PlacesInv, Shapes
<1>5. move'.at = "commit" /\ move'.product = p /\ move'.becomes = x
  BY <1>0, <1>1, <1>2 DEF PlacesInv, MoveFits
<1>6. Told(p) = products[p] /\ Told(p)' = x /\ \A q \in Products \ {p} : Told(q)' = Told(q)
  BY <1>0, <1>1, <1>5, RestingIs DEF Told, CopyWritten
<1>7. Shapes'
  BY <1>1, <1>3, <1>4 DEF PlacesInv, Shapes, Spot
<1>8. MoveFits'
  BY <1>0, <1>1, <1>2, <1>5 DEF PlacesInv, MoveFits, CameFrom, Named, Spot
<1>9. p \notin lost' => Tells(copies[p], Told(p))' /\ (p \notin crossed' => NameFits(p)') /\ TransitFits(p)'
  <2> SUFFICES ASSUME p \notin lost'
               PROVE  Tells(copies[p], Told(p))' /\ (p \notin crossed' => NameFits(p)') /\ TransitFits(p)'
    OBVIOUS
  <2>1. copies[p] \in Place!Copy /\ Tells(copies[p], products[p])
    BY <1>3, <1>4, <1>6 DEF PlacesInv, CopiesFit, Shapes
  <2>2. PICK c : c = copies'[p]
    OBVIOUS
  <2>3. c.location = x.location /\ c.stock = x.stock /\ c.office = x.office
    <3>1. /\ x.location = "FP warehouse" /\ x.stock = None => copies[p].stock = None
          /\ x.location = "Our office" /\ x.office = None => copies[p].office = None
      BY <1>3, <2>1 DEF Tells
    <3>2. c = Place!Copied(copies[p], x)
      BY <1>4, <2>2
    <3> QED  BY <1>3, <2>1, <3>1, <3>2, CopyOf
  <2>4. Tells(copies[p], Told(p))' /\ TransitFits(p)'
    BY <1>3, <1>6, <2>2, <2>3 DEF Tells, TransitFits
  <2>5. x.stock # None /\ p \notin crossed => Named(warehouses', x.stock) /\ x.stock \in Place!Stock
    BY <1>1, <1>3 DEF Named, Spot, Place!Product
  <2>6. ASSUME NEW n \in news', About(n, x.stock), x.stock # None, p \notin crossed PROVE x.stock.name = n.name
    BY <1>1, <1>3, <2>6 DEF PlacesInv, NewsFit, About, Named
  <2> QED  BY <1>1, <1>6, <2>2, <2>3, <2>4, <2>5, <2>6 DEF NameFits, About
<1>10. CopiesFit'
  <2> QED  BY <1>1, <1>3, <1>4, <1>5, <1>6, <1>9, <1>0, OthersTold
<1> QED  BY <1>1, <1>7, <1>8, <1>10 DEF PlacesInv, NewsFit, PlacesCameFrom, CameFrom


LEMMA MoveCommitted == ASSUME PlacesInv, Place!CommitMove PROVE PlacesInv'
<1>1. PICK p, x : p = move.product /\ x = move.becomes
  OBVIOUS
<1>2. /\ move.at = "commit" /\ move' = Place!Resting /\ products' = [products EXCEPT ![p] = x]
      /\ UNCHANGED <<warehouses, news, from, lost, missed, crossed, edited>>
      /\ copies' = copies \/ copies' = [copies EXCEPT ![p] = Place!Copied(@, x)]
  BY <1>1 DEF Place!CommitMove, Place!UnchangedGhosts
<1>3. /\ p \in Products /\ Spot(x) /\ CameFrom(x.stock, from[p])
      /\ x.stock # None => /\ p \notin crossed => Named(warehouses, x.stock)
                           /\ x.stock.status = "IN_TRANSIT_IN" => x.shipped = TRUE
  BY <1>1, <1>2, RestingIs DEF PlacesInv, MoveFits
<1>4. /\ products' \in [Products -> Place!Product] /\ products'[p] = x
      /\ \A q \in Products \ {p} : products'[q] = products[q]
  BY <1>2, <1>3 DEF PlacesInv, Shapes, Spot
<1>5. /\ copies' \in [Products -> Place!Copy] /\ \A q \in Products \ {p} : copies'[q] = copies[q]
      /\ copies'[p] = copies[p] \/ copies'[p] = Place!Copied(copies[p], x)
  <2>1. copies[p] \in Place!Copy /\ Place!Copied(copies[p], x) \in Place!Copy
    BY <1>3, CopyOf DEF PlacesInv, Shapes
  <2> QED  BY <1>2, <1>3, <2>1 DEF PlacesInv, Shapes
<1>6. Told(p) = x /\ Told(p)' = x /\ \A q \in Products \ {p} : Told(q)' = Told(q)
  BY <1>1, <1>2, <1>4, RestingIs DEF Told, CopyWritten
<1>7. Shapes'
  BY <1>2, <1>3, <1>4, <1>5 DEF PlacesInv, Shapes, Spot
<1>8. p \notin lost => Tells(copies[p], Told(p))' /\ (p \notin crossed => NameFits(p)') /\ (p \notin edited => TransitFits(p)')
  <2> SUFFICES ASSUME p \notin lost
               PROVE  /\ Tells(copies[p], Told(p))'
                      /\ (p \notin crossed => NameFits(p)') /\ (p \notin edited => TransitFits(p)')
    OBVIOUS
  <2>1. copies[p] \in Place!Copy /\ Tells(copies[p], x) /\ (p \notin crossed => NameFits(p)) /\ (p \notin edited => TransitFits(p))
    BY <1>1, <1>2, <1>3, <1>6 DEF PlacesInv, CopiesFit, Shapes
  <2>2. CASE copies'[p] = copies[p]
    BY <1>2, <1>6, <2>1, <2>2 DEF Tells, NameFits, Named, About, TransitFits
  <2>3. CASE copies'[p] = Place!Copied(copies[p], x)
    <3>1. PICK c : c = copies'[p]
      OBVIOUS
    <3>2. c.location = x.location /\ c.stock = x.stock /\ c.office = x.office
      BY <1>3, <2>1, <2>3, <3>1, CopyTells
    <3>3. Tells(copies[p], Told(p))' /\ TransitFits(p)'
      BY <1>3, <1>6, <3>1, <3>2 DEF Tells, TransitFits
    <3>4. ASSUME NEW n \in news', About(n, x.stock), x.stock # None, p \notin crossed PROVE x.stock.name = n.name
      BY <1>2, <1>3, <3>4 DEF PlacesInv, NewsFit, About, Named
    <3> QED  BY <1>2, <1>3, <1>6, <3>1, <3>2, <3>3, <3>4 DEF NameFits, About
  <2> QED  BY <1>5, <2>2, <2>3
<1>9. CopiesFit'
  BY <1>1, <1>2, <1>3, <1>5, <1>6, <1>8, RestingIs, OthersTold
<1>10. PlacesCameFrom'
  BY <1>2, <1>3, <1>4 DEF PlacesInv, PlacesCameFrom, CameFrom
<1> QED  BY <1>2, <1>7, <1>9, <1>10 DEF PlacesInv, NewsFit, MoveFits

LEMMA Arrived == ASSUME PlacesInv, NEW p \in Products, Place!Arrive(p) PROVE PlacesInv'
<1>1. PICK old, x : old = products[p] /\ x = [products[p] EXCEPT !.shipped = FALSE]
  OBVIOUS
<1>2. /\ move = Place!Resting /\ UNCHANGED <<warehouses, move, news, from, lost, missed, crossed, edited>>
      /\ products' = [products EXCEPT ![p] = x]
      /\ copies' = [copies EXCEPT ![p] = Place!CopiedOnArrival(@, old)]
  BY <1>1 DEF Place!Arrive, Place!UnchangedGhosts
<1>3. /\ Spot(old) /\ Spot(x) /\ x.stock = old.stock /\ x.location = old.location /\ x.office = old.office
  BY <1>1 DEF PlacesInv, Shapes, Spot, Place!Product
<1>4. PICK c : c = Place!CopiedOnArrival(copies[p], old)
  OBVIOUS
<1>5. /\ c \in Place!Copy
      /\ Tells(copies[p], old) =>
           Tells(c, old) /\ (old.stock # None => c.stock.name = copies[p].stock.name /\ c.stock.status = "STORED")
  BY <1>3, <1>4, ArrivalOf DEF PlacesInv, Shapes
<1>6. /\ products' \in [Products -> Place!Product] /\ products'[p] = x
      /\ \A q \in Products \ {p} : products'[q] = products[q]
      /\ copies' \in [Products -> Place!Copy] /\ copies'[p] = c
      /\ \A q \in Products \ {p} : copies'[q] = copies[q]
  BY <1>2, <1>3, <1>4, <1>5 DEF PlacesInv, Shapes, Spot
<1>7. /\ Told(p) = old /\ Told(p)' = x /\ \A q \in Products \ {p} : Told(q)' = Told(q)
  BY <1>1, <1>2, <1>6, RestingIs DEF Told, CopyWritten
<1>8. Shapes'
  BY <1>2, <1>3, <1>6 DEF PlacesInv, Shapes, Spot
<1>9. p \notin lost => Tells(copies[p], Told(p))' /\ (p \notin crossed => NameFits(p)') /\ TransitFits(p)'
  <2> SUFFICES ASSUME p \notin lost
               PROVE  Tells(copies[p], Told(p))' /\ (p \notin crossed => NameFits(p)') /\ TransitFits(p)'
    OBVIOUS
  <2>1. Tells(copies[p], old) /\ (p \notin crossed => NameFits(p))
    BY <1>2, <1>7, RestingIs DEF PlacesInv, CopiesFit
  <2>2. Tells(c, old) /\ (old.stock # None => c.stock.name = copies[p].stock.name /\ c.stock.status = "STORED")
    BY <1>5, <2>1
  <2>3. Tells(copies[p], Told(p))' /\ TransitFits(p)'
    BY <1>3, <1>6, <1>7, <2>2 DEF Tells, TransitFits
  <2>4. p \notin crossed => NameFits(p)'
    BY <1>2, <1>3, <1>6, <1>7, <2>1, <2>2 DEF NameFits, Named, About
  <2> QED  BY <2>3, <2>4
<1>10. CopiesFit'
  BY <1>2, <1>6, <1>7, <1>9, OthersTold
<1>11. PlacesCameFrom'
  BY <1>1, <1>2, <1>3, <1>6 DEF PlacesInv, PlacesCameFrom, CameFrom
<1> QED  BY <1>2, <1>8, <1>10, <1>11, RestingIs DEF PlacesInv, NewsFit, MoveFits

LEMMA ProductEdited == ASSUME PlacesInv, NEW p \in Products, Place!Edit(p) PROVE PlacesInv'
<1>1. PICK x : x = products[p]
  OBVIOUS
<1>2. /\ move = Place!Resting /\ UNCHANGED <<products, warehouses, move, news, from, lost, missed>>
      /\ edited' = edited \cup {p}
      /\ crossed' = IF \E n \in news : Place!In(x, n) THEN crossed \cup {p} ELSE crossed
      /\ copies' = [copies EXCEPT ![p] = Place!Copied(@, x)]
  BY <1>1 DEF Place!Edit
<1>3. PICK c : c = Place!Copied(copies[p], x)
  OBVIOUS
<1>4. /\ Spot(x) /\ c \in Place!Copy
      /\ Tells(copies[p], x) => c.location = x.location /\ c.stock = x.stock /\ c.office = x.office
  <2>1. Spot(x) /\ copies[p] \in Place!Copy
    BY <1>1 DEF PlacesInv, Shapes
  <2> QED  BY <1>3, <2>1, CopyOf, CopyTells
<1>5. /\ copies' \in [Products -> Place!Copy] /\ copies'[p] = c
      /\ \A q \in Products \ {p} : copies'[q] = copies[q]
  BY <1>2, <1>3, <1>4 DEF PlacesInv, Shapes
<1>6. /\ Told(p) = x /\ Told(p)' = x /\ \A q \in Products \ {p} : Told(q)' = Told(q)
  BY <1>1, <1>2, RestingIs DEF Told, CopyWritten
<1>7. Shapes'
  <2>1. crossed' \subseteq Products
    BY <1>2 DEF PlacesInv, Shapes
  <2> QED  BY <1>2, <1>5, <2>1 DEF PlacesInv, Shapes, Spot
<1>8. p \notin lost => Tells(copies[p], Told(p))' /\ (p \notin crossed' => NameFits(p)')
  <2> SUFFICES ASSUME p \notin lost PROVE Tells(copies[p], Told(p))' /\ (p \notin crossed' => NameFits(p)')
    OBVIOUS
  <2>1. Tells(copies[p], x) /\ (p \notin crossed => NameFits(p))
    BY <1>2, <1>6, RestingIs DEF PlacesInv, CopiesFit
  <2>2. c.location = x.location /\ c.stock = x.stock /\ c.office = x.office
    BY <1>4, <2>1
  <2>3. Tells(copies[p], Told(p))'
    BY <1>5, <1>6, <2>2 DEF Tells
  <2>4. ASSUME p \notin crossed' PROVE NameFits(p)'
    <3>1. NameFits(p) /\ \A n \in news : ~Place!In(x, n)
      BY <1>2, <2>1, <2>4
    <3>2. x.stock # None => \A n \in news : ~About(n, x.stock)
      BY <1>4, <3>1 DEF Spot, Place!In, About
    <3> QED  BY <1>2, <1>5, <1>6, <2>2, <3>1, <3>2 DEF NameFits, Named, About
  <2> QED  BY <2>3, <2>4
<1>9. CopiesFit'
  BY <1>2, <1>5, <1>6, <1>8, OthersTold
<1>10. PlacesCameFrom'
  BY <1>2 DEF PlacesInv, PlacesCameFrom, CameFrom
<1>11. NewsFit'
  BY <1>2 DEF PlacesInv, NewsFit
<1>12. MoveFits'
  BY <1>2 DEF MoveFits, Place!Resting
<1> QED  BY <1>7, <1>9, <1>10, <1>11, <1>12 DEF PlacesInv


-----------------------------------------------------------------------------
\* Warehouses and their names.

LEMMA WarehouseToggled == ASSUME PlacesInv, NEW c \in Countries, Place!Toggle(c) PROVE PlacesInv'
<1>1. /\ UNCHANGED <<products, copies, move, news, from, lost, missed, crossed, edited>>
      /\ warehouses' = [warehouses EXCEPT ![c].active = IF @ = {} THEN {"partner"} ELSE {}]
  BY DEF Place!Toggle, Place!UnchangedGhosts
<1>2. warehouses' \in [Countries -> Known] /\ \A d \in Countries : warehouses'[d].name = warehouses[d].name
  BY <1>1 DEF PlacesInv, Shapes, Known, Place!Which
<1>3. \A s \in Place!Stock : Named(warehouses', s) <=> Named(warehouses, s)
  BY <1>2 DEF Named, Place!Stock
<1>4. \A q \in Products : Told(q)' = Told(q) /\ (Told(q).stock # None => Told(q).stock \in Place!Stock)
  BY <1>1, RestingIs DEF PlacesInv, Shapes, MoveFits, Told, CopyWritten, Spot, Place!Product
<1>5. Shapes' /\ NewsFit' /\ PlacesCameFrom'
  BY <1>1, <1>2 DEF PlacesInv, Shapes, Spot, NewsFit, PlacesCameFrom, CameFrom
<1>6. MoveFits'
  <2>1. CASE move = Place!Resting
    BY <1>1, <2>1 DEF MoveFits
  <2>2. CASE move # Place!Resting
    <3>1. move.becomes.stock # None => move.becomes.stock \in Place!Stock
      BY <2>2 DEF PlacesInv, MoveFits, Spot, Place!Product
    <3>2. move.becomes.stock # None /\ move.product \notin crossed => Named(warehouses', move.becomes.stock)
      BY <1>3, <2>2, <3>1 DEF PlacesInv, MoveFits
    <3> QED  BY <1>1, <2>2, <3>2 DEF PlacesInv, MoveFits, Spot, CameFrom
  <2> QED  BY <2>1, <2>2
<1>7. CopiesFit'
  <2>1. ASSUME NEW q \in Products \ lost, NameFits(q) PROVE NameFits(q)'
    <3>1. NameFits(q) /\ (Told(q).stock # None => (Named(warehouses', Told(q).stock) <=> Named(warehouses, Told(q).stock)))
      BY <1>3, <1>4, <2>1
    <3> QED  BY <1>1, <1>4, <3>1 DEF NameFits, About
  <2> QED  BY <1>1, <1>4, <2>1 DEF PlacesInv, CopiesFit, Tells, TransitFits
<1> QED  BY <1>5, <1>6, <1>7 DEF PlacesInv

\* The name of a warehouse changes, whether that is told or not: what agreed with the
\* old name is about the warehouse renamed, and excused or still to be told.
LEMMA NameChanged ==
    ASSUME PlacesInv, NEW c \in Countries, NEW w \in Place!Which, Place!NewName(c, w),
           NEW n, n = [country |-> c, which |-> w, name |-> 1, at |-> "copies", tenants |-> {}],
           \/ news' = {n} /\ missed' = missed
           \/ news' = {} /\ missed' = missed \cup {<<c, w>>}
    PROVE  PlacesInv'
<1>1. /\ UNCHANGED <<products, copies, move, from, lost, edited>>
      /\ warehouses' = [warehouses EXCEPT ![c].name[w] = 1]
      /\ crossed' = IF move # Place!Resting /\ Place!In(move.becomes, [country |-> c, which |-> w])
                    THEN crossed \cup {move.product} ELSE crossed
  BY DEF Place!NewName
<1>2. news = {}
  BY DEF Place!NewName, PlacesInv, NewsFit
<1>3. /\ warehouses' \in [Countries -> Known] /\ warehouses'[c].name[w] = 1
      /\ \A d \in Countries, v \in Place!Which : d # c \/ v # w => warehouses'[d].name[v] = warehouses[d].name[v]
  <2>1. PICK k : k = [warehouses[c] EXCEPT !.name[w] = 1]
    OBVIOUS
  <2>2. warehouses[c] \in Known
    BY DEF PlacesInv, Shapes
  <2>3. k \in Known /\ k.name = [warehouses[c].name EXCEPT ![w] = 1]
    BY <2>1, <2>2 DEF Known, Place!Names
  <2>4. k.name[w] = 1 /\ \A v \in Place!Which : v # w => k.name[v] = warehouses[c].name[v]
    BY <2>2, <2>3 DEF Known
  <2>5. warehouses' = [warehouses EXCEPT ![c] = k]
    BY <1>1, <2>1
  <2> QED  BY <2>3, <2>4, <2>5 DEF PlacesInv, Shapes
<1>4. \A q \in Products : Told(q)' = Told(q) /\ (Told(q).stock # None => Told(q).stock \in Place!Stock)
  BY <1>1, RestingIs DEF PlacesInv, Shapes, MoveFits, Told, CopyWritten, Spot, Place!Product
<1>5. \A s \in Place!Stock : ~About(n, s) => (Named(warehouses', s) <=> Named(warehouses, s))
  BY <1>3 DEF About, Named, Place!Stock
<1>6. move # Place!Resting /\ move.product \notin crossed' =>
        /\ move.product \notin crossed
        /\ move.becomes.stock # None => ~About(n, move.becomes.stock)
  <2> SUFFICES ASSUME move # Place!Resting, move.product \notin crossed'
               PROVE  /\ move.product \notin crossed
                      /\ move.becomes.stock # None => ~About(n, move.becomes.stock)
    OBVIOUS
  <2>1. ~Place!In(move.becomes, [country |-> c, which |-> w]) /\ move.product \notin crossed
    BY <1>1
  <2>2. move.becomes.stock # None => move.becomes.location = "FP warehouse"
    BY DEF PlacesInv, MoveFits, Spot
  <2> QED  BY <2>1, <2>2 DEF Place!In, About
<1>7. Shapes' /\ PlacesCameFrom'
  <2>1. crossed' \subseteq Products
    BY <1>1 DEF PlacesInv, Shapes, MoveFits
  <2>2. missed' \subseteq Countries \X Place!Which
    BY DEF PlacesInv, Shapes
  <2> QED  BY <1>1, <1>3, <2>1, <2>2 DEF PlacesInv, Shapes, Spot, PlacesCameFrom, CameFrom
<1>8. MoveFits'
  <2>1. CASE move = Place!Resting
    BY <1>1, <2>1 DEF MoveFits
  <2>2. CASE move # Place!Resting
    <3>1. move.becomes.stock # None => move.becomes.stock \in Place!Stock
      BY <2>2 DEF PlacesInv, MoveFits, Spot, Place!Product
    <3>2. move.becomes.stock # None /\ move.product \notin crossed' => Named(warehouses', move.becomes.stock)
      BY <1>5, <1>6, <2>2, <3>1 DEF PlacesInv, MoveFits
    <3> QED  BY <1>1, <2>2, <3>2 DEF PlacesInv, MoveFits, Spot, CameFrom
  <2> QED  BY <2>1, <2>2
<1>9. NewsFit'
  <2>1. /\ DOMAIN n = {"country", "which", "name", "at", "tenants"}
        /\ n.country = c /\ n.which = w /\ n.name = 1 /\ n.at = "copies"
    OBVIOUS
  <2>2. news' = {n} \/ news' = {}
    OBVIOUS
  <2> QED  BY <1>3, <2>1, <2>2 DEF NewsFit
<1>10. CopiesFit'
  <2>1. ASSUME NEW q \in Products \ lost, NameFits(q) PROVE NameFits(q)'
    <3>1. PICK s : s = Told(q).stock
      OBVIOUS
    <3>2. CASE s # None /\ ~About(n, s)
      <4>1. Named(warehouses', s) <=> Named(warehouses, s)
        BY <1>4, <1>5, <3>1, <3>2
      <4>2. <<s.country, s.which>> \in missed => <<s.country, s.which>> \in missed'
        OBVIOUS
      <4> QED  BY <1>1, <1>2, <1>4, <2>1, <3>1, <3>2, <4>1, <4>2 DEF NameFits
    <3>3. CASE s # None /\ About(n, s)
      <4>1. news' = {n} \/ <<s.country, s.which>> \in missed'
        BY <3>3 DEF About
      <4> QED  BY <1>4, <3>1, <3>3, <4>1 DEF NameFits
    <3>4. CASE s = None
      BY <1>4, <3>1, <3>4 DEF NameFits
    <3> QED  BY <3>2, <3>3, <3>4
  <2> QED  BY <1>1, <1>4, <2>1 DEF PlacesInv, CopiesFit, Tells, TransitFits
<1> QED  BY <1>7, <1>8, <1>9, <1>10 DEF PlacesInv

LEMMA WarehouseRenamed ==
    ASSUME PlacesInv, NEW c \in Countries, NEW w \in Place!Which, Place!Rename(c, w)
    PROVE  PlacesInv'
<1>1. PICK n : n = [country |-> c, which |-> w, name |-> 1, at |-> "copies", tenants |-> {}]
  OBVIOUS
<1>2. Place!NewName(c, w) /\ news' = news \cup {n} /\ missed' = missed
  BY <1>1 DEF Place!Rename
<1>3. news = {}
  BY <1>2 DEF Place!NewName, PlacesInv, NewsFit
<1> QED  BY <1>1, <1>2, <1>3, NameChanged

LEMMA WarehouseRenamedSilently ==
    ASSUME PlacesInv, NEW c \in Countries, NEW w \in Place!Which, Place!RenameSilently(c, w)
    PROVE  PlacesInv'
<1>1. PICK n : n = [country |-> c, which |-> w, name |-> 1, at |-> "copies", tenants |-> {}]
  OBVIOUS
<1>2. Place!NewName(c, w) /\ news' = news /\ missed' = missed \cup {<<c, w>>}
  BY DEF Place!RenameSilently
<1>3. news = {}
  BY <1>2 DEF Place!NewName, PlacesInv, NewsFit
<1> QED  BY <1>1, <1>2, <1>3, NameChanged

\* A name in a stock is replaced.
LEMMA Restocked ==
    ASSUME NEW x, x \in Place!Product \/ x \in Place!Copy, x.stock # None
    PROVE  LET y == [x EXCEPT !.stock.name = 1] IN
           /\ x \in Place!Product => /\ y \in Place!Product /\ y.shipped = x.shipped /\ y.member = x.member
           /\ x \in Place!Copy => y \in Place!Copy
           /\ y.location = x.location /\ y.office = x.office /\ y.stock # None
           /\ y.stock.country = x.stock.country /\ y.stock.which = x.stock.which /\ y.stock.name = 1
           /\ y.stock.status = x.stock.status
<1>1. PICK s : s = x.stock
  OBVIOUS
<1>2. PICK t : t = [s EXCEPT !.name = 1]
  OBVIOUS
<1>3. s \in Place!Stock
  BY <1>1 DEF Place!Product, Place!Copy
<1>4. t \in Place!Stock /\ t.country = s.country /\ t.which = s.which /\ t.name = 1 /\ t.status = s.status
  BY <1>2, <1>3 DEF Place!Stock, Place!Names
<1>5. t # None
  BY <1>4, PlaceConstants
<1>6. PICK y : y = [x EXCEPT !.stock = t]
  OBVIOUS
<1>7. [x EXCEPT !.stock.name = 1] = y
  BY <1>1, <1>2, <1>6
<1>8. /\ x \in Place!Product => /\ y \in Place!Product /\ y.shipped = x.shipped /\ y.member = x.member
      /\ x \in Place!Copy => y \in Place!Copy
      /\ y.location = x.location /\ y.office = x.office /\ y.stock = t
  BY <1>4, <1>6 DEF Place!Product, Place!Copy
<1> QED  BY <1>1, <1>4, <1>5, <1>7, <1>8


\* A name spreads to the copies, and then to the tenants.
LEMMA StockIn ==
    ASSUME Shapes, NEW q \in Products, NEW n
    PROVE  /\ Place!In(products[q], n) <=> products[q].stock # None /\ About(n, products[q].stock)
           /\ Place!In(copies[q], n) => copies[q].stock # None /\ About(n, copies[q].stock)
           /\ Tells(copies[q], products[q]) => (Place!In(copies[q], n) <=> Place!In(products[q], n))
BY DEF Shapes, Spot, Place!In, About, Tells

LEMMA CopiesSpread == ASSUME PlacesInv, NEW n \in news, Place!SpreadToCopies(n) PROVE PlacesInv'
<1> DEFINE T == {TenantOf[p] : p \in {q \in Products : Place!In(copies[q], n)}}
<1>1. PICK m : m = [n EXCEPT !.at = "tenants", !.tenants = T]
  OBVIOUS
<1>2. /\ n.at = "copies" /\ UNCHANGED <<products, warehouses, move, from, lost, missed, crossed, edited>>
      /\ copies' = [p \in Products |-> IF Place!In(copies[p], n) THEN [copies[p] EXCEPT !.stock.name = n.name] ELSE copies[p]]
      /\ news' = (news \ {n}) \cup {m}
  BY <1>1 DEF Place!SpreadToCopies, Place!UnchangedGhosts
<1>3. /\ n.name = 1 /\ news = {n} /\ news' = {m} /\ n.country \in Countries /\ n.which \in Place!Which
      /\ warehouses[n.country].name[n.which] = 1
  BY <1>2 DEF PlacesInv, NewsFit
<1>4. m.country = n.country /\ m.which = n.which /\ m.name = 1 /\ m.at = "tenants" /\ m.tenants = T
      /\ DOMAIN m = {"country", "which", "name", "at", "tenants"}
  BY <1>1, <1>3 DEF PlacesInv, NewsFit
<1>5. ASSUME NEW p \in Products
      PROVE  /\ copies'[p] \in Place!Copy
             /\ ~Place!In(copies[p], n) => copies'[p] = copies[p]
             /\ Place!In(copies[p], n) => copies'[p].stock.name = 1
             /\ copies'[p].location = copies[p].location /\ copies'[p].office = copies[p].office
             /\ copies'[p].stock = None <=> copies[p].stock = None
             /\ copies[p].stock # None => /\ copies'[p].stock.country = copies[p].stock.country
                                          /\ copies'[p].stock.which = copies[p].stock.which
                                          /\ copies'[p].stock.status = copies[p].stock.status
  <2>1. copies[p] \in Place!Copy /\ (Place!In(copies[p], n) => copies[p].stock # None)
    BY DEF PlacesInv, Shapes, Place!In
  <2>2. CASE ~Place!In(copies[p], n)
    BY <1>2, <2>1, <2>2
  <2>3. CASE Place!In(copies[p], n)
    <3>1. copies'[p] = [copies[p] EXCEPT !.stock.name = 1]
      BY <1>2, <1>3, <2>3
    <3> QED  BY <2>1, <2>3, <3>1, Restocked
  <2> QED  BY <2>2, <2>3
<1>6. \A p \in Products : Told(p)' = Told(p)
  BY <1>2 DEF Told, CopyWritten
<1>7. Shapes'
  <2>1. copies' \in [Products -> Place!Copy]
    BY <1>2, <1>5
  <2> QED  BY <1>2, <2>1 DEF PlacesInv, Shapes, Spot
<1>8. NewsFit'
  BY <1>2, <1>3, <1>4 DEF NewsFit
<1>9. MoveFits' /\ PlacesCameFrom'
  BY <1>2 DEF PlacesInv, MoveFits, PlacesCameFrom, CameFrom, Place!Resting, Spot, Named
<1>10. CopiesFit'
  <2>1. ASSUME NEW p \in Products \ lost
        PROVE  /\ Tells(copies[p], Told(p))' /\ (TransitFits(p)' <=> TransitFits(p))
               /\ p \notin crossed /\ NameFits(p) => NameFits(p)'
    <3>1. Tells(copies[p], Told(p))
      BY DEF PlacesInv, CopiesFit
    <3>2. Tells(copies[p], Told(p))'
      BY <1>5, <1>6, <3>1 DEF Tells
    <3>3. TransitFits(p)' <=> TransitFits(p)
      BY <1>5, <1>6 DEF TransitFits
    <3>4. PICK s : s = Told(p).stock
      OBVIOUS
    <3>5. s # None => Told(p).location = "FP warehouse"
      BY <3>4, RestingIs DEF PlacesInv, Shapes, MoveFits, Told, CopyWritten, Spot
    <3>6. s # None => (About(n, s) <=> Place!In(copies[p], n))
      BY <3>1, <3>4, <3>5 DEF Tells, Place!In, About
    <3>7. ASSUME s # None, About(m, s), Told(p) = products[p] PROVE TenantOf[p] \in m.tenants
      BY <1>4, <3>6, <3>7 DEF About
    <3>8. ASSUME s # None, About(m, s), Told(p) # products[p], p \notin crossed PROVE s.name = 1
      <4>1. move.at = "commit" /\ move.product = p /\ s = move.becomes.stock
        BY <3>4, <3>8 DEF Told, CopyWritten
      <4>2. Named(warehouses, s)
        BY <3>8, <4>1, RestingIs DEF PlacesInv, MoveFits
      <4> QED  BY <1>3, <1>4, <3>8, <4>2 DEF Named, About
    <3>9. s # None => (About(m, s) <=> About(n, s))
      BY <1>4 DEF About
    <3>10. s # None /\ ~About(n, s) => copies'[p] = copies[p]
      BY <1>5, <3>6
    <3>11. s # None /\ About(n, s) => copies'[p].stock.name = 1
      BY <1>5, <3>6
    <3>12. p \notin crossed /\ NameFits(p) => NameFits(p)'
      BY <1>2, <1>3, <1>4, <1>6, <3>1, <3>4, <3>7, <3>8, <3>9, <3>10, <3>11 DEF NameFits, Named
    <3> QED  BY <3>2, <3>3, <3>12
  <2> QED  BY <1>2, <2>1 DEF PlacesInv, CopiesFit
<1> QED  BY <1>7, <1>8, <1>9, <1>10 DEF PlacesInv

\* The last tenant is told, or there was none to tell.
LEMMA AllTold ==
    ASSUME PlacesInv, NEW n \in news, n.at = "tenants", news' = news \ {n}, n.tenants = {},
           UNCHANGED <<products, copies, warehouses, move, from, lost, missed, crossed, edited>>
    PROVE  PlacesInv'
<1>1. news = {n} /\ news' = {} /\ n.name = 1 /\ warehouses[n.country].name[n.which] = 1
  BY DEF PlacesInv, NewsFit
<1>2. \A q \in Products : Told(q)' = Told(q)
  BY DEF Told, CopyWritten
<1>3. Shapes' /\ MoveFits' /\ PlacesCameFrom'
  BY DEF PlacesInv, Shapes, Spot, MoveFits, Place!Resting, CameFrom, Named, PlacesCameFrom
<1>4. NewsFit'
  BY <1>1 DEF NewsFit
<1>5. CopiesFit'
  <2>1. ASSUME NEW q \in Products \ lost, NameFits(q) PROVE NameFits(q)'
    BY <1>1, <1>2, <2>1 DEF NameFits, Named, About
  <2> QED  BY <1>2, <2>1 DEF PlacesInv, CopiesFit, Tells, TransitFits
<1> QED  BY <1>3, <1>4, <1>5 DEF PlacesInv

LEMMA TenantTold ==
    ASSUME PlacesInv, NEW n \in news, n.at = "tenants", NEW t \in n.tenants,
           move.at # "none" => TenantOf[move.product] # t,
           products' = [p \in Products |->
               IF TenantOf[p] = t /\ Place!In(products[p], n) THEN [products[p] EXCEPT !.stock.name = n.name]
               ELSE products[p]],
           news' = (news \ {n}) \cup
               (IF Place!LeftToTell(n, t) = {} THEN {} ELSE {[n EXCEPT !.tenants = Place!LeftToTell(n, t)]}),
           UNCHANGED <<copies, warehouses, move, from, lost, missed, crossed, edited>>
    PROVE  PlacesInv'
<1>1. /\ n.name = 1 /\ news = {n} /\ n.country \in Countries /\ n.which \in Place!Which
      /\ warehouses[n.country].name[n.which] = 1 /\ DOMAIN n = {"country", "which", "name", "at", "tenants"}
  BY DEF PlacesInv, NewsFit
<1>2. PICK left : left = n.tenants \ {t}
  OBVIOUS
<1>3. /\ left = {} => news' = {}
      /\ left # {} => news' = {[n EXCEPT !.tenants = left]}
  BY <1>1, <1>2 DEF Place!LeftToTell
<1>4. ASSUME NEW m \in news'
      PROVE  /\ m.country = n.country /\ m.which = n.which /\ m.name = 1 /\ m.at = "tenants" /\ m.tenants = left
             /\ DOMAIN m = {"country", "which", "name", "at", "tenants"} /\ left # {} /\ news' = {m}
  <2>1. left # {} /\ m = [n EXCEPT !.tenants = left]
    BY <1>3, <1>4
  <2> QED  BY <1>1, <1>3, <2>1
<1>5. ASSUME NEW p \in Products
      PROVE  /\ products'[p] \in Place!Product /\ Spot(products'[p])
             /\ products[p].stock = None => products'[p] = products[p]
             /\ ~Place!In(products[p], n) \/ TenantOf[p] # t => products'[p] = products[p]
             /\ Place!In(products[p], n) /\ TenantOf[p] = t => products'[p].stock.name = 1
             /\ products'[p].location = products[p].location /\ products'[p].office = products[p].office
             /\ products'[p].shipped = products[p].shipped
             /\ products'[p].stock = None <=> products[p].stock = None
             /\ products[p].stock # None => /\ products'[p].stock.country = products[p].stock.country
                                            /\ products'[p].stock.which = products[p].stock.which
  <2>1. Spot(products[p]) /\ products[p] \in Place!Product /\ (Place!In(products[p], n) => products[p].stock # None)
    BY DEF PlacesInv, Shapes, Place!In
  <2>2. CASE ~(TenantOf[p] = t /\ Place!In(products[p], n))
    <3>1. products'[p] = products[p]
      BY <2>2
    <3> QED  BY <2>1, <2>2, <3>1
  <2>3. CASE TenantOf[p] = t /\ Place!In(products[p], n)
    <3>1. products'[p] = [products[p] EXCEPT !.stock.name = 1]
      BY <1>1, <2>3
    <3>2. PICK y : y = [products[p] EXCEPT !.stock.name = 1]
      OBVIOUS
    <3>3. /\ y \in Place!Product /\ y.shipped = products[p].shipped /\ y.member = products[p].member
          /\ y.location = products[p].location /\ y.office = products[p].office /\ y.stock # None
          /\ y.stock.country = products[p].stock.country /\ y.stock.which = products[p].stock.which /\ y.stock.name = 1
      BY <2>1, <2>3, <3>2, Restocked
    <3>4. Spot(y)
      BY <2>1, <2>3, <3>3 DEF Spot
    <3>5. products'[p] = y
      BY <3>1, <3>2
    <3> QED  BY <2>1, <2>3, <3>3, <3>4, <3>5
  <2> QED  BY <2>2, <2>3
<1>6. Shapes'
  <2>1. products' \in [Products -> Place!Product]
    BY <1>5
  <2> QED  BY <1>5, <2>1 DEF PlacesInv, Shapes
<1>7. NewsFit'
  BY <1>1, <1>4 DEF NewsFit
<1>8. MoveFits'
  <2>1. CASE move = Place!Resting
    BY <2>1 DEF MoveFits, Place!Resting
  <2>2. CASE move # Place!Resting
    <3>1. move.product \in Products
      BY <2>2 DEF PlacesInv, MoveFits
    <3>2. /\ products'[move.product].office = products[move.product].office
          /\ products'[move.product].stock = None <=> products[move.product].stock = None
      BY <1>5, <3>1
    <3> QED  BY <2>2, <3>2 DEF PlacesInv, MoveFits, CameFrom, Named, Spot
  <2> QED  BY <2>1, <2>2
<1>9. PlacesCameFrom'
  BY <1>5 DEF PlacesInv, PlacesCameFrom, CameFrom
<1>10. CopiesFit'
  <2>1. ASSUME NEW p \in Products \ lost
        PROVE  /\ Tells(copies[p], Told(p))' /\ (TransitFits(p)' <=> TransitFits(p))
               /\ p \notin crossed /\ NameFits(p) => NameFits(p)'
    <3>1. Tells(copies[p], Told(p))
      BY DEF PlacesInv, CopiesFit
    <3>2. CASE CopyWritten(p)
      <4>1. Told(p) = move.becomes /\ Told(p)' = move.becomes /\ TenantOf[p] # t
        BY <3>2 DEF Told, CopyWritten
      <4>2. PICK s : s = move.becomes.stock
        OBVIOUS
      <4>3. s # None /\ p \notin crossed => Named(warehouses, s)
        BY <3>2, <4>2, RestingIs DEF CopyWritten, PlacesInv, MoveFits
      <4>4. s # None /\ p \notin crossed /\ About(n, s) => s.name = 1
        BY <1>1, <4>3 DEF Named, About
      <4>5. p \notin crossed /\ NameFits(p) => NameFits(p)'
        BY <1>1, <1>4, <3>1, <4>1, <4>2, <4>3, <4>4 DEF NameFits, Named, About
      <4> QED  BY <3>1, <4>1, <4>5 DEF Tells, TransitFits
    <3>3. CASE ~CopyWritten(p)
      <4>1. Told(p) = products[p] /\ Told(p)' = products'[p]
        BY <3>3 DEF Told, CopyWritten
      <4>2. PICK s, r : s = products[p].stock /\ r = products'[p].stock
        OBVIOUS
      <4>3. /\ s = None <=> r = None
            /\ s # None => r.country = s.country /\ r.which = s.which
            /\ s # None => (Place!In(products[p], n) <=> About(n, s))
        BY <1>5, <4>2, StockIn DEF PlacesInv
      <4>4. /\ s # None /\ (~About(n, s) \/ TenantOf[p] # t) => r = s
            /\ s # None /\ About(n, s) /\ TenantOf[p] = t => r.name = 1
        BY <1>5, <4>2, <4>3
      <4>5. ASSUME NameFits(p) PROVE NameFits(p)'
        <5> SUFFICES ASSUME r # None, <<r.country, r.which>> \notin missed
                     PROVE  /\ (\A m \in news' : ~About(m, r)) => Named(warehouses, r) /\ copies[p].stock.name = r.name
                            /\ \A m \in news' : About(m, r) /\ m.at = "tenants" =>
                                 copies[p].stock.name = m.name /\ (r.name = m.name \/ TenantOf[p] \in m.tenants)
          BY <4>1, <4>2 DEF NameFits, Named
        <5>1. s # None /\ r.country = s.country /\ r.which = s.which
          BY <4>3
        <5>2. CASE About(n, s)
          <6>1. copies[p].stock.name = 1 /\ (s.name = 1 \/ TenantOf[p] \in n.tenants)
            BY <1>1, <4>1, <4>2, <4>5, <5>1, <5>2 DEF NameFits
          <6>2. r.name = 1 \/ TenantOf[p] \in left
            BY <1>2, <4>4, <5>1, <5>2, <6>1
          <6>3. warehouses[r.country].name[r.which] = 1
            BY <1>1, <5>1, <5>2 DEF About
          <6>4. left = {} \/ \E m \in news' : About(m, r)
            BY <1>3, <1>4, <5>1, <5>2 DEF About
          <6> QED  BY <1>4, <6>1, <6>2, <6>3, <6>4 DEF Named
        <5>3. CASE ~About(n, s)
          <6>1. r = s /\ Named(warehouses, s) /\ copies[p].stock.name = s.name
            BY <1>1, <4>1, <4>2, <4>4, <4>5, <5>1, <5>3 DEF NameFits
          <6>2. \A m \in news' : ~About(m, r)
            BY <1>4, <5>1, <5>3 DEF About
          <6> QED  BY <6>1, <6>2
        <5> QED  BY <5>2, <5>3
      <4>6. Tells(copies[p], Told(p))'
        BY <1>5, <3>1, <4>1 DEF Tells
      <4>7. TransitFits(p)' <=> TransitFits(p)
        BY <1>5, <4>1 DEF TransitFits
      <4> QED  BY <4>5, <4>6, <4>7
    <3> QED  BY <3>2, <3>3
  <2> QED  BY <2>1 DEF PlacesInv, CopiesFit
<1> QED  BY <1>6, <1>7, <1>8, <1>9, <1>10 DEF PlacesInv

LEMMA TenantSpread == ASSUME PlacesInv, NEW n \in news, Place!SpreadToTenant(n) PROVE PlacesInv'
BY AllTold, TenantTold DEF Place!SpreadToTenant, Place!UnchangedGhosts

\* What was under way when the process ends is not told; a product whose request was
\* under way may keep a copy that tells more.
LEMMA Ended == ASSUME PlacesInv, Place!Crash PROVE PlacesInv'
<1>1. /\ news' = {} /\ move' = Place!Resting /\ UNCHANGED <<products, copies, warehouses, crossed, edited, from>>
      /\ missed' = missed \cup {<<n.country, n.which>> : n \in news}
      /\ lost' = lost \cup (IF move = Place!Resting THEN {} ELSE {move.product})
  BY DEF Place!Crash
<1>2. Shapes'
  <2>1. missed' \subseteq Countries \X Place!Which
    BY <1>1 DEF PlacesInv, NewsFit, Shapes
  <2>2. lost' \subseteq Products
    BY <1>1 DEF PlacesInv, Shapes, MoveFits
  <2> QED  BY <1>1, <2>1, <2>2 DEF PlacesInv, Shapes, Spot
<1>3. MoveFits' /\ NewsFit' /\ PlacesCameFrom'
  BY <1>1 DEF PlacesInv, MoveFits, NewsFit, PlacesCameFrom, CameFrom
<1>4. CopiesFit'
  <2>1. ASSUME NEW p \in Products \ lost'
        PROVE  /\ Tells(copies[p], Told(p))' /\ (p \notin crossed => NameFits(p)')
               /\ p \notin edited => TransitFits(p)'
    <3>1. Told(p) = products[p] /\ Told(p)' = products[p] /\ ~(move.at = "copy" /\ move.product = p)
      BY <1>1, <2>1, RestingIs DEF Told, CopyWritten
    <3>2. Tells(copies[p], products[p]) /\ (p \notin crossed => NameFits(p)) /\ (p \notin edited => TransitFits(p))
      BY <1>1, <2>1, <3>1 DEF PlacesInv, CopiesFit
    <3>3. PICK s : s = products[p].stock
      OBVIOUS
    <3>4. s # None /\ <<s.country, s.which>> \notin missed' => \A n \in news : ~About(n, s)
      BY <1>1 DEF About
    <3>5. p \notin crossed => NameFits(p)'
      BY <1>1, <3>1, <3>2, <3>3, <3>4 DEF NameFits, Named
    <3> QED  BY <1>1, <3>1, <3>2, <3>5 DEF Tells, TransitFits
  <2> QED  BY <1>1, <2>1 DEF CopiesFit
<1> QED  BY <1>2, <1>3, <1>4 DEF PlacesInv

-----------------------------------------------------------------------------
\* The beginning, every step, and what the invariant says.

LEMMA InitPlaces == ASSUME Place!Init PROVE PlacesInv
<1> DEFINE a == [country |-> Argentina, which |-> "default", name |-> 0, status |-> "STORED"]
           y == [Place!Nowhere EXCEPT !.location = "FP warehouse", !.stock = a]
<1>1. /\ a \in Place!Stock /\ a # None /\ a.country = Argentina /\ a.which = "default"
      /\ a.name = 0 /\ a.status = "STORED" /\ a = Place!InArgentina
  BY PlaceConstants DEF Place!Stock, Place!Which, Place!Names, Place!InArgentina
<1>2. PICK k : k = a
  OBVIOUS
<1> HIDE DEF a
<1>3. /\ y \in Place!Product /\ Spot(y) /\ y.stock = a /\ y.office = None /\ y.location = "FP warehouse"
  BY <1>1, NowhereFits DEF Place!Product, Spot
<1>4. Spot(Place!Nowhere)
  BY NowhereFits DEF Spot
<1> HIDE DEF y
<1>5. /\ DOMAIN products = Products /\ products \in [Products -> Place!Product]
      /\ \A p \in Products : /\ Spot(products[p]) /\ products[p].office = None
                             /\ products[p].stock = None \/ products[p].stock = a
  <2>1. products = [p \in Products |-> IF p \in Staying THEN y ELSE Place!Nowhere]
    BY <1>1 DEF Place!Init, y
  <2> QED  BY <1>3, <1>4, <2>1, NowhereFits
<1>6. /\ copies \in [Products -> Place!Copy]
      /\ \A p \in Products : /\ copies[p].location = products[p].location /\ copies[p].office = None
                             /\ copies[p].stock = products[p].stock
  <2>1. copies = [p \in Products |-> [location |-> products[p].location, office |-> None, stock |-> products[p].stock]]
    BY DEF Place!Init
  <2> QED  BY <1>5, <2>1 DEF Place!Copy, Place!Product
<1>7. /\ warehouses \in [Countries -> Known]
      /\ \A c \in Countries, w \in Place!Which : warehouses[c].name[w] = 0
  <2>1. warehouses \in [Countries -> Place!Untouched]
    BY DEF Place!Init
  <2>2. ASSUME NEW c \in Countries
        PROVE  warehouses[c] \in Known /\ \A w \in Place!Which : warehouses[c].name[w] = 0
    <3>1. PICK open \in BOOLEAN, l \in {{}, {"default"}, Place!Which} :
            warehouses[c] = [known |-> open, listed |-> l, active |-> {}, name |-> [w \in Place!Which |-> 0]]
      BY <2>1 DEF Place!Untouched
    <3> QED  BY <3>1 DEF Known, Place!Which, Place!Names
  <2> QED  BY <2>1, <2>2
<1>8. /\ move = Place!Resting /\ news = {} /\ lost = {} /\ missed = {} /\ crossed = {} /\ edited = {}
      /\ from = [p \in Products |-> None]
  BY DEF Place!Init
<1>9. Shapes
  BY <1>5, <1>6, <1>7, <1>8 DEF Shapes
<1>10. \A p \in Products : Told(p) = products[p]
  BY <1>8, RestingIs DEF Told, CopyWritten
<1>11. CopiesFit
  <2>1. ASSUME NEW p \in Products PROVE Tells(copies[p], Told(p)) /\ NameFits(p) /\ TransitFits(p)
    <3>1. copies[p].stock # None => copies[p].stock = a /\ products[p].stock = a
      BY <1>5, <1>6
    <3>2. Named(warehouses, a)
      BY <1>1, <1>7, PlaceConstants DEF Named, Place!Which
    <3> QED  BY <1>1, <1>5, <1>6, <1>8, <1>10, <3>1, <3>2 DEF Tells, NameFits, TransitFits
  <2> QED  BY <2>1 DEF CopiesFit
<1> QED  BY <1>8, <1>9, <1>11 DEF PlacesInv, MoveFits, NewsFit, PlacesCameFrom, CameFrom

LEMMA NextPlaces == ASSUME PlacesInv, Place!Next PROVE PlacesInv'
<1>1. ASSUME NEW p \in Products,
             \/ Place!CreateProduct(p) \/ Place!MoveWithinPool(p) \/ Place!MoveToPool(p) \/ Place!MoveToMember(p)
             \/ Place!Arrive(p) \/ Place!Edit(p)
      PROVE  PlacesInv'
  BY <1>1, MovesDecided, Arrived, ProductEdited
<1>2. ASSUME NEW c \in Countries,
             Place!Toggle(c) \/ \E w \in Place!Which : Place!Rename(c, w) \/ Place!RenameSilently(c, w)
      PROVE  PlacesInv'
  BY <1>2, WarehouseToggled, WarehouseRenamed, WarehouseRenamedSilently
<1>3. ASSUME NEW n \in news, Place!SpreadToCopies(n) \/ Place!SpreadToTenant(n) PROVE PlacesInv'
  BY <1>3, CopiesSpread, TenantSpread
<1> QED  BY <1>1, <1>2, <1>3, MoveCopied, MoveCommitted, Ended DEF Place!Next

LEMMA PlacesRest == ASSUME PlacesInv, UNCHANGED placeVars PROVE PlacesInv'
<1>1. \A q \in Products : Told(q)' = Told(q)
  BY DEF placeVars, Told, CopyWritten
<1>2. Shapes' /\ MoveFits' /\ NewsFit' /\ PlacesCameFrom'
  BY DEF placeVars, PlacesInv, Shapes, Spot, MoveFits, Place!Resting, CameFrom, Named, NewsFit, PlacesCameFrom
<1>3. CopiesFit'
  BY <1>1 DEF placeVars, PlacesInv, CopiesFit, Tells, NameFits, Named, About, TransitFits
<1> QED  BY <1>2, <1>3 DEF PlacesInv

LEMMA PlacesFollow == ASSUME PlacesInv PROVE PlacesFit
<1>1. Place!TypeOK /\ Place!OneCustodian /\ Place!ComesFromThere
  BY DEF PlacesInv, Shapes, Spot, PlacesCameFrom, CameFrom, Place!TypeOK, Place!OneCustodian, Place!ComesFromThere, Place!Here
<1>2. ASSUME move = Place!Resting, NEW p \in Products \ lost
      PROVE  /\ Tells(copies[p], products[p]) /\ (p \notin crossed => NameFits(p)) /\ Told(p) = products[p]
             /\ p \notin edited => TransitFits(p)
  <2>1. Told(p) = products[p]
    BY <1>2, RestingIs DEF Told, CopyWritten
  <2> QED  BY <1>2, <2>1, RestingIs DEF PlacesInv, CopiesFit
<1>3. Place!CopiesTell
  BY <1>2 DEF Tells, Place!CopiesTell
<1>4. Place!NamesArrive
  BY <1>2 DEF NameFits, Named, Place!NamesArrive
<1>5. Place!TransitEnds
  BY <1>2 DEF TransitFits, Place!TransitEnds
<1> QED  BY <1>1, <1>3, <1>4, <1>5 DEF PlacesFit, Place!PlacesFit

\* The places of products fit the way they went, their copies and their
\* warehouses, in every behaviour of the part, whatever the countries, offices
\* and members and however many products there are.
THEOREM PlacesAlwaysFit == PartSpec => []PlacesFit
<1>1. PartInit => PlacesInv
  BY InitPlaces DEF PartInit
<1>2. PlacesInv /\ [WarehousesStep \/ ProductsStep \/ SnapshotsStep]_all => PlacesInv'
  BY NextPlaces, PlacesRest DEF WarehousesStep, ProductsStep, SnapshotsStep, all, placeVars
<1>3. PlacesInv => PlacesFit
  BY PlacesFollow
<1> QED  BY <1>1, <1>2, <1>3, PTL DEF PartSpec

-----------------------------------------------------------------------------
\* Snapshots: the inductive invariant.

\* One edit or assignment at a time.
OneEditor == \A r, o \in Editors : r = o

Snap == [product : Products, data : Carry!Product]

Fits(d, x)    == d.text = x.text /\ d.status = x.status
Has(s, p)     == \E i \in DOMAIN s : s[i].product = p
Says(s, p, x) == \E i \in DOMAIN s : s[i].product = p /\ Fits(s[i].data, x)
JoinFailed(p) == failed = [at |-> "settle", product |-> p]

SnapTypes ==
    /\ DOMAIN carried = Products /\ carried \in [Products -> Carry!Product]
    /\ shipment \in [status : Carry!Statuses, products : SUBSET Products, snapshots : Seq(Snap), version : Nat]
    /\ shipment.status = "none" => shipment.products = {}
    /\ \A i \in DOMAIN shipment.snapshots : shipment.snapshots[i].product \in shipment.products
    /\ heard \subseteq Products /\ behind \subseteq Products
    /\ DOMAIN edits = Editors /\ DOMAIN listeners = Listeners

\* What a request has read is still so when it goes on.
EditFits(c) ==
    c = Carry!Idle \/
    /\ DOMAIN c = {"at", "product", "data", "active"}
    /\ c.product \in Products /\ c.at \in {"settle", "write", "announce"}
    /\ c.at = "settle" => /\ c.product \in shipment.products /\ ~Has(shipment.snapshots, c.product)
                          /\ c.data \in Carry!Product /\ c.data.text = carried[c.product].text
    /\ c.at = "write" => (c.active = TRUE <=> Carry!Active(c.product))
    /\ c.at = "announce" => c.product \in behind \/ c.product \notin heard

\* A run of the listener has the product as it is, unless it lags.
RunFits(c) ==
    c = Carry!NoRun \/
    /\ DOMAIN c = {"at", "product", "data", "index", "version"}
    /\ c.product \in shipment.products /\ c.at \in {"product", "shipment", "save"}
    /\ \A r \in Editors : edits[r].at = "settle" => edits[r].product # c.product
    /\ c.index \in Nat /\ c.version \in Nat
    /\ c.at # "product" => c.data \in Carry!Product
    /\ c.at = "save" => IF c.index = 0 THEN JoinFailed(c.product)
                        ELSE c.index \in DOMAIN shipment.snapshots /\ shipment.snapshots[c.index].product = c.product
    /\ c.product \notin behind /\ shipment.status # "ended" =>
         shipment.status \in Carry!Editable /\ (c.at # "product" => c.data = carried[c.product])

\* Somebody who will still write the snapshot of p.
ToTell(p) ==
    \/ \E r \in Editors : edits[r].at \in {"settle", "announce"} /\ edits[r].product = p
    \/ \E l \in Listeners : listeners[l].at # "idle" /\ listeners[l].product = p

SnapshotFits(p) ==
    /\ \/ Has(shipment.snapshots, p) \/ JoinFailed(p)
       \/ \E r \in Editors : edits[r].at = "settle" /\ edits[r].product = p
    /\ p \notin behind /\ shipment.status # "ended" => Says(shipment.snapshots, p, carried[p]) \/ ToTell(p)

SnapInv ==
    /\ SnapTypes /\ Carry!OneSnapshot
    /\ \A r \in Editors : EditFits(edits[r])
    /\ \A l \in Listeners : RunFits(listeners[l])
    /\ \A p \in shipment.products : SnapshotFits(p)

\* The snapshots after a step: none has gone, and none has become that of another product.
Extends(s, t) == DOMAIN s \subseteq DOMAIN t /\ \A i \in DOMAIN s : t[i].product = s[i].product

-----------------------------------------------------------------------------
\* Lists of snapshots.

LEMMA FirstNatural ==
    ASSUME NEW T, T \subseteq Nat, T # {}
    PROVE  \E x \in T : \A y \in T : x <= y
<1> DEFINE less == {ss \in Nat \X Nat : ss[1] < ss[2]}
<1>1. IsWellFoundedOn(less, Nat)
  BY NatLessThanWellFounded DEF OpToRel
<1>2. \A x, y \in Nat : x < y => <<x, y>> \in less
  OBVIOUS
<1> HIDE DEF less
<1>3. PICK x \in T : \A y \in T : <<y, x>> \notin less
  BY <1>1, WFMin
<1>4. \A y \in T : ~(y < x)
  BY <1>2, <1>3
<1> QED  BY <1>4

LEMMA LastNatural ==
    ASSUME NEW n \in Nat, NEW T, T \subseteq 1 .. n, T # {}
    PROVE  \E x \in T : \A y \in T : y <= x
<1> DEFINE D == {n - x : x \in T}
<1>1. D \subseteq Nat /\ D # {}
  <2>1. \A x \in T : x \in Nat /\ x <= n
    OBVIOUS
  <2>2. \A x \in T : n - x \in Nat
    BY <2>1
  <2> QED  BY <2>2
<1>2. PICK d \in D : \A e \in D : d <= e
  BY <1>1, FirstNatural
<1>3. PICK x \in T : d = n - x
  BY <1>2
<1>4. ASSUME NEW y \in T PROVE y <= x
  <2>1. n - x <= n - y
    BY <1>2, <1>3
  <2>2. x \in Nat /\ y \in Nat
    OBVIOUS
  <2> QED  BY <2>1, <2>2
<1> QED  BY <1>4

\* What findIndex gives.
LEMMA Found ==
    ASSUME SnapTypes, NEW p
    PROVE  /\ Carry!IndexOf(p) \in Nat
           /\ Carry!IndexOf(p) = 0 => ~Has(shipment.snapshots, p)
           /\ Carry!IndexOf(p) # 0 => /\ Carry!IndexOf(p) \in DOMAIN shipment.snapshots
                                      /\ shipment.snapshots[Carry!IndexOf(p)].product = p
<1> DEFINE s == shipment.snapshots
           I == {i \in 1 .. Len(s) : s[i].product = p}
<1>1. s \in Seq(Snap)
  BY DEF SnapTypes
<1>2. Carry!IndexOf(p) = IF I # {} THEN Carry!Min(I) ELSE 0
  BY DEF Carry!IndexOf, Carry!SelectInSeq
<1>3. Len(s) \in Nat /\ DOMAIN s = 1 .. Len(s)
  BY <1>1
<1> HIDE DEF s
<1>4. CASE I = {}
  BY <1>2, <1>3, <1>4 DEF Has, s
<1>5. CASE I # {}
  <2>1. \E x \in I : \A y \in I : x <= y
    <3>1. I \subseteq Nat
      BY <1>3
    <3> HIDE DEF I
    <3> QED  BY <1>5, <3>1, FirstNatural
  <2>2. Carry!Min(I) \in I
    BY <2>1 DEF Carry!Min
  <2> QED  BY <1>2, <1>3, <1>5, <2>2 DEF s
<1> QED  BY <1>4, <1>5

LEMMA Appended ==
    ASSUME NEW s \in Seq(Snap), NEW x \in Snap
    PROVE  LET t == Append(s, x) IN
           /\ t \in Seq(Snap) /\ Extends(s, t) /\ DOMAIN t = DOMAIN s \cup {Len(t)} /\ Len(t) \notin DOMAIN s
           /\ \A i \in DOMAIN s : t[i] = s[i]
           /\ t[Len(t)] = x
           /\ \A p : Has(t, p) <=> Has(s, p) \/ x.product = p
           /\ \A p, d : Says(s, p, d) => Says(t, p, d)
           /\ \A d : Fits(x.data, d) => Says(t, x.product, d)
<1> DEFINE t == Append(s, x)
<1>1. /\ t \in Seq(Snap) /\ Len(t) = Len(s) + 1 /\ DOMAIN t = DOMAIN s \cup {Len(t)} /\ Len(t) \notin DOMAIN s
      /\ (\A i \in DOMAIN s : t[i] = s[i]) /\ t[Len(t)] = x
  OBVIOUS
<1> HIDE DEF t
<1>2. Extends(s, t)
  BY <1>1 DEF Extends
<1>3. \A p : Has(t, p) <=> Has(s, p) \/ x.product = p
  BY <1>1 DEF Has
<1>4. \A p, d : Says(s, p, d) => Says(t, p, d)
  BY <1>1 DEF Says
<1>5. \A d : Fits(x.data, d) => Says(t, x.product, d)
  BY <1>1 DEF Says
<1> QED  BY <1>1, <1>2, <1>3, <1>4, <1>5 DEF t

LEMMA Replaced ==
    ASSUME NEW s \in Seq(Snap), NEW x \in Snap, NEW k \in DOMAIN s, s[k].product = x.product
    PROVE  LET t == [s EXCEPT ![k] = x] IN
           /\ t \in Seq(Snap) /\ Extends(s, t) /\ DOMAIN t = DOMAIN s /\ \A i \in DOMAIN s : t[i].product = s[i].product
           /\ \A p : Has(t, p) <=> Has(s, p)
           /\ \A p, d : p # x.product /\ Says(s, p, d) => Says(t, p, d)
           /\ \A d : Fits(x.data, d) => Says(t, x.product, d)
<1> DEFINE t == [s EXCEPT ![k] = x]
<1>1. /\ t \in Seq(Snap) /\ DOMAIN t = DOMAIN s /\ t[k] = x
      /\ \A i \in DOMAIN s \ {k} : t[i] = s[i]
  OBVIOUS
<1> HIDE DEF t
<1>2. \A i \in DOMAIN s : t[i].product = s[i].product
  BY <1>1
<1>3. Extends(s, t)
  BY <1>1, <1>2 DEF Extends
<1>4. \A p : Has(t, p) <=> Has(s, p)
  BY <1>1, <1>2 DEF Has
<1>5. \A p, d : p # x.product /\ Says(s, p, d) => Says(t, p, d)
  BY <1>1 DEF Says
<1>6. \A d : Fits(x.data, d) => Says(t, x.product, d)
  BY <1>1 DEF Says
<1> QED  BY <1>1, <1>2, <1>3, <1>4, <1>5, <1>6 DEF t

LEMMA SameCardinality == \A S : Carry!Cardinality(S) = Cardinality(S)
BY DEF Carry!Cardinality, Cardinality

\* createSnapshots: whatever is brought up to date then says what the product is, and a
\* snapshot is added only of the product whose joining failed.
LEMMA RefreshedFits ==
    ASSUME SnapTypes, NEW S, S \subseteq shipment.products, NEW data \in [Products -> Carry!Product], NEW blank,
           \A p \in S : Has(shipment.snapshots, p) \/ JoinFailed(p)
    PROVE  LET s == shipment.snapshots
               t == Carry!Refreshed(S, data, blank)
           IN  /\ t \in Seq(Snap) /\ Extends(s, t)
               /\ \A i \in DOMAIN t \ DOMAIN s : t[i].product \in S /\ JoinFailed(t[i].product)
               /\ \A i \in DOMAIN s : t[i] = s[i] \/ t[i].product \in S
               /\ \A p \in S : Has(s, p) => Says(t, p, data[p])
<1> DEFINE s == shipment.snapshots
           t == Carry!Refreshed(S, data, blank)
           lacking == {p \in S : Carry!IndexOf(p) = 0}
           fresh(i) == /\ s[i].product \in S
                       /\ s[i].product \in blank \/ Carry!HasSnapshotChanged(s[i].data, data[s[i].product])
                       /\ \A j \in i + 1 .. Len(s) : s[j].product # s[i].product
           a == [i \in DOMAIN s |-> IF fresh(i) THEN Carry!Snapshot(s[i].product, data[s[i].product]) ELSE s[i]]
           b == [i \in 1 .. Carry!Cardinality(lacking) |->
                    Carry!Snapshot(Carry!SetToSeq(lacking)[i], data[Carry!SetToSeq(lacking)[i]])]
           q == failed.product
<1>1. t = a \o b
  BY DEF Carry!Refreshed
<1>2. s \in Seq(Snap) /\ DOMAIN s = 1 .. Len(s) /\ Len(s) \in Nat /\ S \subseteq Products
  BY DEF SnapTypes
<1>3. \A p \in lacking : JoinFailed(p) /\ p = q
  BY Found DEF JoinFailed
<1>4. b \in Seq(Snap) /\ \A i \in DOMAIN b : b[i].product \in S /\ JoinFailed(b[i].product)
  <2>1. CASE lacking = {}
    <3>1. Carry!Cardinality(lacking) = 0
      BY <2>1, FS_EmptySet, SameCardinality
    <3> DEFINE e(i) == Carry!Snapshot(Carry!SetToSeq(lacking)[i], data[Carry!SetToSeq(lacking)[i]])
    <3>2. b = [i \in 1 .. 0 |-> e(i)]
      BY <3>1
    <3> HIDE DEF e, b
    <3>3. b \in [1 .. 0 -> Snap] /\ DOMAIN b = {}
      BY <3>2
    <3> QED  BY <3>3
  <2>2. CASE lacking # {}
    <3>1. lacking = {q}
      BY <1>3, <2>2
    <3>2. Carry!Cardinality(lacking) = 1
      BY <3>1, FS_Singleton, SameCardinality
    <3>3. Carry!SetToSeq(lacking)[1] = q
      <4> DEFINE f == [i \in 1 .. 1 |-> q]
      <4>1. f \in [1 .. 1 -> {q}] /\ Carry!IsInjective(f)
        BY DEF Carry!IsInjective
      <4>2. Carry!SetToSeq(lacking) = CHOOSE g \in [1 .. 1 -> {q}] : Carry!IsInjective(g)
        BY <3>1, <3>2 DEF Carry!SetToSeq
      <4>3. Carry!SetToSeq(lacking) \in [1 .. 1 -> {q}]
        BY <4>1, <4>2
      <4> QED  BY <4>3
    <3>4. b = [i \in 1 .. 1 |-> Carry!Snapshot(Carry!SetToSeq(lacking)[i], data[Carry!SetToSeq(lacking)[i]])]
      BY <3>2
    <3>5. Carry!Snapshot(q, data[q]) \in Snap /\ Carry!Snapshot(q, data[q]).product = q /\ q \in S
      BY <1>2, <3>1 DEF Carry!Snapshot, Snap
    <3> HIDE DEF b, lacking
    <3>6. b = <<Carry!Snapshot(q, data[q])>>
      BY <3>3, <3>4
    <3> QED  BY <1>3, <3>1, <3>5, <3>6
  <2> QED  BY <2>1, <2>2
<1>5. /\ a \in Seq(Snap) /\ DOMAIN a = DOMAIN s /\ Len(a) = Len(s)
      /\ \A i \in DOMAIN s : /\ a[i].product = s[i].product
                             /\ fresh(i) => a[i].data = data[s[i].product] /\ a[i].product \in S
                             /\ ~fresh(i) => a[i] = s[i]
  <2>1. ASSUME NEW i \in DOMAIN s
        PROVE  /\ a[i] \in Snap /\ a[i].product = s[i].product
               /\ fresh(i) => a[i].data = data[s[i].product] /\ a[i].product \in S
               /\ ~fresh(i) => a[i] = s[i]
    <3>1. s[i] \in Snap
      BY <1>2
    <3> HIDE DEF s
    <3>2. CASE fresh(i)
      <4>1. a[i] = Carry!Snapshot(s[i].product, data[s[i].product]) /\ s[i].product \in S
        BY <3>2
      <4> QED  BY <1>2, <3>1, <3>2, <4>1 DEF Carry!Snapshot, Snap
    <3>3. CASE ~fresh(i)
      <4>1. a[i] = s[i]
        BY <3>3
      <4> QED  BY <3>1, <3>3, <4>1
    <3> QED  BY <3>2, <3>3
  <2>2. DOMAIN a = 1 .. Len(s)
    BY <1>2
  <2>3. \A i \in 1 .. Len(s) : a[i] \in Snap
    BY <1>2, <2>1
  <2> HIDE DEF a, fresh, s
  <2>4. a \in Seq(Snap) /\ Len(a) = Len(s)
    <3>1. a = [i \in 1 .. Len(s) |-> a[i]]
      BY <1>2 DEF a
    <3> QED  BY <1>2, <2>2, <2>3, <3>1
  <2> QED  BY <1>2, <2>1, <2>2, <2>4
<1> HIDE DEF a, b, lacking, fresh, t
<1>6. /\ t \in Seq(Snap) /\ DOMAIN s \subseteq DOMAIN t
      /\ \A i \in DOMAIN s : t[i] = a[i]
      /\ \A i \in DOMAIN t \ DOMAIN s : t[i] = b[i - Len(s)] /\ i - Len(s) \in DOMAIN b
  BY <1>1, <1>2, <1>4, <1>5
<1>7. Extends(s, t)
  BY <1>5, <1>6 DEF Extends
<1>8. \A i \in DOMAIN t \ DOMAIN s : t[i].product \in S /\ JoinFailed(t[i].product)
  BY <1>4, <1>6
<1>9. \A i \in DOMAIN s : t[i] = s[i] \/ t[i].product \in S
  BY <1>5, <1>6
<1>10. ASSUME NEW p \in S, Has(s, p) PROVE Says(t, p, data[p])
  <2> DEFINE T == {i \in 1 .. Len(s) : s[i].product = p}
  <2>1. T # {} /\ T \subseteq 1 .. Len(s)
    BY <1>2, <1>10 DEF Has
  <2>2. PICK k \in T : \A y \in T : y <= k
    BY <1>2, <2>1, LastNatural
  <2>3. k \in DOMAIN s /\ s[k].product = p /\ \A j \in k + 1 .. Len(s) : s[j].product # s[k].product
    BY <1>2, <2>2
  <2>4. Fits(t[k].data, data[p])
    <3>1. CASE fresh(k)
      BY <1>5, <1>6, <2>3, <3>1 DEF Fits
    <3>2. CASE ~fresh(k)
      BY <1>5, <1>6, <2>3, <3>2 DEF fresh, Carry!HasSnapshotChanged, Fits
    <3> QED  BY <3>1, <3>2
  <2> QED  BY <1>5, <1>6, <2>3, <2>4 DEF Says
<1> QED  BY <1>6, <1>7, <1>8, <1>9, <1>10 DEF t

-----------------------------------------------------------------------------
\* What a step leaves alone.

LEMMA IdleOnes ==
    /\ Carry!Idle.at = "idle" /\ Carry!NoRun.at = "idle"
    /\ \A k : k = Carry!Idle \/ k = Carry!NoRun => k.at \notin {"settle", "write", "announce", "product", "shipment", "save"}
BY DEF Carry!Idle, Carry!NoRun

LEMMA EditMoves ==
    ASSUME OneEditor, SnapTypes, NEW r \in Editors, NEW c, edits' = [edits EXCEPT ![r] = c]
    PROVE  DOMAIN edits' = Editors /\ \A o \in Editors : edits'[o] = c /\ edits[o] = edits[r]
BY DEF OneEditor, SnapTypes

LEMMA RunMoves ==
    ASSUME SnapTypes, NEW l \in Listeners, NEW c, listeners' = [listeners EXCEPT ![l] = c]
    PROVE  /\ DOMAIN listeners' = Listeners /\ listeners'[l] = c
           /\ \A o \in Listeners \ {l} : listeners'[o] = listeners[o]
BY DEF SnapTypes

LEMMA EditStays ==
    ASSUME NEW c, EditFits(c),
           c.at = "settle" => /\ c.product \in shipment'.products /\ carried'[c.product].text = carried[c.product].text
                              /\ ~Has(shipment'.snapshots, c.product),
           c.at = "write" => (Carry!Active(c.product)' <=> Carry!Active(c.product)),
           c.at = "announce" /\ c.product \in behind => c.product \in behind', heard' \subseteq heard
    PROVE  EditFits(c)'
<1>1. CASE c = Carry!Idle
  BY <1>1 DEF EditFits, Carry!Idle
<1>2. CASE c # Carry!Idle
  BY <1>2 DEF EditFits
<1> QED  BY <1>1, <1>2

LEMMA RunStays ==
    ASSUME NEW c, RunFits(c), shipment.products \subseteq shipment'.products,
           Extends(shipment.snapshots, shipment'.snapshots),
           c # Carry!NoRun =>
             /\ \A r \in Editors : edits'[r].at = "settle" => edits'[r].product # c.product
             /\ JoinFailed(c.product) => JoinFailed(c.product)'
             /\ c.product \notin behind' /\ shipment'.status # "ended" =>
                  /\ c.product \notin behind /\ shipment.status # "ended" /\ shipment'.status = shipment.status
                  /\ carried'[c.product] = carried[c.product]
    PROVE  RunFits(c)'
<1>1. CASE c = Carry!NoRun
  BY <1>1 DEF RunFits, Carry!NoRun
<1>2. CASE c # Carry!NoRun
  BY <1>2 DEF RunFits, Extends
<1> QED  BY <1>1, <1>2

\* The snapshots are those there were.
LEMMA SameSnapshots ==
    ASSUME SnapInv, shipment'.snapshots = shipment.snapshots, failed' = failed
    PROVE  Carry!OneSnapshot' /\ Extends(shipment.snapshots, shipment'.snapshots)
BY DEF SnapInv, Carry!OneSnapshot, Extends

-----------------------------------------------------------------------------
\* Requests.

LEMMA Joined == ASSUME OneEditor, SnapInv, NEW r \in Editors, Carry!Join(r) PROVE SnapInv'
<1>0. PICK p \in Products \ shipment.products, s \in Carry!Editable :
        /\ edits[r] = Carry!Idle /\ shipment.status \in {"none", s}
        /\ shipment' = [shipment EXCEPT !.status = s, !.products = @ \cup {p},
                              !.version = IF shipment.status = "none" THEN @ ELSE @ + 1]
        /\ Carry!Do(r, [Carry!Idle EXCEPT !.at = "settle", !.product = p,
                              !.data = [carried[p] EXCEPT !.status = Carry!NewStatus(s)]])
        /\ UNCHANGED <<carried, heard, listeners, behind, failed>>
  BY DEF Carry!Join
<1>1. PICK d, c, v :
        /\ edits[r] = Carry!Idle /\ shipment.status \in {"none", s}
        /\ shipment' = [shipment EXCEPT !.status = s, !.products = shipment.products \cup {p}, !.version = v]
        /\ v = IF shipment.status = "none" THEN shipment.version ELSE shipment.version + 1
        /\ d = [carried[p] EXCEPT !.status = Carry!NewStatus(s)]
        /\ c = [Carry!Idle EXCEPT !.at = "settle", !.product = p, !.data = d]
        /\ edits' = [edits EXCEPT ![r] = c]
        /\ UNCHANGED <<carried, heard, listeners, behind, failed>>
  BY <1>0 DEF Carry!Do
<1>2. /\ DOMAIN c = {"at", "product", "data", "active"} /\ c.at = "settle" /\ c.product = p /\ c.data = d
      /\ d \in Carry!Product /\ d.text = carried[p].text
  BY <1>1 DEF SnapInv, SnapTypes, Carry!Product, Carry!Idle, Carry!NewStatus
<1>3. /\ shipment' \in [status : Carry!Statuses, products : SUBSET Products, snapshots : Seq(Snap), version : Nat]
      /\ shipment'.status = s /\ shipment'.products = shipment.products \cup {p}
      /\ shipment'.snapshots = shipment.snapshots
  <2>1. s \in Carry!Statuses
    BY DEF Carry!Editable, Carry!Statuses, Carry!Live
  <2>2. v \in Nat
    BY <1>1 DEF SnapInv, SnapTypes
  <2> QED  BY <1>1, <2>1, <2>2 DEF SnapInv, SnapTypes
<1>4. /\ \A o \in Editors : edits'[o] = c /\ edits[o] = Carry!Idle
      /\ DOMAIN edits' = Editors
  BY <1>1, EditMoves DEF SnapInv
<1>5. SnapTypes' /\ Carry!OneSnapshot' /\ Extends(shipment.snapshots, shipment'.snapshots)
  BY <1>1, <1>3, <1>4, SameSnapshots DEF SnapInv, SnapTypes, Carry!Editable
<1>6. ASSUME NEW o \in Editors PROVE EditFits(edits[o])'
  <2>1. ~Has(shipment'.snapshots, p)
    BY <1>1, <1>3 DEF SnapInv, SnapTypes, Has
  <2> QED  BY <1>1, <1>2, <1>3, <1>4, <2>1 DEF EditFits
<1>7. ASSUME NEW l \in Listeners PROVE RunFits(listeners[l])'
  <2>1. PICK k : k = listeners[l]
    OBVIOUS
  <2>2. RunFits(k)
    BY <2>1 DEF SnapInv
  <2>3. k # Carry!NoRun => k.product \in shipment.products /\ shipment.status = s /\ s # "ended"
    BY <1>1, <2>2 DEF RunFits, SnapInv, SnapTypes, Carry!Editable
  <2>4. \A o \in Editors : edits'[o].product = p
    BY <1>2, <1>4
  <2>5. k # Carry!NoRun => /\ k.product # p /\ (JoinFailed(k.product) => JoinFailed(k.product)')
                           /\ shipment'.status = shipment.status /\ carried'[k.product] = carried[k.product]
    BY <1>1, <1>3, <2>3 DEF JoinFailed
  <2>6. RunFits(k)'
    BY <1>1, <1>3, <1>5, <2>2, <2>4, <2>5, RunStays
  <2> QED  BY <1>1, <2>1, <2>6 DEF RunFits
<1>8. ASSUME NEW q \in shipment'.products PROVE SnapshotFits(q)'
  <2>1. CASE q = p
    BY <1>2, <1>4, <2>1 DEF SnapshotFits, ToTell
  <2>2. CASE q # p
    <3>1. SnapshotFits(q) /\ shipment.status # "ended"
      BY <1>1, <1>3, <2>2 DEF SnapInv, Carry!Editable
    <3> QED  BY <1>1, <1>3, <1>4, <3>1, IdleOnes DEF SnapshotFits, ToTell, JoinFailed
  <2> QED  BY <2>1, <2>2
<1> QED  BY <1>5, <1>6, <1>7, <1>8 DEF SnapInv

LEMMA Settled == ASSUME OneEditor, SnapInv, NEW r \in Editors, Carry!Settle(r) PROVE SnapInv'
<1>1. PICK c, p, k, x, v :
        /\ v = shipment.version + 1
        /\ c = edits[r] /\ p = c.product /\ c.at = "settle"
        /\ k = [carried[p] EXCEPT !.place = "new", !.status = c.data.status]
        /\ x = Carry!Snapshot(p, c.data)
  BY DEF Carry!Settle
<1>2. /\ carried' = [carried EXCEPT ![p] = k]
      /\ shipment' = [shipment EXCEPT !.snapshots = Append(shipment.snapshots, x), !.version = v]
      /\ edits' = [edits EXCEPT ![r] = Carry!Idle]
      /\ UNCHANGED <<heard, listeners, behind, failed>>
  BY <1>1 DEF Carry!Settle, Carry!Finish, Carry!Do
<1>3. /\ p \in shipment.products /\ p \in Products /\ ~Has(shipment.snapshots, p)
      /\ c.data \in Carry!Product /\ c.data.text = carried[p].text
  BY <1>1, IdleOnes DEF SnapInv, SnapTypes, EditFits
<1>4. /\ k \in Carry!Product /\ k.text = carried[p].text /\ k.status = c.data.status
      /\ x \in Snap /\ x.product = p /\ x.data = c.data
  BY <1>1, <1>3 DEF SnapInv, SnapTypes, Carry!Product, Carry!Snapshot, Snap
<1>5. /\ carried' \in [Products -> Carry!Product] /\ carried'[p] = k
      /\ \A q \in Products \ {p} : carried'[q] = carried[q]
  BY <1>2, <1>3, <1>4 DEF SnapInv, SnapTypes
<1>6. PICK s, t : s = shipment.snapshots /\ t = Append(s, x)
  OBVIOUS
<1>7. /\ s \in Seq(Snap) /\ t \in Seq(Snap) /\ Extends(s, t) /\ DOMAIN t = DOMAIN s \cup {Len(t)} /\ Len(t) \notin DOMAIN s
      /\ \A i \in DOMAIN s : t[i] = s[i]
      /\ t[Len(t)] = x
      /\ \A q : Has(t, q) <=> Has(s, q) \/ q = p
      /\ \A q, d : Says(s, q, d) => Says(t, q, d)
      /\ Says(t, p, k)
  <2>1. s \in Seq(Snap)
    BY <1>6 DEF SnapInv, SnapTypes
  <2>2. Fits(x.data, k)
    BY <1>3, <1>4 DEF Fits
  <2>3. Says(t, x.product, k)
    BY <1>4, <1>6, <2>1, <2>2, Appended
  <2> QED  BY <1>4, <1>6, <2>1, <2>3, Appended
<1>8. /\ shipment' \in [status : Carry!Statuses, products : SUBSET Products, snapshots : Seq(Snap), version : Nat]
      /\ shipment'.status = shipment.status /\ shipment'.products = shipment.products /\ shipment'.snapshots = t
  <2>1. v \in Nat
    BY <1>1 DEF SnapInv, SnapTypes
  <2> QED  BY <1>2, <1>6, <1>7, <2>1 DEF SnapInv, SnapTypes
<1>9. /\ \A o \in Editors : edits'[o] = Carry!Idle /\ edits[o] = c
      /\ DOMAIN edits' = Editors
  BY <1>1, <1>2, EditMoves DEF SnapInv
<1>10. SnapTypes'
  <2>1. \A i \in DOMAIN t : t[i].product \in shipment.products
    BY <1>3, <1>4, <1>6, <1>7 DEF SnapInv, SnapTypes
  <2> QED  BY <1>2, <1>5, <1>8, <1>9, <2>1 DEF SnapInv, SnapTypes
<1>11. Carry!OneSnapshot'
  <2>1. \A i \in DOMAIN s : s[i].product # p
    BY <1>3, <1>6 DEF Has
  <2>2. \A i, j \in DOMAIN t : t[i].product = t[j].product => i = j \/ failed = [at |-> "settle", product |-> t[i].product]
    BY <1>4, <1>6, <1>7, <2>1 DEF SnapInv, Carry!OneSnapshot
  <2> QED  BY <1>2, <1>8, <2>2 DEF Carry!OneSnapshot
<1>12. ASSUME NEW o \in Editors PROVE EditFits(edits[o])'
  BY <1>9 DEF EditFits, Carry!Idle
<1>13. ASSUME NEW l \in Listeners PROVE RunFits(listeners[l])'
  <2>1. PICK b : b = listeners[l]
    OBVIOUS
  <2>2. RunFits(b)
    BY <2>1 DEF SnapInv
  <2>3. b # Carry!NoRun => b.product # p /\ b.product \in Products
    BY <1>1, <2>2 DEF RunFits, SnapInv, SnapTypes
  <2>4. RunFits(b)'
    BY <1>2, <1>5, <1>6, <1>7, <1>8, <1>9, <2>2, <2>3, IdleOnes, RunStays DEF JoinFailed
  <2> QED  BY <1>2, <2>1, <2>4 DEF RunFits
<1>14. ASSUME NEW q \in shipment'.products PROVE SnapshotFits(q)'
  <2>1. CASE q = p
    BY <1>5, <1>7, <1>8, <2>1 DEF SnapshotFits
  <2>2. CASE q # p
    <3>1. SnapshotFits(q) /\ q \in Products
      BY <1>8, <1>10 DEF SnapInv, SnapTypes
    <3> QED  BY <1>1, <1>2, <1>5, <1>6, <1>7, <1>8, <1>9, <2>2, <3>1 DEF SnapshotFits, ToTell, JoinFailed
  <2> QED  BY <2>1, <2>2
<1> QED  BY <1>10, <1>11, <1>12, <1>13, <1>14 DEF SnapInv

LEMMA EditLooked == ASSUME OneEditor, SnapInv, NEW r \in Editors, Carry!EditLook(r) PROVE SnapInv'
<1>0. PICK p \in Products :
        /\ edits[r] = Carry!Idle
        /\ Carry!Do(r, [Carry!Idle EXCEPT !.at = "write", !.product = p, !.active = Carry!Active(p)])
        /\ UNCHANGED <<carried, shipment, heard, listeners, behind, failed>>
  BY DEF Carry!EditLook
<1>1. PICK c :
        /\ edits[r] = Carry!Idle /\ edits' = [edits EXCEPT ![r] = c]
        /\ c = [Carry!Idle EXCEPT !.at = "write", !.product = p, !.active = Carry!Active(p)]
        /\ UNCHANGED <<carried, shipment, heard, listeners, behind, failed>>
  BY <1>0 DEF Carry!Do
<1>2. /\ DOMAIN c = {"at", "product", "data", "active"} /\ c.at = "write" /\ c.product = p
      /\ c.active = Carry!Active(p)
  BY <1>1 DEF Carry!Idle
<1>3. DOMAIN edits' = Editors /\ \A o \in Editors : edits'[o] = c /\ edits[o] = Carry!Idle
  BY <1>1, EditMoves DEF SnapInv
<1>4. SnapTypes' /\ Carry!OneSnapshot' /\ Extends(shipment.snapshots, shipment'.snapshots)
  BY <1>1, <1>3, SameSnapshots DEF SnapInv, SnapTypes
<1>5. ASSUME NEW o \in Editors PROVE EditFits(edits[o])'
  BY <1>1, <1>2, <1>3 DEF EditFits, Carry!Active
<1>6. ASSUME NEW l \in Listeners PROVE RunFits(listeners[l])'
  <2>1. PICK k : k = listeners[l]
    OBVIOUS
  <2>2. RunFits(k)
    BY <2>1 DEF SnapInv
  <2>3. RunFits(k)'
    BY <1>1, <1>2, <1>3, <2>2 DEF RunFits, Carry!NoRun, JoinFailed
  <2> QED  BY <1>1, <2>1, <2>3 DEF RunFits
<1>7. ASSUME NEW q \in shipment'.products PROVE SnapshotFits(q)'
  <2>1. SnapshotFits(q)
    BY <1>1 DEF SnapInv
  <2> QED  BY <1>1, <1>3, <2>1, IdleOnes DEF SnapshotFits, ToTell, JoinFailed
<1> QED  BY <1>4, <1>5, <1>6, <1>7 DEF SnapInv

LEMMA EditWritten == ASSUME OneEditor, SnapInv, NEW r \in Editors, Carry!EditWrite(r) PROVE SnapInv'
<1>1. PICK c, p, k :
        /\ c = edits[r] /\ p = c.product /\ c.at = "write"
        /\ k = [carried[p] EXCEPT !.text = @ + 1]
  BY DEF Carry!EditWrite
<1>2. PICK e :
        /\ e = IF c.active THEN [c EXCEPT !.at = "announce"] ELSE Carry!Idle
        /\ edits' = [edits EXCEPT ![r] = e]
        /\ carried' = [carried EXCEPT ![p] = k]
        /\ behind' = IF ~c.active THEN behind ELSE IF Carry!Lagging(p) THEN behind \cup {p} ELSE behind \ {p}
        /\ UNCHANGED <<shipment, heard, listeners, failed>>
  BY <1>1 DEF Carry!EditWrite, Carry!Finish, Carry!Do
<1>3. /\ c # Carry!Idle /\ EditFits(c) /\ p \in Products /\ (c.active = TRUE <=> Carry!Active(p))
      /\ DOMAIN c = {"at", "product", "data", "active"}
  BY <1>1, IdleOnes DEF SnapInv, EditFits
<1>4. DOMAIN edits' = Editors /\ \A o \in Editors : edits'[o] = e /\ edits[o] = c
  BY <1>1, <1>2, EditMoves DEF SnapInv
<1>5. /\ carried' \in [Products -> Carry!Product] /\ \A q \in Products \ {p} : carried'[q] = carried[q]
  <2>1. k \in Carry!Product
    <3>1. PICK x : x = carried[p]
      OBVIOUS
    <3>2. x \in Carry!Product /\ k = [x EXCEPT !.text = x.text + 1]
      BY <1>1, <1>3, <3>1 DEF SnapInv, SnapTypes
    <3>3. x.text \in Nat
      <4>1. x \in Carry!Product
        BY <3>2
      <4> QED  BY <4>1 DEF Carry!Product
    <3>4. PICK n : n = x.text + 1
      OBVIOUS
    <3>5. n \in Nat
      BY <3>3, <3>4
    <3> QED  BY <3>2, <3>4, <3>5 DEF Carry!Product
  <2> QED  BY <1>2, <1>3, <2>1 DEF SnapInv, SnapTypes
<1>6. SnapTypes' /\ Carry!OneSnapshot' /\ Extends(shipment.snapshots, shipment'.snapshots)
  <2>1. behind' \subseteq Products
    BY <1>2, <1>3 DEF SnapInv, SnapTypes
  <2> QED  BY <1>2, <1>4, <1>5, <2>1, SameSnapshots DEF SnapInv, SnapTypes
<1>7. /\ \A o \in Editors : edits'[o].at # "settle" /\ edits[o].at = "write"
      /\ c.active => e.at = "announce" /\ e.product = p /\ DOMAIN e = {"at", "product", "data", "active"}
  BY <1>1, <1>2, <1>3, <1>4, IdleOnes
<1>8. ASSUME NEW o \in Editors PROVE EditFits(edits[o])'
  <2>1. CASE c.active
    <3>1. p \in behind' \/ p \notin heard'
      BY <1>2, <2>1 DEF Carry!Lagging
    <3> QED  BY <1>3, <1>4, <1>7, <2>1, <3>1 DEF EditFits
  <2>2. CASE ~c.active
    BY <1>2, <1>4, <2>2 DEF EditFits, Carry!Idle
  <2> QED  BY <2>1, <2>2
<1>9. ASSUME NEW l \in Listeners PROVE RunFits(listeners[l])'
  <2>1. PICK b : b = listeners[l]
    OBVIOUS
  <2>2. RunFits(b)
    BY <2>1 DEF SnapInv
  <2>3. ASSUME b # Carry!NoRun, b.product \notin behind', shipment'.status # "ended"
        PROVE  /\ b.product \notin behind /\ carried'[b.product] = carried[b.product]
    <3>1. b.product \in shipment.products /\ b.product \in Products
      BY <2>2, <2>3 DEF RunFits, SnapInv, SnapTypes
    <3>2. CASE ~c.active
      <4>1. p \notin shipment.products
        BY <1>2, <1>3, <2>3, <3>2 DEF Carry!Active
      <4> QED  BY <1>2, <1>5, <2>3, <3>1, <3>2, <4>1
    <3>3. CASE c.active
      <4>1. b.product # p
        BY <1>2, <2>1, <2>3, <3>3 DEF Carry!Lagging, Carry!Heeding
      <4> QED  BY <1>2, <1>5, <2>3, <3>1, <3>3, <4>1
    <3> QED  BY <3>2, <3>3
  <2>4. RunFits(b)'
    BY <1>2, <1>6, <1>7, <2>2, <2>3, RunStays DEF JoinFailed
  <2> QED  BY <1>2, <2>1, <2>4 DEF RunFits
<1>10. ASSUME NEW q \in shipment'.products PROVE SnapshotFits(q)'
  <2>1. SnapshotFits(q) /\ q \in Products
    BY <1>2 DEF SnapInv, SnapTypes
  <2>2. CASE q # p
    BY <1>1, <1>2, <1>4, <1>5, <1>7, <2>1, <2>2 DEF SnapshotFits, ToTell, JoinFailed
  <2>3. CASE q = p
    <3>1. shipment.status = "ended" \/ ToTell(p)'
      BY <1>2, <1>3, <1>4, <1>7, <2>3 DEF Carry!Active, ToTell
    <3> QED  BY <1>2, <1>7, <2>1, <2>3, <3>1 DEF SnapshotFits, JoinFailed
  <2> QED  BY <2>2, <2>3
<1> QED  BY <1>6, <1>8, <1>9, <1>10 DEF SnapInv

LEMMA Announced == ASSUME OneEditor, SnapInv, NEW r \in Editors, Carry!Announce(r) PROVE SnapInv'
<1>1. PICK c, p : c = edits[r] /\ p = c.product /\ c.at = "announce"
  BY DEF Carry!Announce
<1>2. /\ edits' = [edits EXCEPT ![r] = Carry!Idle] /\ UNCHANGED <<carried, shipment, failed>>
      /\ IF Carry!Summary(p) \in Carry!Editable
         THEN /\ heard' = heard \cup {p} /\ behind' = behind
              /\ IF p \in heard THEN listeners' = listeners
                 ELSE /\ Carry!Free # {}
                      /\ listeners' = [listeners EXCEPT ![CHOOSE l \in Carry!Free : TRUE] =
                                          [Carry!NoRun EXCEPT !.at = "product", !.product = p]]
         ELSE behind' = behind \cup {p} /\ UNCHANGED <<heard, listeners>>
  BY <1>1 DEF Carry!Announce, Carry!Finish, Carry!Do, Carry!Run
<1>3. c # Carry!Idle /\ EditFits(c) /\ p \in Products /\ (p \in behind \/ p \notin heard)
  BY <1>1, IdleOnes DEF SnapInv, EditFits
<1>4. DOMAIN edits' = Editors /\ \A o \in Editors : edits'[o] = Carry!Idle /\ edits[o] = c
  BY <1>1, <1>2, EditMoves DEF SnapInv
<1>5. DOMAIN listeners' = Listeners /\
      \E b : /\ \A l \in Listeners : listeners'[l] = listeners[l] \/ (listeners[l] = Carry!NoRun /\ listeners'[l] = b)
             /\ b = Carry!NoRun \/
                  /\ DOMAIN b = {"at", "product", "data", "index", "version"} /\ b.at = "product" /\ b.product = p
                  /\ b.index \in Nat /\ b.version \in Nat /\ p \in shipment.products /\ shipment.status \in Carry!Editable
             /\ p \notin behind' => \E l \in Listeners : listeners'[l] = b /\ b # Carry!NoRun
  <2>1. CASE Carry!Summary(p) \in Carry!Editable /\ p \notin heard
    <3>1. PICK l, b : l = (CHOOSE k \in Carry!Free : TRUE) /\ b = [Carry!NoRun EXCEPT !.at = "product", !.product = p]
      OBVIOUS
    <3>2. l \in Listeners /\ listeners[l] = Carry!NoRun /\ listeners' = [listeners EXCEPT ![l] = b]
      <4>1. Carry!Free # {} /\ listeners' = [listeners EXCEPT ![l] = b]
        BY <1>2, <2>1, <3>1
      <4>2. l \in Carry!Free
        BY <3>1, <4>1
      <4> QED  BY <4>1, <4>2 DEF Carry!Free
    <3>3. /\ DOMAIN b = {"at", "product", "data", "index", "version"} /\ b.at = "product" /\ b.product = p
          /\ b.index \in Nat /\ b.version \in Nat
      BY <3>1 DEF Carry!NoRun
    <3>4. b # Carry!NoRun
      BY <3>3, IdleOnes
    <3>5. p \in shipment.products /\ shipment.status \in Carry!Editable
      BY <2>1, PlaceConstants DEF Carry!Summary, Carry!Editable
    <3>6. DOMAIN listeners' = Listeners /\ listeners'[l] = b /\ \A o \in Listeners \ {l} : listeners'[o] = listeners[o]
      BY <3>2, RunMoves DEF SnapInv
    <3> QED  BY <3>2, <3>3, <3>4, <3>5, <3>6
  <2>2. CASE ~(Carry!Summary(p) \in Carry!Editable /\ p \notin heard)
    <3>1. listeners' = listeners /\ p \in behind'
      BY <1>2, <1>3, <2>2
    <3> QED  BY <3>1 DEF SnapInv, SnapTypes
  <2> QED  BY <2>1, <2>2
<1>6. PICK b :
        /\ \A l \in Listeners : listeners'[l] = listeners[l] \/ (listeners[l] = Carry!NoRun /\ listeners'[l] = b)
        /\ b = Carry!NoRun \/
                  /\ DOMAIN b = {"at", "product", "data", "index", "version"} /\ b.at = "product" /\ b.product = p
                  /\ b.index \in Nat /\ b.version \in Nat /\ p \in shipment.products /\ shipment.status \in Carry!Editable
        /\ p \notin behind' => \E l \in Listeners : listeners'[l] = b /\ b # Carry!NoRun
  BY <1>5
<1>7. behind' \subseteq Products /\ heard' \subseteq Products /\ behind \subseteq behind' /\ behind' \subseteq behind \cup {p}
  BY <1>2, <1>3 DEF SnapInv, SnapTypes
<1>8. SnapTypes' /\ Carry!OneSnapshot' /\ Extends(shipment.snapshots, shipment'.snapshots)
  BY <1>2, <1>4, <1>5, <1>7, SameSnapshots DEF SnapInv, SnapTypes
<1>9. ASSUME NEW o \in Editors PROVE EditFits(edits[o])'
  BY <1>4 DEF EditFits, Carry!Idle
<1>10. ASSUME NEW l \in Listeners PROVE RunFits(listeners[l])'
  <2>1. PICK k : k = listeners[l]
    OBVIOUS
  <2>2. RunFits(k)
    BY <2>1 DEF SnapInv
  <2>3. RunFits(k)'
    BY <1>2, <1>4, <1>7, <1>8, <2>2, IdleOnes, RunStays DEF JoinFailed
  <2>4. RunFits(b)'
    BY <1>2, <1>4, <1>6, IdleOnes DEF RunFits, Carry!NoRun
  <2> QED  BY <1>6, <2>1, <2>3, <2>4 DEF RunFits
<1>11. ASSUME NEW q \in shipment'.products PROVE SnapshotFits(q)'
  <2>1. SnapshotFits(q)
    BY <1>2 DEF SnapInv
  <2>2. CASE q = p
    <3>1. p \notin behind' => ToTell(p)'
      BY <1>6 DEF ToTell
    <3> QED  BY <1>1, <1>2, <1>4, <2>1, <2>2, <3>1 DEF SnapshotFits, JoinFailed
  <2>3. CASE q # p
    <3>1. ToTell(q) => ToTell(q)'
      BY <1>1, <1>4, <1>6, <2>3, IdleOnes DEF ToTell
    <3> QED  BY <1>1, <1>2, <1>4, <1>7, <2>1, <2>3, <3>1 DEF SnapshotFits, JoinFailed
  <2> QED  BY <2>2, <2>3
<1> QED  BY <1>8, <1>9, <1>10, <1>11 DEF SnapInv

LEMMA RequestFailed == ASSUME OneEditor, SnapInv, NEW r \in Editors, Carry!FailRequest(r) PROVE SnapInv'
<1>1. PICK c, p : c = edits[r] /\ p = c.product /\ c # Carry!Idle
  BY DEF Carry!FailRequest
<1>2. /\ edits' = [edits EXCEPT ![r] = Carry!Idle] /\ UNCHANGED <<carried, shipment, heard, listeners>>
      /\ failed = Carry!NoFailure /\ failed' = [at |-> c.at, product |-> p] /\ behind' = behind \cup {p}
  BY <1>1 DEF Carry!FailRequest, Carry!Fail, Carry!Finish, Carry!Do
<1>3. p \in Products
  BY <1>1 DEF SnapInv, EditFits
<1>4. DOMAIN edits' = Editors /\ \A o \in Editors : edits'[o] = Carry!Idle /\ edits[o] = c
  BY <1>1, <1>2, EditMoves DEF SnapInv
<1>5. \A q : ~JoinFailed(q)
  BY <1>2 DEF JoinFailed, Carry!NoFailure
<1>6. SnapTypes'
  BY <1>2, <1>3, <1>4 DEF SnapInv, SnapTypes
<1>7. Carry!OneSnapshot' /\ Extends(shipment.snapshots, shipment'.snapshots)
  BY <1>2, <1>5 DEF SnapInv, Carry!OneSnapshot, JoinFailed, Extends
<1>8. ASSUME NEW o \in Editors PROVE EditFits(edits[o])'
  BY <1>4 DEF EditFits, Carry!Idle
<1>9. ASSUME NEW l \in Listeners PROVE RunFits(listeners[l])'
  <2>1. PICK k : k = listeners[l]
    OBVIOUS
  <2>2. RunFits(k)
    BY <2>1 DEF SnapInv
  <2>3. RunFits(k)'
    BY <1>2, <1>4, <1>5, <1>7, <2>2, IdleOnes, RunStays
  <2> QED  BY <1>2, <2>1, <2>3 DEF RunFits
<1>10. ASSUME NEW q \in shipment'.products PROVE SnapshotFits(q)'
  <2>1. SnapshotFits(q)
    BY <1>2 DEF SnapInv
  <2>2. CASE q = p
    <3>1. c.at = "settle" => JoinFailed(p)'
      BY <1>2 DEF JoinFailed
    <3>2. Has(shipment.snapshots, p) \/ c.at = "settle"
      BY <1>4, <1>5, <2>1, <2>2 DEF SnapshotFits
    <3> QED  BY <1>2, <2>2, <3>1, <3>2 DEF SnapshotFits
  <2>3. CASE q # p
    BY <1>1, <1>2, <1>4, <1>5, <2>1, <2>3 DEF SnapshotFits, ToTell
  <2> QED  BY <2>2, <2>3
<1> QED  BY <1>6, <1>7, <1>8, <1>9, <1>10 DEF SnapInv

LEMMA TimePassed == ASSUME SnapInv, Carry!TimePasses PROVE SnapInv'
<1>1. heard' = {} /\ UNCHANGED <<carried, shipment, listeners, edits, behind, failed>>
  BY DEF Carry!TimePasses
<1>2. SnapTypes' /\ Carry!OneSnapshot'
  BY <1>1, SameSnapshots DEF SnapInv, SnapTypes
<1>3. ASSUME NEW o \in Editors PROVE EditFits(edits[o])'
  BY <1>1 DEF SnapInv, EditFits, Carry!Idle, Carry!Active
<1>4. ASSUME NEW l \in Listeners PROVE RunFits(listeners[l])'
  BY <1>1 DEF SnapInv, RunFits, Carry!NoRun, JoinFailed
<1>5. ASSUME NEW q \in shipment'.products PROVE SnapshotFits(q)'
  BY <1>1 DEF SnapInv, SnapshotFits, ToTell, JoinFailed
<1> QED  BY <1>2, <1>3, <1>4, <1>5 DEF SnapInv

-----------------------------------------------------------------------------
\* The listener.

\* A run goes on, and nothing else happens.
LEMMA RunGoesOn ==
    ASSUME SnapInv, NEW l \in Listeners, NEW c, listeners' = [listeners EXCEPT ![l] = c],
           UNCHANGED <<carried, shipment, heard, edits, behind, failed>>,
           listeners[l] # Carry!NoRun => RunFits(c),
           listeners[l] = Carry!NoRun => c = Carry!NoRun,
           LET p == listeners[l].product IN
              (c.at # "idle" /\ c.product = p) \/ p \in behind \/ shipment.status = "ended"
              \/ Says(shipment.snapshots, p, carried[p])
    PROVE  SnapInv'
<1>1. DOMAIN listeners' = Listeners /\ listeners'[l] = c /\ \A o \in Listeners \ {l} : listeners'[o] = listeners[o]
  BY RunMoves DEF SnapInv
<1>2. SnapTypes' /\ Carry!OneSnapshot'
  BY <1>1, SameSnapshots DEF SnapInv, SnapTypes
<1>3. ASSUME NEW o \in Editors PROVE EditFits(edits[o])'
  BY DEF SnapInv, EditFits, Carry!Idle, Carry!Active
<1>4. ASSUME NEW o \in Listeners PROVE RunFits(listeners[o])'
  <2>1. PICK k : k = listeners'[o]
    OBVIOUS
  <2>2. RunFits(k)
    BY <1>1, <2>1 DEF SnapInv, RunFits
  <2>3. RunFits(k)'
    BY <2>2 DEF RunFits, Carry!NoRun, JoinFailed
  <2> QED  BY <2>1, <2>3 DEF RunFits
<1>5. ASSUME NEW q \in shipment'.products PROVE SnapshotFits(q)'
  <2>1. SnapshotFits(q)
    BY DEF SnapInv
  <2>2. ToTell(q) => ToTell(q)' \/ q \in behind \/ shipment.status = "ended" \/ Says(shipment.snapshots, q, carried[q])
    BY <1>1 DEF ToTell
  <2> QED  BY <2>1, <2>2 DEF SnapshotFits, JoinFailed
<1> QED  BY <1>2, <1>3, <1>4, <1>5 DEF SnapInv

LEMMA ProductListened == ASSUME SnapInv, NEW l \in Listeners, Carry!ListenProduct(l) PROVE SnapInv'
<1>1. PICK c, p, e :
        /\ c = listeners[l] /\ p = c.product /\ c.at = "product"
        /\ e = IF Carry!Active(p) THEN [c EXCEPT !.at = "shipment", !.data = carried[p]] ELSE Carry!NoRun
  BY DEF Carry!ListenProduct
<1>2. listeners' = [listeners EXCEPT ![l] = e] /\ UNCHANGED <<carried, shipment, heard, edits, behind, failed>>
  BY <1>1 DEF Carry!ListenProduct, Carry!Run, Carry!EndRun
<1>3. c # Carry!NoRun /\ RunFits(c) /\ p \in shipment.products /\ p \in Products
  BY <1>1, IdleOnes DEF SnapInv, SnapTypes, RunFits
<1>4. CASE Carry!Active(p)
  <2>1. /\ DOMAIN e = {"at", "product", "data", "index", "version"} /\ e.at = "shipment" /\ e.product = p
        /\ e.data = carried[p] /\ e.index = c.index /\ e.version = c.version
    BY <1>1, <1>3, <1>4 DEF RunFits
  <2>2. RunFits(e)
    BY <1>1, <1>3, <2>1 DEF RunFits, SnapInv, SnapTypes
  <2> QED  BY <1>1, <1>2, <1>3, <2>1, <2>2, RunGoesOn
<1>5. CASE ~Carry!Active(p)
  <2>1. e = Carry!NoRun /\ RunFits(e) /\ shipment.status = "ended"
    BY <1>1, <1>3, <1>5 DEF Carry!Active, RunFits
  <2> QED  BY <1>1, <1>2, <1>3, <2>1, RunGoesOn
<1> QED  BY <1>4, <1>5

LEMMA ShipmentListened == ASSUME SnapInv, NEW l \in Listeners, Carry!ListenShipment(l) PROVE SnapInv'
<1>1. PICK c, p, n : c = listeners[l] /\ p = c.product /\ c.at = "shipment" /\ n = Carry!IndexOf(p)
  BY DEF Carry!ListenShipment
<1>2. PICK blank \in BOOLEAN :
        /\ IF /\ shipment.status \in Carry!Editable /\ p \in shipment.products
              /\ n = 0 \/ blank \/ Carry!HasSnapshotChanged(shipment.snapshots[n].data, c.data)
           THEN listeners' = [listeners EXCEPT ![l] = [c EXCEPT !.at = "save", !.index = n, !.version = shipment.version]]
           ELSE listeners' = [listeners EXCEPT ![l] = Carry!NoRun]
        /\ UNCHANGED <<carried, shipment, heard, edits, behind, failed>>
  BY <1>1 DEF Carry!ListenShipment, Carry!Run, Carry!EndRun
<1>3. c # Carry!NoRun /\ RunFits(c) /\ p \in shipment.products /\ SnapshotFits(p)
  BY <1>1, IdleOnes DEF SnapInv, RunFits
<1>4. /\ n \in Nat /\ (n = 0 => ~Has(shipment.snapshots, p))
      /\ n # 0 => n \in DOMAIN shipment.snapshots /\ shipment.snapshots[n].product = p
  BY <1>1, Found DEF SnapInv
<1>5. CASE listeners' = [listeners EXCEPT ![l] = [c EXCEPT !.at = "save", !.index = n, !.version = shipment.version]]
  <2>1. PICK e : e = [c EXCEPT !.at = "save", !.index = n, !.version = shipment.version]
    OBVIOUS
  <2>2. /\ DOMAIN e = {"at", "product", "data", "index", "version"} /\ e.at = "save" /\ e.product = p
        /\ e.data = c.data /\ e.index = n /\ e.version = shipment.version
    BY <1>1, <1>3, <2>1 DEF RunFits
  <2>3. n = 0 => JoinFailed(p)
    BY <1>1, <1>3, <1>4 DEF SnapshotFits, RunFits
  <2>4. RunFits(e)
    BY <1>1, <1>3, <1>4, <2>2, <2>3 DEF RunFits, SnapInv, SnapTypes
  <2>5. listeners' = [listeners EXCEPT ![l] = e]
    BY <1>5, <2>1
  <2> QED  BY <1>1, <1>2, <1>3, <2>2, <2>4, <2>5, RunGoesOn
<1>6. CASE /\ ~(/\ shipment.status \in Carry!Editable /\ p \in shipment.products
                /\ n = 0 \/ blank \/ Carry!HasSnapshotChanged(shipment.snapshots[n].data, c.data))
           /\ listeners' = [listeners EXCEPT ![l] = Carry!NoRun]
  <2>1. ASSUME p \notin behind, shipment.status # "ended" PROVE Says(shipment.snapshots, p, carried[p])
    <3>1. shipment.status \in Carry!Editable /\ c.data = carried[p]
      BY <1>1, <1>3, <2>1 DEF RunFits
    <3>2. n # 0 /\ ~Carry!HasSnapshotChanged(shipment.snapshots[n].data, carried[p])
      BY <1>3, <1>6, <3>1
    <3> QED  BY <1>4, <3>2 DEF Says, Fits, Carry!HasSnapshotChanged
  <2>2. RunFits(Carry!NoRun)
    BY DEF RunFits
  <2> QED  BY <1>1, <1>2, <1>3, <1>6, <2>1, <2>2, RunGoesOn
<1> QED  BY <1>2, <1>5, <1>6

LEMMA ListenerSaved == ASSUME SnapInv, NEW l \in Listeners, Carry!ListenSave(l) PROVE SnapInv'
<1>1. PICK c, p, x, v :
        /\ c = listeners[l] /\ p = c.product /\ c.at = "save" /\ x = Carry!Snapshot(p, c.data)
        /\ v = shipment.version + 1
  BY DEF Carry!ListenSave
<1>2. /\ listeners' = [listeners EXCEPT ![l] = Carry!NoRun] /\ UNCHANGED <<carried, heard, edits, failed>>
      /\ \/ /\ c.index = 0
            /\ shipment' = [shipment EXCEPT !.snapshots = Append(shipment.snapshots, x), !.version = v]
            /\ behind' = behind
         \/ /\ c.index # 0 /\ behind' = behind
            /\ shipment' = [shipment EXCEPT !.snapshots[c.index] = x]
         \/ behind' = behind \cup {p} /\ shipment' = shipment
  BY <1>1 DEF Carry!ListenSave, Carry!Run, Carry!EndRun
<1>3. /\ c # Carry!NoRun /\ RunFits(c) /\ p \in shipment.products /\ p \in Products
      /\ IF c.index = 0 THEN JoinFailed(p)
         ELSE c.index \in DOMAIN shipment.snapshots /\ shipment.snapshots[c.index].product = p
      /\ c.data \in Carry!Product
      /\ p \notin behind /\ shipment.status # "ended" => Fits(c.data, carried[p])
  BY <1>1, IdleOnes DEF SnapInv, SnapTypes, RunFits, Fits
<1>4. x \in Snap /\ x.product = p /\ x.data = c.data
  BY <1>1, <1>3 DEF Carry!Snapshot, Snap
<1>5. PICK s, t : s = shipment.snapshots /\ t = shipment'.snapshots
  OBVIOUS
<1>6. s \in Seq(Snap) /\ v \in Nat
  BY <1>1, <1>5 DEF SnapInv, SnapTypes
<1>7. /\ shipment' \in [status : Carry!Statuses, products : SUBSET Products, snapshots : Seq(Snap), version : Nat]
      /\ shipment'.status = shipment.status /\ shipment'.products = shipment.products
      /\ Extends(s, t) /\ t \in Seq(Snap)
      /\ \A i \in DOMAIN t \ DOMAIN s : t[i].product = p /\ JoinFailed(p)
      /\ \A q : Has(t, q) => Has(s, q) \/ q = p
      /\ \A q, d : q # p /\ Says(s, q, d) => Says(t, q, d)
      /\ p \notin behind' /\ shipment.status # "ended" => Says(t, p, carried[p])
  <2>1. CASE /\ c.index = 0
             /\ shipment' = [shipment EXCEPT !.snapshots = Append(shipment.snapshots, x), !.version = v]
             /\ behind' = behind
    <3>1. PICK u : u = Append(s, x)
      OBVIOUS
    <3>2. /\ u \in Seq(Snap) /\ Extends(s, u) /\ DOMAIN u = DOMAIN s \cup {Len(u)}
          /\ u[Len(u)] = x /\ (\A q : Has(u, q) <=> Has(s, q) \/ x.product = q)
          /\ \A q, d : Says(s, q, d) => Says(u, q, d)
          /\ \A d : Fits(x.data, d) => Says(u, x.product, d)
      BY <1>4, <1>6, <3>1, Appended
    <3>3. shipment' = [shipment EXCEPT !.snapshots = u, !.version = v]
      BY <1>5, <2>1, <3>1
    <3>4. /\ shipment' \in [status : Carry!Statuses, products : SUBSET Products, snapshots : Seq(Snap), version : Nat]
          /\ shipment'.status = shipment.status /\ shipment'.products = shipment.products /\ t = u
      BY <1>5, <1>6, <3>2, <3>3 DEF SnapInv, SnapTypes
    <3>5. p \notin behind' /\ shipment.status # "ended" => Says(t, p, carried[p])
      BY <1>3, <1>4, <2>1, <3>2, <3>4
    <3> QED  BY <1>3, <1>4, <2>1, <3>2, <3>4, <3>5
  <2>2. CASE c.index # 0 /\ behind' = behind /\ shipment' = [shipment EXCEPT !.snapshots[c.index] = x]
    <3>1. PICK u : u = [s EXCEPT ![c.index] = x]
      OBVIOUS
    <3>2. /\ u \in Seq(Snap) /\ Extends(s, u) /\ DOMAIN u = DOMAIN s
          /\ (\A q : Has(u, q) <=> Has(s, q))
          /\ \A q, d : q # x.product /\ Says(s, q, d) => Says(u, q, d)
          /\ \A d : Fits(x.data, d) => Says(u, x.product, d)
      <4>1. c.index \in DOMAIN s /\ s[c.index].product = x.product
        BY <1>3, <1>4, <1>5, <2>2
      <4> QED  BY <1>4, <1>6, <3>1, <4>1, Replaced
    <3>3. shipment' = [shipment EXCEPT !.snapshots = u]
      BY <1>5, <2>2, <3>1
    <3>4. /\ shipment' \in [status : Carry!Statuses, products : SUBSET Products, snapshots : Seq(Snap), version : Nat]
          /\ shipment'.status = shipment.status /\ shipment'.products = shipment.products /\ t = u
      BY <1>5, <3>2, <3>3 DEF SnapInv, SnapTypes
    <3>5. p \notin behind' /\ shipment.status # "ended" => Says(t, p, carried[p])
      BY <1>3, <1>4, <2>2, <3>2, <3>4
    <3> QED  BY <1>4, <3>2, <3>4, <3>5
  <2>3. CASE behind' = behind \cup {p} /\ shipment' = shipment
    BY <1>5, <1>6, <2>3 DEF SnapInv, SnapTypes, Extends
  <2> QED  BY <1>2, <2>1, <2>2, <2>3
<1>8. /\ DOMAIN listeners' = Listeners /\ listeners'[l] = Carry!NoRun
      /\ \A o \in Listeners \ {l} : listeners'[o] = listeners[o]
  BY <1>2, RunMoves DEF SnapInv
<1>9. behind \subseteq behind' /\ behind' \subseteq Products /\ behind' \subseteq behind \cup {p}
  BY <1>2, <1>3 DEF SnapInv, SnapTypes
<1>10. SnapTypes'
  <2>1. \A i \in DOMAIN t : t[i].product \in shipment.products
    BY <1>3, <1>5, <1>7 DEF Extends, SnapInv, SnapTypes
  <2> QED  BY <1>2, <1>5, <1>7, <1>8, <1>9, <2>1 DEF SnapInv, SnapTypes
<1>11. Carry!OneSnapshot'
  <2>1. \A i, j \in DOMAIN t : t[i].product = t[j].product => i = j \/ failed = [at |-> "settle", product |-> t[i].product]
    BY <1>5, <1>7 DEF Extends, SnapInv, Carry!OneSnapshot, JoinFailed
  <2> QED  BY <1>2, <1>5, <2>1 DEF Carry!OneSnapshot
<1>12. ASSUME NEW o \in Editors PROVE EditFits(edits[o])'
  <2>1. PICK k : k = edits[o]
    OBVIOUS
  <2>2. EditFits(k)
    BY <2>1 DEF SnapInv
  <2>3. k.at = "settle" => k # Carry!Idle /\ k.product # p
    BY <1>1, <1>3, <2>1, IdleOnes DEF RunFits
  <2>4. k.at = "settle" => k.product \in shipment.products /\ ~Has(s, k.product)
    BY <1>5, <2>2, <2>3 DEF EditFits
  <2>5. EditFits(k)'
    BY <1>2, <1>5, <1>7, <1>9, <2>2, <2>3, <2>4, EditStays DEF Carry!Active
  <2> QED  BY <1>2, <2>1, <2>5 DEF EditFits
<1>13. ASSUME NEW o \in Listeners PROVE RunFits(listeners[o])'
  <2>1. PICK k : k = listeners[o]
    OBVIOUS
  <2>2. RunFits(k)
    BY <2>1 DEF SnapInv
  <2>3. k # Carry!NoRun => \A r \in Editors : edits[r].at = "settle" => edits[r].product # k.product
    BY <2>2 DEF RunFits
  <2>4. RunFits(k)'
    BY <1>2, <1>5, <1>7, <1>9, <2>2, <2>3, RunStays DEF JoinFailed
  <2> QED  BY <1>8, <2>1, <2>4 DEF RunFits, Carry!NoRun
<1>14. ASSUME NEW q \in shipment'.products PROVE SnapshotFits(q)'
  <2>1. SnapshotFits(q)
    BY <1>7 DEF SnapInv
  <2>2. Has(s, q) => Has(t, q)
    BY <1>7 DEF Has, Extends
  <2>3. CASE q = p
    BY <1>2, <1>5, <1>7, <2>1, <2>2, <2>3 DEF SnapshotFits, JoinFailed
  <2>4. CASE q # p
    <3>1. ToTell(q) => ToTell(q)'
      BY <1>1, <1>2, <1>8, <2>4 DEF ToTell
    <3> QED  BY <1>2, <1>5, <1>7, <1>9, <2>1, <2>2, <2>4, <3>1 DEF SnapshotFits, JoinFailed
  <2> QED  BY <2>3, <2>4
<1> QED  BY <1>10, <1>11, <1>12, <1>13, <1>14 DEF SnapInv

LEMMA ListenerFailed == ASSUME SnapInv, NEW l \in Listeners, Carry!FailListener(l) PROVE SnapInv'
<1>1. PICK c, p : c = listeners[l] /\ p = c.product /\ c # Carry!NoRun
  BY DEF Carry!FailListener
<1>2. /\ listeners' = [listeners EXCEPT ![l] = Carry!NoRun] /\ UNCHANGED <<carried, shipment, heard, edits>>
      /\ failed = Carry!NoFailure /\ behind' = behind \cup {p}
  BY <1>1 DEF Carry!FailListener, Carry!Fail, Carry!EndRun, Carry!Run
<1>3. RunFits(c) /\ p \in shipment.products /\ p \in Products
  BY <1>1 DEF SnapInv, SnapTypes, RunFits
<1>4. \A q : ~JoinFailed(q)
  BY <1>2 DEF JoinFailed, Carry!NoFailure
<1>5. /\ DOMAIN listeners' = Listeners /\ listeners'[l] = Carry!NoRun
      /\ \A o \in Listeners \ {l} : listeners'[o] = listeners[o]
  BY <1>2, RunMoves DEF SnapInv
<1>6. SnapTypes'
  BY <1>2, <1>3, <1>5 DEF SnapInv, SnapTypes
<1>7. Carry!OneSnapshot' /\ Extends(shipment.snapshots, shipment'.snapshots)
  BY <1>2, <1>4 DEF SnapInv, Carry!OneSnapshot, JoinFailed, Extends
<1>8. ASSUME NEW o \in Editors PROVE EditFits(edits[o])'
  BY <1>2 DEF SnapInv, EditFits, Carry!Idle, Carry!Active
<1>9. ASSUME NEW o \in Listeners PROVE RunFits(listeners[o])'
  <2>1. PICK k : k = listeners[o]
    OBVIOUS
  <2>2. RunFits(k)
    BY <2>1 DEF SnapInv
  <2>3. k # Carry!NoRun => \A r \in Editors : edits[r].at = "settle" => edits[r].product # k.product
    BY <2>2 DEF RunFits
  <2>4. RunFits(k)'
    BY <1>2, <1>4, <1>7, <2>2, <2>3, RunStays
  <2> QED  BY <1>5, <2>1, <2>4 DEF RunFits, Carry!NoRun
<1>10. ASSUME NEW q \in shipment'.products PROVE SnapshotFits(q)'
  <2>1. SnapshotFits(q)
    BY <1>2 DEF SnapInv
  <2>2. q # p => (ToTell(q) => ToTell(q)')
    BY <1>1, <1>2, <1>5 DEF ToTell
  <2> QED  BY <1>2, <1>4, <2>1, <2>2 DEF SnapshotFits
<1> QED  BY <1>6, <1>7, <1>8, <1>9, <1>10 DEF SnapInv

-----------------------------------------------------------------------------
\* The status of the shipment. No request is in flight then.

LEMMA QuietEdits ==
    ASSUME Carry!Quiet, UNCHANGED edits
    PROVE  \A r \in Editors : edits[r] = Carry!Idle /\ edits'[r] = Carry!Idle /\ EditFits(edits[r])'
BY DEF Carry!Quiet, EditFits, Carry!Idle

LEMMA ToTellHeeded ==
    ASSUME Carry!Quiet, SnapInv, NEW p \in Products, ToTell(p)
    PROVE  p \in Carry!Heeded
BY IdleOnes DEF Carry!Quiet, ToTell, Carry!Heeded, Carry!Heeding

LEMMA ShipmentReaddressed == ASSUME SnapInv, Carry!Readdress PROVE SnapInv'
<1>1. PICK s \in Carry!Editable \ {shipment.status}, blank \in SUBSET shipment.products, raise \in {0, 1} :
        LET new == [p \in Products |-> IF p \in shipment.products THEN Carry!Restated(carried[p], s) ELSE carried[p]]
            S   == {p \in shipment.products : s = "In Preparation" \/ new[p] # carried[p]}
            t   == Carry!Refreshed(S, new, blank)
        IN  /\ carried' = new
            /\ shipment' = [shipment EXCEPT !.status = s, !.snapshots = t, !.version = @ + raise]
  BY DEF Carry!Readdress
<1>2. PICK new, S, t, v :
        /\ new = [p \in Products |-> IF p \in shipment.products THEN Carry!Restated(carried[p], s) ELSE carried[p]]
        /\ S = {p \in shipment.products : s = "In Preparation" \/ new[p] # carried[p]}
        /\ t = Carry!Refreshed(S, new, blank)
        /\ v = shipment.version + raise
        /\ carried' = new
        /\ shipment' = [shipment EXCEPT !.status = s, !.snapshots = t, !.version = v]
  BY <1>1
<1>3. /\ Carry!Quiet /\ shipment.status \in Carry!Editable /\ behind' = behind \cup Carry!Heeded
      /\ UNCHANGED <<heard, listeners, edits, failed>>
  BY DEF Carry!Readdress
<1>4. ASSUME NEW p \in Products PROVE new[p] \in Carry!Product
  <2>1. carried[p] \in Carry!Product
    BY DEF SnapInv, SnapTypes
  <2>2. Carry!Restated(carried[p], s) \in Carry!Product
    BY <2>1 DEF Carry!Restated, Carry!Product
  <2> QED  BY <1>2, <2>1, <2>2
<1>5. new \in [Products -> Carry!Product] /\ S \subseteq shipment.products
  BY <1>2, <1>4
<1>6. \A r \in Editors : edits[r] = Carry!Idle /\ edits'[r] = Carry!Idle /\ EditFits(edits[r])'
  BY <1>3, QuietEdits
<1>7. \A p \in shipment.products : Has(shipment.snapshots, p) \/ JoinFailed(p)
  BY <1>6, IdleOnes DEF SnapInv, SnapshotFits
<1>8. PICK old : old = shipment.snapshots
  OBVIOUS
<1>9. /\ t \in Seq(Snap) /\ Extends(old, t)
      /\ \A i \in DOMAIN t \ DOMAIN old : t[i].product \in S /\ JoinFailed(t[i].product)
      /\ \A i \in DOMAIN old : t[i] = old[i] \/ t[i].product \in S
      /\ \A p \in S : Has(old, p) => Says(t, p, new[p])
  BY <1>2, <1>5, <1>7, <1>8, RefreshedFits DEF SnapInv
<1>10. /\ shipment' \in [status : Carry!Statuses, products : SUBSET Products, snapshots : Seq(Snap), version : Nat]
       /\ shipment'.status = s /\ shipment'.products = shipment.products /\ shipment'.snapshots = t
  <2>1. v \in Nat
    <3>1. PICK n : n = shipment.version
      OBVIOUS
    <3>2. n \in Nat /\ v = n + raise
      BY <3>1, <1>2 DEF SnapInv, SnapTypes
    <3>3. v = n + 0 \/ v = n + 1
      BY <3>2
    <3> QED  BY <3>2, <3>3
  <2>2. s \in Carry!Statuses
    BY DEF Carry!Editable, Carry!Live, Carry!Statuses
  <2> QED  BY <1>2, <1>9, <2>1, <2>2 DEF SnapInv, SnapTypes
<1>11. Carry!Heeded \subseteq Products
  BY DEF Carry!Heeded
<1>12. SnapTypes'
  <2>1. \A i \in DOMAIN t : t[i].product \in shipment.products
    BY <1>5, <1>8, <1>9 DEF Extends, SnapInv, SnapTypes
  <2> QED  BY <1>2, <1>3, <1>5, <1>10, <1>11, <2>1 DEF SnapInv, SnapTypes, Carry!Editable
<1>13. Carry!OneSnapshot'
  <2>1. \A i, j \in DOMAIN t : t[i].product = t[j].product => i = j \/ failed = [at |-> "settle", product |-> t[i].product]
    BY <1>8, <1>9 DEF Extends, SnapInv, Carry!OneSnapshot, JoinFailed
  <2> QED  BY <1>3, <1>10, <2>1 DEF Carry!OneSnapshot
<1>14. ASSUME NEW l \in Listeners PROVE RunFits(listeners[l])'
  <2>1. PICK k : k = listeners[l]
    OBVIOUS
  <2>2. RunFits(k)
    BY <2>1 DEF SnapInv
  <2>3. k # Carry!NoRun => k.product \in Products /\ k.product \in behind'
    BY <1>3, <2>1, <2>2 DEF RunFits, SnapInv, SnapTypes, Carry!Heeded, Carry!Heeding
  <2>4. RunFits(k)'
    BY <1>3, <1>6, <1>8, <1>9, <1>10, <2>2, <2>3, IdleOnes, RunStays DEF JoinFailed
  <2> QED  BY <1>3, <2>1, <2>4 DEF RunFits
<1>15. ASSUME NEW p \in shipment'.products PROVE SnapshotFits(p)'
  <2>1. SnapshotFits(p) /\ p \in Products /\ p \in shipment.products
    BY <1>10 DEF SnapInv, SnapTypes
  <2>2. Has(old, p) => Has(t, p)
    BY <1>9 DEF Has, Extends
  <2>3. ASSUME p \notin behind' PROVE Says(t, p, new[p])
    <3>1. Says(old, p, carried[p])
      BY <1>3, <1>8, <2>1, <2>3, ToTellHeeded DEF SnapshotFits, Carry!Editable
    <3>2. CASE p \in S
      <4>1. Has(old, p)
        BY <3>1 DEF Says, Has
      <4> QED  BY <1>9, <3>2, <4>1
    <3>3. CASE p \notin S
      <4>1. new[p] = carried[p]
        BY <1>2, <2>1, <3>3
      <4>2. \A i \in DOMAIN old : old[i].product = p => t[i] = old[i]
        BY <1>9, <3>3 DEF Extends
      <4> QED  BY <1>9, <3>1, <4>1, <4>2 DEF Says, Extends
    <3> QED  BY <3>2, <3>3
  <2> QED  BY <1>2, <1>3, <1>7, <1>8, <1>10, <2>1, <2>2, <2>3 DEF SnapshotFits, JoinFailed
<1> QED  BY <1>6, <1>12, <1>13, <1>14, <1>15, <1>3 DEF SnapInv

LEMMA StatusSet == ASSUME SnapInv, Carry!SetStatus PROVE SnapInv'
<1>1. PICK s \in Carry!Live \cup {"ended"} :
        /\ \/ shipment.status \in {"In Preparation", "On The Way"}
           \/ shipment.status = "On Hold - Missing Data" /\ s = "ended"
        /\ shipment' = [shipment EXCEPT !.status = s]
        /\ carried' = IF s # "ended" THEN carried
                      ELSE [p \in Products |-> IF p \in shipment.products
                                               THEN [carried[p] EXCEPT !.status = "Available"] ELSE carried[p]]
  BY DEF Carry!SetStatus
<1>2. /\ Carry!Quiet /\ behind' = behind \cup Carry!Heeded
      /\ UNCHANGED <<heard, listeners, edits, failed>>
  BY DEF Carry!SetStatus
<1>3. carried' \in [Products -> Carry!Product]
  <2>1. ASSUME NEW p \in Products
        PROVE  carried[p] \in Carry!Product /\ [carried[p] EXCEPT !.status = "Available"] \in Carry!Product
    BY DEF SnapInv, SnapTypes, Carry!Product
  <2> QED  BY <1>1, <2>1 DEF SnapInv, SnapTypes
<1>4. \A r \in Editors : edits[r] = Carry!Idle /\ edits'[r] = Carry!Idle /\ EditFits(edits[r])'
  BY <1>2, QuietEdits
<1>5. /\ shipment' \in [status : Carry!Statuses, products : SUBSET Products, snapshots : Seq(Snap), version : Nat]
      /\ shipment'.status = s /\ shipment'.products = shipment.products /\ shipment'.snapshots = shipment.snapshots
      /\ s # "none" /\ shipment.status # "ended"
  <2>1. s \in Carry!Statuses /\ s # "none" /\ shipment.status # "ended"
    BY <1>1 DEF Carry!Editable, Carry!Live, Carry!Statuses
  <2> QED  BY <1>1, <2>1 DEF SnapInv, SnapTypes
<1>6. Carry!Heeded \subseteq Products
  BY DEF Carry!Heeded
<1>7. SnapTypes' /\ Carry!OneSnapshot' /\ Extends(shipment.snapshots, shipment'.snapshots)
  BY <1>2, <1>3, <1>5, <1>6, SameSnapshots DEF SnapInv, SnapTypes
<1>8. ASSUME NEW l \in Listeners PROVE RunFits(listeners[l])'
  <2>1. PICK k : k = listeners[l]
    OBVIOUS
  <2>2. RunFits(k)
    BY <2>1 DEF SnapInv
  <2>3. k # Carry!NoRun => k.product \in Products /\ k.product \in behind'
    BY <1>2, <2>1, <2>2 DEF RunFits, SnapInv, SnapTypes, Carry!Heeded, Carry!Heeding
  <2>4. RunFits(k)'
    BY <1>2, <1>4, <1>5, <1>7, <2>2, <2>3, IdleOnes, RunStays DEF JoinFailed
  <2> QED  BY <1>2, <2>1, <2>4 DEF RunFits
<1>9. ASSUME NEW p \in shipment'.products PROVE SnapshotFits(p)'
  <2>1. SnapshotFits(p) /\ p \in Products
    BY <1>5 DEF SnapInv, SnapTypes
  <2>2. p \notin behind' => Says(shipment.snapshots, p, carried[p])
    BY <1>2, <1>5, <2>1, ToTellHeeded DEF SnapshotFits
  <2> QED  BY <1>1, <1>2, <1>4, <1>5, <2>1, <2>2, IdleOnes DEF SnapshotFits, JoinFailed
<1> QED  BY <1>2, <1>4, <1>7, <1>8, <1>9 DEF SnapInv

-----------------------------------------------------------------------------
\* The beginning, every step, and what the invariant says.

LEMMA InitSnapshots == ASSUME Carry!Init PROVE SnapInv
<1> DEFINE x == [text |-> 0, place |-> "old", status |-> "Available"]
<1>1. /\ carried = [p \in Products |-> x]
      /\ shipment = [status |-> "none", products |-> {}, snapshots |-> << >>, version |-> 0]
      /\ heard = {} /\ behind = {} /\ listeners = [l \in Listeners |-> Carry!NoRun]
      /\ edits = [r \in Editors |-> Carry!Idle]
  BY DEF Carry!Init
<1>2. x \in Carry!Product
  BY DEF Carry!Product
<1> HIDE DEF x
<1>3. DOMAIN carried = Products /\ carried \in [Products -> Carry!Product]
  BY <1>1, <1>2
<1>4. /\ shipment.status = "none" /\ shipment.products = {} /\ shipment.snapshots = << >> /\ shipment.version = 0
      /\ shipment \in [status : Carry!Statuses, products : SUBSET Products, snapshots : Seq(Snap), version : Nat]
  BY <1>1 DEF Carry!Statuses
<1>5. SnapTypes /\ Carry!OneSnapshot
  BY <1>1, <1>3, <1>4 DEF SnapTypes, Carry!OneSnapshot
<1> QED  BY <1>1, <1>4, <1>5 DEF SnapInv, EditFits, RunFits

LEMMA NextSnapshots == ASSUME OneEditor, SnapInv, Carry!Next PROVE SnapInv'
<1>1. ASSUME NEW r \in Editors,
             \/ Carry!Join(r) \/ Carry!Settle(r) \/ Carry!EditLook(r) \/ Carry!EditWrite(r)
             \/ Carry!Announce(r) \/ Carry!FailRequest(r)
      PROVE  SnapInv'
  BY <1>1, Joined, Settled, EditLooked, EditWritten, Announced, RequestFailed
<1>2. ASSUME NEW l \in Listeners,
             Carry!ListenProduct(l) \/ Carry!ListenShipment(l) \/ Carry!ListenSave(l) \/ Carry!FailListener(l)
      PROVE  SnapInv'
  BY <1>2, ProductListened, ShipmentListened, ListenerSaved, ListenerFailed
<1> QED  BY <1>1, <1>2, TimePassed, ShipmentReaddressed, StatusSet DEF Carry!Next

LEMMA SnapshotsRest == ASSUME SnapInv, UNCHANGED carryVars PROVE SnapInv'
<1>1. UNCHANGED <<carried, shipment, heard, listeners, edits, behind, failed>>
  BY DEF carryVars
<1>2. SnapTypes' /\ Carry!OneSnapshot'
  BY <1>1, SameSnapshots DEF SnapInv, SnapTypes
<1>3. ASSUME NEW o \in Editors PROVE EditFits(edits[o])'
  BY <1>1 DEF SnapInv, EditFits, Carry!Idle, Carry!Active
<1>4. ASSUME NEW l \in Listeners PROVE RunFits(listeners[l])'
  BY <1>1 DEF SnapInv, RunFits, Carry!NoRun, JoinFailed
<1>5. ASSUME NEW q \in shipment'.products PROVE SnapshotFits(q)'
  BY <1>1 DEF SnapInv, SnapshotFits, ToTell, JoinFailed
<1> QED  BY <1>2, <1>3, <1>4, <1>5, <1>1 DEF SnapInv

LEMMA SnapshotsFollow == ASSUME SnapInv PROVE SnapshotsFit
<1>1. Carry!TypeOK
  <2>1. \A i \in DOMAIN shipment.snapshots : shipment.snapshots[i].data \in Carry!Product
    <3>1. PICK s : s = shipment.snapshots
      OBVIOUS
    <3>2. s \in Seq(Snap)
      BY <3>1 DEF SnapInv, SnapTypes
    <3>3. \A i \in DOMAIN s : s[i] \in Snap
      BY <3>2
    <3> QED  BY <3>1, <3>3 DEF Snap
  <2>2. \A l \in Listeners : listeners[l].product \in Products \cup {None}
    BY DEF SnapInv, SnapTypes, RunFits, Carry!NoRun
  <2>3. \A r \in Editors : edits[r].product \in Products \cup {None}
    BY DEF SnapInv, EditFits, Carry!Idle
  <2> QED  BY <2>1, <2>2, <2>3 DEF SnapInv, SnapTypes, Carry!TypeOK
<1>2. Carry!SnapshotsTell
  <2> SUFFICES ASSUME Carry!Quiet, Carry!Heeded = {}, shipment.status \in Carry!Editable,
                      NEW p \in shipment.products \ behind
               PROVE  Says(shipment.snapshots, p, carried[p])
    BY DEF Carry!SnapshotsTell, Says, Fits
  <2>1. SnapshotFits(p) /\ p \in Products /\ shipment.status # "ended"
    BY DEF SnapInv, SnapTypes, Carry!Editable
  <2> QED  BY <2>1, ToTellHeeded DEF SnapshotFits
<1> QED  BY <1>1, <1>2 DEF SnapInv, SnapshotsFit, Carry!SnapshotsFit

\* The snapshots of a shipment fit its products in every behaviour of the part, for any
\* number of products, edits, runs of the listener and changes of status, if edits and
\* assignments come one at a time.
THEOREM SnapshotsAlwaysFit == OneEditor => (PartSpec => []SnapshotsFit)
<1> SUFFICES ASSUME OneEditor PROVE PartSpec => []SnapshotsFit
  OBVIOUS
<1>1. PartInit => SnapInv
  BY InitSnapshots DEF PartInit
<1>2. SnapInv /\ [WarehousesStep \/ ProductsStep \/ SnapshotsStep]_all => SnapInv'
  BY NextSnapshots, SnapshotsRest DEF WarehousesStep, ProductsStep, SnapshotsStep, all, carryVars
<1>3. SnapInv => SnapshotsFit
  BY SnapshotsFollow
<1> QED  BY <1>1, <1>2, <1>3, PTL DEF PartSpec

=============================================================================
