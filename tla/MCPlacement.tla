---------------------------- MODULE MCPlacement ----------------------------
(***************************************************************************)
(* The warehouses of a country as they are initialized and administered    *)
(* (Warehouses), the products that are placed in them (Placement), and the *)
(* snapshots of products that are on their way (Snapshots), for TLC.       *)
(* Placement has warehouses of its own, with less detail and in more       *)
(* countries; in a behaviour one of the three modules moves.               *)
(***************************************************************************)
EXTENDS Warehouses, FiniteSets

CONSTANTS Products, Tenants, Staying, Members, Offices, GoneOffices, Countries,
          Argentina, None, Text, TenantOf, CountryOf, DefaultOffice, Editors, Listeners, MaxEdits

VARIABLES part, products, copies, warehouses, move, news, lost, missed, crossed, edited, from,
          carried, shipment, heard, listeners, edits, behind, failed

\* For the run: every product is another tenant's; members and offices are not all at home.
FirstTenants == CHOOSE f \in [Products -> Tenants] : \A t \in Tenants : \E p \in Products : f[p] = t
SomeCountries ==
    CHOOSE f \in [Members \cup Offices -> Countries] :
        /\ \A c \in Countries : \E m \in Members : f[m] = c
        /\ \A o \in Offices : f[o] # Argentina

SomeOffice == CHOOSE o \in Offices : TRUE

Place == INSTANCE Placement WITH Default <- DefaultOffice
Carry == INSTANCE Snapshots WITH products <- carried, Requests <- Editors, requests <- edits

\* Members and offices may have a country, None and Text are no values of theirs.
ASSUME PlaceConstants ==
    /\ None \notin Members \cup Offices \cup Countries \cup Place!Stock \cup Carry!Editable \cup {Text}
    /\ Text \notin Members
    /\ Argentina \in Countries /\ CountryOf \in [Members \cup Offices -> Countries \cup {None}]
    /\ DefaultOffice \in Offices \cup {None}

\* A field of spaces passes @IsNotEmpty and is blank to isWarehouseComplete.
NoneBlank == {{}}
AllRoutes == {"initialize", "create", "data", "delete", "toggle", "edit"}

placeVars == <<products, copies, warehouses, move, news, lost, missed, crossed, edited, from>>
carryVars == <<carried, shipment, heard, listeners, edits, behind, failed>>
all       == <<part, vars, placeVars, carryVars>>

WarehousesStep == part = "warehouses" /\ Next /\ UNCHANGED <<part, placeVars, carryVars>>
ProductsStep   == part = "products" /\ Place!Next /\ UNCHANGED <<part, vars, carryVars>>
SnapshotsStep  == part = "snapshots" /\ Carry!Next /\ UNCHANGED <<part, vars, placeVars>>

PartInit ==
    /\ part \in {"warehouses", "products", "snapshots"}
    /\ Init /\ Place!Init /\ Carry!Init
    /\ part # "products" =>
          warehouses = [c \in Countries |-> [known |-> TRUE, listed |-> {"default"}, active |-> {}, name |-> [w \in Place!Which |-> 0]]]

PartSpec == PartInit /\ [][WarehousesStep \/ ProductsStep \/ SnapshotsStep]_all

\* The places of products fit the way they went (see Placement).
PlacesFit == Place!PlacesFit

\* The snapshots of a shipment fit its products (see Snapshots).
SnapshotsFit == Carry!SnapshotsFit

=============================================================================
