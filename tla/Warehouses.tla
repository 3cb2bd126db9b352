------------------------------ MODULE Warehouses ------------------------------
(***************************************************************************)
(* The FP warehouses of one country, from src/src/warehouses. There is one *)
(* document per country, with an array of warehouses, at most one of which *)
(* is meant to be active. Every operation of WarehousesService loads the   *)
(* document, changes it in memory and saves it; Mongoose sends the fields  *)
(* that changed and only sometimes compares the version of the document.   *)
(***************************************************************************)
EXTENDS Naturals, Sequences

CONSTANTS
    Fields,         \* the required fields: name, address, city, state, zipCode
    PartnerTypes,   \* the partner types in use
    NewBlanks,      \* the sets of fields a new warehouse may leave blank
    Requests,       \* HTTP requests that may be in flight at the same time
    Operations,     \* the kinds of request a run lets users issue
    MaxWarehouses   \* bound: warehouses ever created

OperationKinds ==
    {"initialize", "create", "data", "edit", "delete", "toggle", "crash"}

ASSUME ConstantsAssumption ==
    /\ PartnerTypes \subseteq {"partner", "own", "temporary", "default"}
    /\ "default" \in PartnerTypes
    /\ NewBlanks \subseteq SUBSET Fields
    /\ Operations \subseteq OperationKinds
    /\ MaxWarehouses \in Nat

VARIABLES
    country,    \* the stored document
    requests    \* what every request is doing

vars == <<country, requests>>

-----------------------------------------------------------------------------
\* Values.

Warehouse ==
    [isActive : BOOLEAN, isDeleted : BOOLEAN,
     blank : SUBSET Fields, partnerType : PartnerTypes]

Country ==
    [exists : BOOLEAN, warehouses : Seq(Warehouse),
     hasActiveWarehouse : BOOLEAN, version : Nat]

NoCountry == [exists |-> FALSE, warehouses |-> <<>>,
              hasActiveWarehouse |-> FALSE, version |-> 0]

Idle == [pc |-> "idle"]

RequestStates ==
    {Idle} \cup [pc : {"inserting", "inserted"}]
           \cup [pc : {"loaded", "defaulting"}, seen : Country]

\* Mutant: the default warehouse has no partner type.
DefaultUntyped == [isActive |-> FALSE, isDeleted |-> FALSE,
                   blank |-> Fields, partnerType |-> ""]

\* The warehouse without data that a country begins with.
Default == [isActive |-> FALSE, isDeleted |-> FALSE,
            blank |-> Fields, partnerType |-> "default"]

\* isWarehouseComplete, and the filters over the array.
Complete(w) == w.blank = {}

\* Mutant: deleted warehouses are still found.
ListedAll(ws) == DOMAIN ws

Listed(ws)     == {i \in DOMAIN ws : ~ws[i].isDeleted}
ActiveOnes(ws) == {i \in Listed(ws) : ws[i].isActive}
Candidates(ws) == {i \in Listed(ws) : Complete(ws[i])}

Priority(w) ==
    CASE w.partnerType = "partner"   -> 1
      [] w.partnerType = "own"       -> 2
      [] w.partnerType = "temporary" -> 3
      [] w.partnerType = "default"   -> 4

-----------------------------------------------------------------------------
\* What the operations make of the array of warehouses.

SetActive(ws, i, on) == [ws EXCEPT ![i].isActive = on]

\* Mutant: the best candidate is looked for among the incomplete as well.
BestOfAll(ws, among) ==
    {i \in Listed(ws) \cap among :
        \A j \in Listed(ws) \cap among : i <= j}

\* findBestActiveCandidate: the first of the best priority, if there is any.
Best(ws, among) ==
    {i \in Candidates(ws) \cap among :
        \A j \in Candidates(ws) \cap among :
            \/ Priority(ws[i]) < Priority(ws[j])
            \/ Priority(ws[i]) = Priority(ws[j]) /\ i <= j}

\* Mutant: nobody takes over.
PromoteNobody(ws, among) == ws

Promote(ws, among) ==
    [i \in DOMAIN ws |->
        IF i \in Best(ws, among) THEN [ws[i] EXCEPT !.isActive = TRUE] ELSE ws[i]]

\* Mutant: the others are not deactivated.
ActivatedBeside(ws, i) == SetActive(ws, i, TRUE)

\* Warehouse i is activated and all the others are not.
Activated(ws, i) ==
    [j \in DOMAIN ws |->
        IF j \in Listed(ws) THEN [ws[j] EXCEPT !.isActive = (j = i)] ELSE ws[j]]

Written(ws, i, blank, type) ==
    [ws EXCEPT ![i].blank = blank, ![i].partnerType = type]

\* updateWarehouseData.
WithData(ws, i, blank, type) ==
    LET was     == Complete(ws[i])
        written == Written(ws, i, blank, type)
        now     == Complete(written[i])
    IN  IF ~was /\ now /\ ActiveOnes(ws) \ {i} = {}
        THEN SetActive(written, i, TRUE)
        ELSE IF was /\ ~now /\ ws[i].isActive
        THEN Promote(SetActive(written, i, FALSE), DOMAIN ws \ {i})
        ELSE written

\* isActive in a request body.
Flags == {"absent", "true", "false"}

\* updateWarehouse, deprecated but still routed: the body may carry isActive
\* (flag), which is assigned before anything is looked at. An incomplete
\* warehouse is not activated on request: see Edit.
Edited(ws, i, blank, type, flag) ==
    LET assigned == IF flag = "absent" THEN Written(ws, i, blank, type)
                    ELSE SetActive(Written(ws, i, blank, type), i, flag = "true")
    IN  IF Complete(assigned[i])
        THEN IF flag = "true" THEN Activated(assigned, i)
             ELSE IF ActiveOnes(assigned) \ {i} = {}
             THEN SetActive(assigned, i, TRUE) ELSE assigned
        ELSE IF assigned[i].isActive
             THEN Promote(SetActive(assigned, i, FALSE), DOMAIN ws) ELSE assigned

\* deleteWarehouse.
Deleted(ws, i) ==
    LET gone == [ws EXCEPT ![i].isDeleted = TRUE, ![i].isActive = FALSE]
    IN  IF ws[i].isActive THEN Promote(gone, DOMAIN ws) ELSE gone

\* toggleWarehouseActive with false.
Deactivated(ws, i) == Promote(SetActive(ws, i, FALSE), DOMAIN ws \ {i})

\* createWarehouse.
WithNew(ws, new) ==
    Append([i \in DOMAIN ws |->
              IF new.isActive /\ i \in Listed(ws)
              THEN [ws[i] EXCEPT !.isActive = FALSE] ELSE ws[i]], new)

-----------------------------------------------------------------------------
\* Saving. seen is what the request loaded, new what it made of the array.

\* Only fields that differ from what was loaded are sent. A required field that
\* was filled and stays filled counts as not sent.
Merged(now, seen, new) ==
    [isActive    |-> IF new.isActive = seen.isActive THEN now.isActive
                                                     ELSE new.isActive,
     isDeleted   |-> IF new.isDeleted = seen.isDeleted THEN now.isDeleted
                                                       ELSE new.isDeleted,
     blank       |-> (now.blank \ (seen.blank \ new.blank))
                        \cup (new.blank \ seen.blank),
     partnerType |-> IF new.partnerType = seen.partnerType THEN now.partnerType
                                                           ELSE new.partnerType]

\* A pure push is sent as it is and bumps the version. Fields of the elements
\* are sent if the version is the one loaded, and do not bump it. A push
\* together with changed elements sends the whole array and does both.
Stored(seen, new) ==
    LET old     == DOMAIN seen.warehouses
        pushes  == Len(new) > Len(seen.warehouses)
        touches == \E i \in old : new[i] # seen.warehouses[i]
    IN  CASE pushes /\ ~touches -> Append(country.warehouses, new[Len(new)])
          [] pushes /\ touches  -> new
          [] OTHER ->
               [i \in DOMAIN country.warehouses |->
                  IF i \in old
                  THEN Merged(country.warehouses[i], seen.warehouses[i], new[i])
                  ELSE country.warehouses[i]]

\* Does the filter of the update name the version?
Compares(seen, new) ==
    \/ Len(new) = Len(seen.warehouses)
    \/ \E i \in DOMAIN seen.warehouses : new[i] # seen.warehouses[i]

\* The pre-save hook.
HasActive(ws) == ActiveOnes(ws) # {}

Save(r, seen, new) ==
    /\ Len(new) <= MaxWarehouses
    /\ country' =
         IF Compares(seen, new) /\ country.version # seen.version THEN country
         ELSE [country EXCEPT
                 !.warehouses = Stored(seen, new),
                 !.hasActiveWarehouse =
                     IF HasActive(new) = seen.hasActiveWarehouse THEN @
                                                                 ELSE HasActive(new),
                 !.version = IF Len(new) > Len(seen.warehouses) THEN @ + 1 ELSE @]
    /\ requests' = [requests EXCEPT ![r] = Idle]

-----------------------------------------------------------------------------
\* The operations.

Init == country = NoCountry /\ requests = [r \in Requests |-> Idle]

\* findByCountry, with which each of them begins.
Load(r) ==
    /\ requests[r] = Idle /\ country.exists
    /\ requests' = [requests EXCEPT ![r] = [pc |-> "loaded", seen |-> country]]
    /\ UNCHANGED country

Handles(r, op) == op \in Operations /\ requests[r].pc = "loaded"

Create(r) ==
    LET seen == requests[r].seen IN
    /\ Handles(r, "create")
    /\ \E active \in BOOLEAN, blank \in NewBlanks, type \in PartnerTypes :
          Save(r, seen, WithNew(seen.warehouses,
             [isActive |-> active, isDeleted |-> FALSE,
              blank |-> blank, partnerType |-> type]))

UpdateData(r) ==
    LET seen == requests[r].seen IN
    /\ Handles(r, "data")
    /\ \E i \in Listed(seen.warehouses), blank \in SUBSET Fields,
          type \in PartnerTypes :
          Save(r, seen, WithData(seen.warehouses, i, blank, type))

Edit(r) ==
    LET seen == requests[r].seen IN
    /\ Handles(r, "edit")
    /\ \E i \in Listed(seen.warehouses), blank \in SUBSET Fields,
          type \in PartnerTypes, flag \in Flags :
          /\ ~(flag = "true" /\ blank # {})
          /\ Save(r, seen, Edited(seen.warehouses, i, blank, type, flag))

Delete(r) ==
    LET seen == requests[r].seen IN
    /\ Handles(r, "delete")
    /\ \E i \in Listed(seen.warehouses) : Save(r, seen, Deleted(seen.warehouses, i))

\* toggleWarehouseActive changes something, and only to what is complete.
MayToggle(w, on) == w.isActive # on /\ (on => Complete(w))

\* toggleWarehouseActive, and activateWarehouse.
Toggle(r) ==
    LET seen == requests[r].seen
        ws   == seen.warehouses IN
    /\ Handles(r, "toggle")
    /\ \E i \in Listed(ws), on \in BOOLEAN :
          /\ MayToggle(ws[i], on)
          /\ Save(r, seen, IF on THEN Activated(ws, i) ELSE Deactivated(ws, i))

\* The operation found nothing to do, or refused.
Refuse(r) ==
    /\ requests[r].pc = "loaded"
    /\ requests' = [requests EXCEPT ![r] = Idle]
    /\ UNCHANGED country

-----------------------------------------------------------------------------
\* initializeCountry, also called for a product of a country not seen before.

FindNone(r) ==
    /\ "initialize" \in Operations /\ requests[r] = Idle /\ ~country.exists
    /\ requests' = [requests EXCEPT ![r] = [pc |-> "inserting"]]
    /\ UNCHANGED country

\* createCountryDocument. The name is unique: the second insert fails.
InsertCountry(r) ==
    /\ requests[r].pc = "inserting"
    /\ country' = [country EXCEPT !.exists = TRUE]
    /\ requests' = [requests EXCEPT ![r] =
                      IF country.exists THEN Idle ELSE [pc |-> "inserted"]]

\* createDefaultWarehouse loads the document again ...
LoadInserted(r) ==
    /\ requests[r].pc = "inserted"
    /\ requests' = [requests EXCEPT ![r] = [pc |-> "defaulting", seen |-> country]]
    /\ UNCHANGED country

\* Mutant: the new country is left without a warehouse.
PushDefaultNever(r) ==
    /\ requests[r].pc = "defaulting"
    /\ requests' = [requests EXCEPT ![r] = Idle]
    /\ UNCHANGED country

\* ... and gives it its first warehouse.
PushDefault(r) ==
    LET seen == requests[r].seen IN
    /\ requests[r].pc = "defaulting"
    /\ Save(r, seen, Append(seen.warehouses, Default))

\* The server process dies under a request, or one of its calls fails.
Crash(r) ==
    /\ "crash" \in Operations /\ requests[r] # Idle
    /\ requests' = [requests EXCEPT ![r] = Idle]
    /\ UNCHANGED country

Next ==
    \E r \in Requests :
        \/ Load(r) \/ Create(r) \/ UpdateData(r) \/ Edit(r) \/ Delete(r)
        \/ Toggle(r) \/ Refuse(r)
        \/ FindNone(r) \/ InsertCountry(r) \/ LoadInserted(r) \/ PushDefault(r)
        \/ Crash(r)

Spec == Init /\ [][Next]_vars

-----------------------------------------------------------------------------
\* Properties.

\* Every variable keeps its shape.
TypeOK ==
    /\ country \in Country
    /\ requests \in [Requests -> RequestStates]

\* A country has at most one active warehouse: products for the FP warehouse
\* go to the first active one that is found.
AtMostOneActive ==
    \A i, j \in ActiveOnes(country.warehouses) : i = j

\* An active warehouse has all its required fields: products are sent there.
ActiveIsComplete ==
    \A i \in ActiveOnes(country.warehouses) : Complete(country.warehouses[i])

\* hasActiveWarehouse, by which products look for a country, says whether it
\* has an active warehouse.
HasActiveExact ==
    country.hasActiveWarehouse <=> ActiveOnes(country.warehouses) # {}

\* A country that nobody is working on has a warehouse, if only the default.
CountryHasWarehouse ==
    country.exists /\ (\A r \in Requests : requests[r] = Idle)
        => country.warehouses # <<>>

\* A warehouse that has been deleted stays deleted, and inactive.
DeletedForGood ==
    [][\A i \in DOMAIN country.warehouses : country.warehouses[i].isDeleted =>
          /\ i \in DOMAIN country'.warehouses
          /\ country'.warehouses[i].isDeleted
          /\ ~country'.warehouses[i].isActive]_vars

\* When a country loses its active warehouse, no other complete warehouse is
\* left that could have taken over.
ActiveIsReplaced ==
    [][\A i \in ActiveOnes(country.warehouses) :
          ActiveOnes(country'.warehouses) = {}
             => Candidates(country'.warehouses) \subseteq {i}]_vars

\* hasActiveWarehouse is what the list says, at every moment, and a country loses
\* its active warehouse only when there is none to take over.
ActiveKept == []HasActiveExact /\ ActiveIsReplaced

=============================================================================
