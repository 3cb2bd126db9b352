------------------------ MODULE Administration_proofs ------------------------
(***************************************************************************)
(* What is kept outside the databases of the tenants: what holds of        *)
(* Warehouses for every number of fields, warehouses and requests, and     *)
(* what holds when requests do not overlap; what holds of Accounts and of  *)
(* Connections for every number of users, tenants and requests.            *)
(***************************************************************************)
EXTENDS MCAdministration, WellFoundedInduction, FiniteSetTheorems, TLAPS

Array == Seq(Warehouse)

\* An operation changes elements in place and adds one at most.
Grows(ws, new) ==
    new \in Array /\ Len(new) \in {Len(ws), Len(ws) + 1}

-----------------------------------------------------------------------------
\* Every operation makes an array of warehouses out of one.

LEMMA SequenceIsFunction ==
    ASSUME NEW S, NEW n \in Nat, NEW f \in [1 .. n -> S]
    PROVE  f \in Seq(S) /\ Len(f) = n /\ DOMAIN f = 1 .. n
OBVIOUS

LEMMA ReplaceType ==
    ASSUME NEW S, NEW s \in Seq(S), NEW i \in DOMAIN s, NEW e \in S
    PROVE  /\ [s EXCEPT ![i] = e] \in Seq(S)
           /\ Len([s EXCEPT ![i] = e]) = Len(s)
           /\ DOMAIN [s EXCEPT ![i] = e] = DOMAIN s
           /\ \A j \in DOMAIN s :
                 [s EXCEPT ![i] = e][j] = IF j = i THEN e ELSE s[j]
OBVIOUS

LEMMA ElementType ==
    ASSUME NEW ws \in Array, NEW i \in DOMAIN ws
    PROVE  /\ ws[i] \in Warehouse
           /\ \A on \in BOOLEAN : [ws[i] EXCEPT !.isActive = on] \in Warehouse
           /\ \A blank \in SUBSET Fields, type \in PartnerTypes :
                 [ws[i] EXCEPT !.blank = blank, !.partnerType = type] \in Warehouse
<1>1. ws[i] \in Warehouse
  BY DEF Array
<1> QED  BY <1>1 DEF Warehouse

LEMMA SetActiveType ==
    ASSUME NEW ws \in Array, NEW i \in DOMAIN ws, NEW on \in BOOLEAN
    PROVE  /\ SetActive(ws, i, on) \in Array
           /\ Len(SetActive(ws, i, on)) = Len(ws)
           /\ DOMAIN SetActive(ws, i, on) = DOMAIN ws
<1> DEFINE e == [ws[i] EXCEPT !.isActive = on]
<1>1. e \in Warehouse  BY ElementType
<1>2. ws \in Seq(Warehouse)  BY DEF Array
<1>3. SetActive(ws, i, on) = [ws EXCEPT ![i] = e]  BY DEF SetActive
<1> HIDE DEF e
<1> QED  BY <1>1, <1>2, <1>3, ReplaceType DEF Array

LEMMA SetActiveFields ==
    ASSUME NEW ws \in Array, NEW i \in DOMAIN ws, NEW on \in BOOLEAN,
           NEW j \in DOMAIN ws
    PROVE  LET new == SetActive(ws, i, on)[j]
           IN  /\ new.isActive = IF j = i THEN on ELSE ws[j].isActive
               /\ new.isDeleted = ws[j].isDeleted
               /\ new.blank = ws[j].blank
<1>1. ws[j] \in Warehouse /\ ws[i] \in Warehouse  BY ElementType
<1>2. ws \in Seq(Warehouse)  BY DEF Array
<1> QED  BY <1>1, <1>2 DEF SetActive, Warehouse

LEMMA WrittenType ==
    ASSUME NEW ws \in Array, NEW i \in DOMAIN ws,
           NEW blank \in SUBSET Fields, NEW type \in PartnerTypes
    PROVE  /\ Written(ws, i, blank, type) \in Array
           /\ Len(Written(ws, i, blank, type)) = Len(ws)
           /\ DOMAIN Written(ws, i, blank, type) = DOMAIN ws
<1> DEFINE e == [ws[i] EXCEPT !.blank = blank, !.partnerType = type]
<1>1. e \in Warehouse  BY ElementType
<1>2. ws \in Seq(Warehouse)  BY DEF Array
<1>3. Written(ws, i, blank, type) = [ws EXCEPT ![i] = e]
  BY <1>2 DEF Written
<1> HIDE DEF e
<1> QED  BY <1>1, <1>2, <1>3, ReplaceType DEF Array

LEMMA WrittenFields ==
    ASSUME NEW ws \in Array, NEW i \in DOMAIN ws,
           NEW blank \in SUBSET Fields, NEW type \in PartnerTypes,
           NEW j \in DOMAIN ws
    PROVE  LET new == Written(ws, i, blank, type)[j]
           IN  /\ new.isActive = ws[j].isActive
               /\ new.isDeleted = ws[j].isDeleted
               /\ new.blank = IF j = i THEN blank ELSE ws[j].blank
<1>1. ws[j] \in Warehouse /\ ws[i] \in Warehouse  BY ElementType
<1>2. ws \in Seq(Warehouse)  BY DEF Array
<1> QED  BY <1>1, <1>2 DEF Written, Warehouse

LEMMA PromoteType ==
    ASSUME NEW ws \in Array, NEW among
    PROVE  /\ Promote(ws, among) \in Array
           /\ Len(Promote(ws, among)) = Len(ws)
           /\ DOMAIN Promote(ws, among) = DOMAIN ws
<1>1. DOMAIN ws = 1 .. Len(ws) /\ Len(ws) \in Nat  BY DEF Array
<1>2. Promote(ws, among) \in [1 .. Len(ws) -> Warehouse]
  BY <1>1, ElementType DEF Promote
<1> QED  BY <1>1, <1>2, SequenceIsFunction DEF Array

LEMMA PromoteFields ==
    ASSUME NEW ws \in Array, NEW among, NEW j \in DOMAIN ws
    PROVE  LET new == Promote(ws, among)[j]
           IN  /\ new.isActive = IF j \in Best(ws, among) THEN TRUE
                                                          ELSE ws[j].isActive
               /\ new.isDeleted = ws[j].isDeleted
               /\ new.blank = ws[j].blank
<1>1. ws[j] \in Warehouse  BY ElementType
<1> QED  BY <1>1 DEF Promote, Warehouse

LEMMA ActivatedType ==
    ASSUME NEW ws \in Array, NEW i
    PROVE  /\ Activated(ws, i) \in Array
           /\ Len(Activated(ws, i)) = Len(ws)
           /\ DOMAIN Activated(ws, i) = DOMAIN ws
<1>1. DOMAIN ws = 1 .. Len(ws) /\ Len(ws) \in Nat  BY DEF Array
<1>2. \A j \in DOMAIN ws : (j = i) \in BOOLEAN  OBVIOUS
<1>3. Activated(ws, i) \in [1 .. Len(ws) -> Warehouse]
  BY <1>1, <1>2, ElementType DEF Activated
<1> QED  BY <1>1, <1>3, SequenceIsFunction DEF Array

LEMMA ActivatedFields ==
    ASSUME NEW ws \in Array, NEW i, NEW j \in DOMAIN ws
    PROVE  LET new == Activated(ws, i)[j]
           IN  /\ new.isActive = IF ws[j].isDeleted THEN ws[j].isActive ELSE j = i
               /\ new.isDeleted = ws[j].isDeleted
               /\ new.blank = ws[j].blank
<1>1. ws[j] \in Warehouse  BY ElementType
<1> QED  BY <1>1 DEF Activated, Warehouse, Listed

LEMMA WithDataType ==
    ASSUME NEW ws \in Array, NEW i \in DOMAIN ws,
           NEW blank \in SUBSET Fields, NEW type \in PartnerTypes
    PROVE  Grows(ws, WithData(ws, i, blank, type))
<1> DEFINE written == Written(ws, i, blank, type)
<1>1. written \in Array /\ Len(written) = Len(ws) /\ i \in DOMAIN written
  BY WrittenType
<1>2. SetActive(written, i, TRUE) \in Array
        /\ Len(SetActive(written, i, TRUE)) = Len(ws)
  BY <1>1, SetActiveType
<1>3. SetActive(written, i, FALSE) \in Array
        /\ Len(SetActive(written, i, FALSE)) = Len(ws)
  BY <1>1, SetActiveType
<1>4. Promote(SetActive(written, i, FALSE), DOMAIN ws \ {i}) \in Array
        /\ Len(Promote(SetActive(written, i, FALSE), DOMAIN ws \ {i})) = Len(ws)
  BY <1>3, PromoteType
<1> QED  BY <1>1, <1>2, <1>4 DEF WithData, Grows

LEMMA EditedType ==
    ASSUME NEW ws \in Array, NEW i \in DOMAIN ws,
           NEW blank \in SUBSET Fields, NEW type \in PartnerTypes,
           NEW flag \in Flags
    PROVE  Grows(ws, Edited(ws, i, blank, type, flag))
<1> DEFINE assigned == IF flag = "absent" THEN Written(ws, i, blank, type)
                       ELSE SetActive(Written(ws, i, blank, type), i, flag = "true")
<1>1. /\ Written(ws, i, blank, type) \in Array
      /\ Len(Written(ws, i, blank, type)) = Len(ws)
      /\ i \in DOMAIN Written(ws, i, blank, type)
  BY WrittenType
<1>2. (flag = "true") \in BOOLEAN
  OBVIOUS
<1>3. assigned \in Array /\ Len(assigned) = Len(ws) /\ i \in DOMAIN assigned
  BY <1>1, <1>2, SetActiveType
<1> HIDE DEF assigned
<1>4. /\ Activated(assigned, i) \in Array /\ Len(Activated(assigned, i)) = Len(ws)
      /\ SetActive(assigned, i, TRUE) \in Array
      /\ Len(SetActive(assigned, i, TRUE)) = Len(ws)
      /\ SetActive(assigned, i, FALSE) \in Array
      /\ Len(SetActive(assigned, i, FALSE)) = Len(ws)
  BY <1>3, ActivatedType, SetActiveType
<1>5. Promote(SetActive(assigned, i, FALSE), DOMAIN ws) \in Array
        /\ Len(Promote(SetActive(assigned, i, FALSE), DOMAIN ws)) = Len(ws)
  BY <1>4, PromoteType
<1>6. Edited(ws, i, blank, type, flag) \in
        {Activated(assigned, i), SetActive(assigned, i, TRUE), assigned,
         Promote(SetActive(assigned, i, FALSE), DOMAIN ws)}
  BY DEF Edited, assigned
<1> QED  BY <1>3, <1>4, <1>5, <1>6 DEF Grows

Gone(ws, i) == [ws EXCEPT ![i].isDeleted = TRUE, ![i].isActive = FALSE]

LEMMA GoneType ==
    ASSUME NEW ws \in Array, NEW i \in DOMAIN ws
    PROVE  /\ Gone(ws, i) \in Array
           /\ Len(Gone(ws, i)) = Len(ws)
           /\ DOMAIN Gone(ws, i) = DOMAIN ws
<1> DEFINE e == [ws[i] EXCEPT !.isDeleted = TRUE, !.isActive = FALSE]
<1>1. ws \in Seq(Warehouse)  BY DEF Array
<1>2. e \in Warehouse  BY ElementType DEF Warehouse
<1>3. Gone(ws, i) = [ws EXCEPT ![i] = e]  BY <1>1 DEF Gone
<1> HIDE DEF e
<1> QED  BY <1>1, <1>2, <1>3, ReplaceType DEF Array

LEMMA GoneFields ==
    ASSUME NEW ws \in Array, NEW i \in DOMAIN ws, NEW j \in DOMAIN ws
    PROVE  LET new == Gone(ws, i)[j]
           IN  /\ new.isActive = IF j = i THEN FALSE ELSE ws[j].isActive
               /\ new.isDeleted = IF j = i THEN TRUE ELSE ws[j].isDeleted
               /\ new.blank = ws[j].blank
<1>1. ws[j] \in Warehouse /\ ws[i] \in Warehouse  BY ElementType
<1>2. ws \in Seq(Warehouse)  BY DEF Array
<1> QED  BY <1>1, <1>2 DEF Gone, Warehouse

LEMMA DeletedType ==
    ASSUME NEW ws \in Array, NEW i \in DOMAIN ws
    PROVE  Grows(ws, Deleted(ws, i))
<1>1. Gone(ws, i) \in Array /\ Len(Gone(ws, i)) = Len(ws)
  BY GoneType
<1>2. Promote(Gone(ws, i), DOMAIN ws) \in Array
        /\ Len(Promote(Gone(ws, i), DOMAIN ws)) = Len(ws)
  BY <1>1, PromoteType
<1> QED  BY <1>1, <1>2 DEF Deleted, Grows, Gone

LEMMA DeactivatedType ==
    ASSUME NEW ws \in Array, NEW i \in DOMAIN ws
    PROVE  Grows(ws, Deactivated(ws, i))
BY SetActiveType, PromoteType DEF Deactivated, Grows

LEMMA WithNewType ==
    ASSUME NEW ws \in Array, NEW new \in Warehouse
    PROVE  Grows(ws, WithNew(ws, new)) /\ Len(WithNew(ws, new)) = Len(ws) + 1
<1> DEFINE kept == [i \in DOMAIN ws |->
              IF new.isActive /\ i \in Listed(ws)
              THEN [ws[i] EXCEPT !.isActive = FALSE] ELSE ws[i]]
<1>1. DOMAIN ws = 1 .. Len(ws) /\ Len(ws) \in Nat  BY DEF Array
<1>2. kept \in [1 .. Len(ws) -> Warehouse]
  BY <1>1, ElementType
<1> HIDE DEF kept
<1>3. kept \in Seq(Warehouse) /\ Len(kept) = Len(ws)
  BY <1>1, <1>2, SequenceIsFunction
<1>4. Append(kept, new) \in Seq(Warehouse) /\ Len(Append(kept, new)) = Len(ws) + 1
  BY <1>3
<1>5. WithNew(ws, new) = Append(kept, new)
  BY DEF WithNew, kept
<1> QED  BY <1>4, <1>5 DEF Grows, Array

LEMMA WithNewFields ==
    ASSUME NEW ws \in Array, NEW new \in Warehouse, NEW j \in DOMAIN ws
    PROVE  LET w == WithNew(ws, new)[j]
           IN  /\ w.isActive = IF new.isActive /\ ~ws[j].isDeleted THEN FALSE
                                                                   ELSE ws[j].isActive
               /\ w.isDeleted = ws[j].isDeleted
               /\ w.blank = ws[j].blank
<1> DEFINE kept == [i \in DOMAIN ws |->
              IF new.isActive /\ i \in Listed(ws)
              THEN [ws[i] EXCEPT !.isActive = FALSE] ELSE ws[i]]
<1>1. DOMAIN ws = 1 .. Len(ws) /\ Len(ws) \in Nat  BY DEF Array
<1>2. kept \in [1 .. Len(ws) -> Warehouse]
  BY <1>1, ElementType
<1>3. kept \in Seq(Warehouse) /\ Len(kept) = Len(ws)
  BY <1>1, <1>2, SequenceIsFunction
<1>4. WithNew(ws, new)[j] = kept[j]
  BY <1>1, <1>3 DEF WithNew
<1>5. ws[j] \in Warehouse  BY ElementType
<1> QED  BY <1>4, <1>5 DEF Listed, Warehouse

LEMMA WithNewLast ==
    ASSUME NEW ws \in Array, NEW new \in Warehouse
    PROVE  /\ DOMAIN WithNew(ws, new) = DOMAIN ws \cup {Len(ws) + 1}
           /\ WithNew(ws, new)[Len(ws) + 1] = new
           /\ Len(ws) + 1 \notin DOMAIN ws
<1> DEFINE kept == [i \in DOMAIN ws |->
              IF new.isActive /\ i \in Listed(ws)
              THEN [ws[i] EXCEPT !.isActive = FALSE] ELSE ws[i]]
<1>1. DOMAIN ws = 1 .. Len(ws) /\ Len(ws) \in Nat  BY DEF Array
<1>2. kept \in [1 .. Len(ws) -> Warehouse]
  BY <1>1, ElementType
<1>3. kept \in Seq(Warehouse) /\ Len(kept) = Len(ws)
  BY <1>1, <1>2, SequenceIsFunction
<1>4. WithNew(ws, new) = Append(kept, new)
  BY DEF WithNew
<1> HIDE DEF kept
<1> QED  BY <1>1, <1>3, <1>4

-----------------------------------------------------------------------------
\* Type correctness, for any number of requests at a time.

LEMMA MergedType ==
    ASSUME NEW now \in Warehouse, NEW seen \in Warehouse, NEW new \in Warehouse
    PROVE  Merged(now, seen, new) \in Warehouse
BY DEF Merged, Warehouse

LEMMA StoredType ==
    ASSUME country \in Country, NEW seen \in Country, NEW new,
           Grows(seen.warehouses, new)
    PROVE  Stored(seen, new) \in Array
<1> DEFINE merged == [i \in DOMAIN country.warehouses |->
                  IF i \in DOMAIN seen.warehouses
                  THEN Merged(country.warehouses[i], seen.warehouses[i], new[i])
                  ELSE country.warehouses[i]]
<1>1. /\ country.warehouses \in Array /\ seen.warehouses \in Array
      /\ new \in Array
  BY DEF Country, Grows, Array
<1>2. DOMAIN seen.warehouses \subseteq DOMAIN new
  BY <1>1 DEF Grows, Array
<1>3. \A i \in DOMAIN country.warehouses :
         /\ country.warehouses[i] \in Warehouse
         /\ i \in DOMAIN seen.warehouses =>
               seen.warehouses[i] \in Warehouse /\ new[i] \in Warehouse
  BY <1>1, <1>2, ElementType
<1>4. DOMAIN country.warehouses = 1 .. Len(country.warehouses)
        /\ Len(country.warehouses) \in Nat
  BY <1>1 DEF Array
<1>5. merged \in [1 .. Len(country.warehouses) -> Warehouse]
  BY <1>3, <1>4, MergedType
<1>6. merged \in Array
  BY <1>4, <1>5, SequenceIsFunction DEF Array
<1> HIDE DEF merged
<1>7. CASE Len(new) > Len(seen.warehouses)
  <2>1. Len(new) \in DOMAIN new
    BY <1>1, <1>7 DEF Array
  <2>2. new[Len(new)] \in Warehouse
    BY <1>1, <2>1, ElementType
  <2>3. Append(country.warehouses, new[Len(new)]) \in Array
    BY <1>1, <2>2 DEF Array
  <2> QED  BY <1>1, <1>7, <2>3 DEF Stored
<1>8. CASE ~(Len(new) > Len(seen.warehouses))
  <2>1. Stored(seen, new) = merged
    BY <1>8 DEF Stored, merged
  <2> QED  BY <1>6, <2>1
<1> QED  BY <1>7, <1>8

LEMMA SaveType ==
    ASSUME TypeOK, NEW r \in Requests, NEW seen \in Country, NEW new,
           Grows(seen.warehouses, new), Save(r, seen, new)
    PROVE  TypeOK'
<1>1. country \in Country  BY DEF TypeOK
<1>2. Stored(seen, new) \in Seq(Warehouse)
  BY <1>1, StoredType DEF Array
<1>3. HasActive(new) \in BOOLEAN  BY DEF HasActive
<1>4. country' \in Country
  <2> DEFINE has == IF HasActive(new) = seen.hasActiveWarehouse
                    THEN country.hasActiveWarehouse ELSE HasActive(new)
             ver == IF Len(new) > Len(seen.warehouses)
                    THEN country.version + 1 ELSE country.version
  <2>1. has \in BOOLEAN /\ ver \in Nat
    BY <1>1, <1>3 DEF Country
  <2>2. \/ country' = country
        \/ country' = [country EXCEPT !.warehouses = Stored(seen, new),
                                     !.hasActiveWarehouse = has, !.version = ver]
    BY DEF Save
  <2> HIDE DEF has, ver
  <2> QED  BY <1>1, <1>2, <2>1, <2>2 DEF Country
<1>5. requests' \in [Requests -> RequestStates]
  BY DEF Save, TypeOK, RequestStates
<1> QED  BY <1>4, <1>5 DEF TypeOK

\* What a request that has loaded the document knows of it.
LEMMA SeenType ==
    ASSUME TypeOK, NEW r \in Requests, requests[r].pc \in {"loaded", "defaulting"}
    PROVE  /\ requests[r].seen \in Country
           /\ requests[r].seen.warehouses \in Array
<1>1. requests[r] \in RequestStates  BY DEF TypeOK
<1>2. requests[r].seen \in Country
  BY <1>1 DEF RequestStates, Idle
<1> QED  BY <1>2 DEF Country, Array

LEMMA ListedIn == \A ws : Listed(ws) \subseteq DOMAIN ws
BY DEF Listed

LEMMA DefaultType == Default \in Warehouse
BY ConstantsAssumption DEF Default, Warehouse

\* A step that changes the document saves an array made from the one loaded.
\* Which array depends on the operation.
Makes(ws, new) ==
    \/ \E w \in Warehouse :
          /\ w.isDeleted = FALSE /\ w.blank \in NewBlanks
          /\ new = WithNew(ws, w)
    \/ new = Append(ws, Default)
    \/ \E i \in Listed(ws) :
          \/ \E blank \in SUBSET Fields, type \in PartnerTypes :
                \/ new = WithData(ws, i, blank, type)
                \/ \E flag \in Flags :
                      /\ "edit" \in Operations
                      /\ ~(flag = "true" /\ blank # {})
                      /\ new = Edited(ws, i, blank, type, flag)
          \/ new = Deleted(ws, i)
          \/ Complete(ws[i]) /\ new = Activated(ws, i)
          \/ ws[i].isActive /\ new = Deactivated(ws, i)

\* The request has made the country, and still has to give it a warehouse.
Owes(r) == requests[r].pc \in {"inserted", "defaulting"}

LEMMA StepCases ==
    ASSUME TypeOK, Next
    PROVE  \/ UNCHANGED country /\ \E r \in Requests :
                 /\ Owes(r) => "crash" \in Operations
                 /\ requests' \in {[requests EXCEPT ![r] = Idle],
                                  [requests EXCEPT ![r] = [pc |-> "inserting"]]}
           \/ \E r \in Requests :
                 /\ UNCHANGED country
                 /\ \/ /\ ~Owes(r)
                       /\ requests' = [requests EXCEPT ![r] = [pc |-> "loaded", seen |-> country]]
                    \/ requests' = [requests EXCEPT ![r] = [pc |-> "defaulting", seen |-> country]]
           \/ \E r \in Requests : InsertCountry(r)
           \/ \E r \in Requests : \E new :
                 /\ requests[r].pc \in {"loaded", "defaulting"}
                 /\ Makes(requests[r].seen.warehouses, new)
                 /\ Owes(r) => new = Append(requests[r].seen.warehouses, Default)
                 /\ Save(r, requests[r].seen, new)
<1>1. PICK r \in Requests :
        \/ Load(r) \/ Create(r) \/ UpdateData(r) \/ Edit(r) \/ Delete(r)
        \/ Toggle(r) \/ Refuse(r)
        \/ FindNone(r) \/ InsertCountry(r) \/ LoadInserted(r) \/ PushDefault(r)
        \/ Crash(r)
  BY DEF Next
<1> DEFINE ws == requests[r].seen.warehouses
<1> DEFINE Saves == \E new :
              /\ requests[r].pc \in {"loaded", "defaulting"}
              /\ Makes(ws, new)
              /\ Owes(r) => new = Append(ws, Default)
              /\ Save(r, requests[r].seen, new)
<1>0. requests[r].pc = "loaded" => ~Owes(r)  BY DEF Owes
<1>2. CASE Load(r)
  <2>1. ~Owes(r)  BY <1>2 DEF Load, Owes, Idle
  <2> QED  BY <1>2, <2>1 DEF Load
<1>3. CASE Create(r)
  <2>1. PICK active \in BOOLEAN, blank \in NewBlanks, type \in PartnerTypes :
          Save(r, requests[r].seen, WithNew(ws,
             [isActive |-> active, isDeleted |-> FALSE,
              blank |-> blank, partnerType |-> type]))
    BY <1>3 DEF Create
  <2> DEFINE w == [isActive |-> active, isDeleted |-> FALSE,
                   blank |-> blank, partnerType |-> type]
  <2>2. w \in Warehouse /\ w.isDeleted = FALSE /\ w.blank \in NewBlanks
    BY ConstantsAssumption DEF Warehouse
  <2> HIDE DEF w
  <2>3. Makes(ws, WithNew(ws, w))
    BY <2>2 DEF Makes
  <2>4. requests[r].pc = "loaded"  BY <1>3 DEF Create, Handles
  <2>5. Save(r, requests[r].seen, WithNew(ws, w))  BY <2>1 DEF w
  <2> QED  BY <1>0, <2>3, <2>4, <2>5
<1>4. CASE UpdateData(r)
  <2>1. PICK i \in Listed(ws), blank \in SUBSET Fields, type \in PartnerTypes :
          Save(r, requests[r].seen, WithData(ws, i, blank, type))
    BY <1>4 DEF UpdateData
  <2>2. Makes(ws, WithData(ws, i, blank, type))  BY DEF Makes
  <2>3. requests[r].pc = "loaded"  BY <1>4 DEF UpdateData, Handles
  <2> QED  BY <1>0, <2>1, <2>2, <2>3
<1>5. CASE Edit(r)
  <2>1. PICK i \in Listed(ws), blank \in SUBSET Fields, type \in PartnerTypes,
             flag \in Flags :
          /\ ~(flag = "true" /\ blank # {})
          /\ Save(r, requests[r].seen, Edited(ws, i, blank, type, flag))
    BY <1>5 DEF Edit
  <2>2. "edit" \in Operations /\ requests[r].pc = "loaded"
    BY <1>5 DEF Edit, Handles
  <2>3. Makes(ws, Edited(ws, i, blank, type, flag))  BY <2>1, <2>2 DEF Makes
  <2> QED  BY <1>0, <2>1, <2>2, <2>3
<1>6. CASE Delete(r)
  <2>1. PICK i \in Listed(ws) : Save(r, requests[r].seen, Deleted(ws, i))
    BY <1>6 DEF Delete
  <2>2. Makes(ws, Deleted(ws, i))  BY DEF Makes
  <2>3. requests[r].pc = "loaded"  BY <1>6 DEF Delete, Handles
  <2> QED  BY <1>0, <2>1, <2>2, <2>3
<1>7. CASE Toggle(r)
  <2>1. PICK i \in Listed(ws), on \in BOOLEAN :
          /\ MayToggle(ws[i], on)
          /\ Save(r, requests[r].seen,
                  IF on THEN Activated(ws, i) ELSE Deactivated(ws, i))
    BY <1>7 DEF Toggle
  <2>2. requests[r].pc = "loaded"  BY <1>7 DEF Toggle, Handles
  <2>3. CASE on
    <3>1. Makes(ws, Activated(ws, i))  BY <2>1, <2>3 DEF Makes, MayToggle
    <3> QED  BY <1>0, <2>1, <2>2, <2>3, <3>1
  <2>4. CASE ~on
    <3>1. Makes(ws, Deactivated(ws, i))
      <4>1. ws[i].isActive # FALSE  BY <2>1, <2>4 DEF MayToggle
      <4>2. ws[i] \in Warehouse  BY <2>2, SeenType, ListedIn, ElementType
      <4>3. ws[i].isActive  BY <4>1, <4>2 DEF Warehouse
      <4> QED  BY <4>3 DEF Makes
    <3> QED  BY <1>0, <2>1, <2>2, <2>4, <3>1
  <2> QED  BY <2>3, <2>4
<1>8. CASE Refuse(r)
  <2>1. ~Owes(r)  BY <1>8 DEF Refuse, Owes
  <2> QED  BY <1>8, <2>1 DEF Refuse
<1>9. CASE FindNone(r)
  <2>1. ~Owes(r)  BY <1>9 DEF FindNone, Owes, Idle
  <2> QED  BY <1>9, <2>1 DEF FindNone
<1>10. CASE InsertCountry(r) BY <1>10
<1>11. CASE LoadInserted(r)  BY <1>11 DEF LoadInserted
<1>12. CASE PushDefault(r)
  <2>1. PICK new : new = Append(ws, Default)  OBVIOUS
  <2>2. Makes(ws, new)  BY <2>1 DEF Makes
  <2>3. Save(r, requests[r].seen, new) /\ requests[r].pc = "defaulting"
    BY <1>12, <2>1 DEF PushDefault
  <2>4. requests[r].pc \in {"loaded", "defaulting"}  BY <2>3
  <2>5. Owes(r) => new = Append(ws, Default)  BY <2>1
  <2>6. Saves
    <3> HIDE DEF ws
    <3> QED  BY <2>2, <2>3, <2>4, <2>5
  <2> QED  BY <2>6
<1>13. CASE Crash(r)         BY <1>13 DEF Crash
<1> QED  BY <1>1, <1>2, <1>3, <1>4, <1>5, <1>6, <1>7, <1>8, <1>9, <1>10, <1>11,
            <1>12, <1>13

LEMMA MakesGrows ==
    ASSUME NEW ws \in Array, NEW new, Makes(ws, new)
    PROVE  Grows(ws, new)
<1>1. Listed(ws) \subseteq DOMAIN ws  BY ListedIn
<1>2. Append(ws, Default) \in Array /\ Len(Append(ws, Default)) = Len(ws) + 1
  BY DefaultType DEF Array
<1>3. ASSUME NEW w \in Warehouse, new = WithNew(ws, w)  PROVE Grows(ws, new)
  BY <1>3, WithNewType
<1>4. CASE new = Append(ws, Default)  BY <1>2, <1>4 DEF Grows
<1>5. ASSUME NEW i \in Listed(ws), NEW blank \in SUBSET Fields,
             NEW type \in PartnerTypes, new = WithData(ws, i, blank, type)
      PROVE  Grows(ws, new)
  BY <1>1, <1>5, WithDataType
<1>6. ASSUME NEW i \in Listed(ws), NEW blank \in SUBSET Fields,
             NEW type \in PartnerTypes, NEW flag \in Flags,
             new = Edited(ws, i, blank, type, flag)
      PROVE  Grows(ws, new)
  BY <1>1, <1>6, EditedType
<1>7. ASSUME NEW i \in Listed(ws),
             new \in {Deleted(ws, i), Activated(ws, i), Deactivated(ws, i)}
      PROVE  Grows(ws, new)
  BY <1>1, <1>7, DeletedType, DeactivatedType, ActivatedType DEF Grows
<1> QED  BY <1>3, <1>4, <1>5, <1>6, <1>7 DEF Makes

LEMMA TypeStep ==
    ASSUME TypeOK, Next
    PROVE  TypeOK'
<1>1. ASSUME NEW r \in Requests, UNCHANGED country,
             requests' \in {[requests EXCEPT ![r] = Idle],
                           [requests EXCEPT ![r] = [pc |-> "inserting"]],
                           [requests EXCEPT ![r] = [pc |-> "loaded", seen |-> country]],
                           [requests EXCEPT ![r] = [pc |-> "defaulting", seen |-> country]]}
      PROVE  TypeOK'
  BY <1>1 DEF TypeOK, RequestStates
<1>2. ASSUME NEW r \in Requests, InsertCountry(r)  PROVE TypeOK'
  BY <1>2 DEF InsertCountry, TypeOK, RequestStates, Country
<1>3. ASSUME NEW r \in Requests, NEW new,
             requests[r].pc \in {"loaded", "defaulting"},
             Makes(requests[r].seen.warehouses, new),
             Save(r, requests[r].seen, new)
      PROVE  TypeOK'
  BY <1>3, SeenType, MakesGrows, SaveType
<1> QED  BY <1>1, <1>2, <1>3, StepCases

\* Every variable of Warehouses keeps its shape, however many requests are in
\* flight, for any fields and any bound: no operation makes a document that
\* the schema of src/src/warehouses would not have.
THEOREM TypeCorrect == Spec => []TypeOK
<1>1. Init => TypeOK
  BY DEF Init, TypeOK, NoCountry, Country, RequestStates
<1>2. TypeOK /\ [Next]_vars => TypeOK'
  BY TypeStep DEF TypeOK, vars
<1> QED  BY <1>1, <1>2, PTL DEF Spec

-----------------------------------------------------------------------------
\* A country has a warehouse. Between the two saves that make it, it has none;
\* the request that made the first of them will make the second, unless it
\* dies, and no save of another request takes a warehouse away.

Promised ==
    country.exists /\ country.warehouses = <<>> => \E r \in Requests : Owes(r)

LEMMA StoredKeeps ==
    ASSUME country \in Country, NEW seen \in Country, NEW new,
           Grows(seen.warehouses, new),
           country.warehouses # <<>> \/ Len(new) > Len(seen.warehouses)
    PROVE  Stored(seen, new) # <<>>
<1> DEFINE ws     == country.warehouses
           pushes == Len(new) > Len(seen.warehouses)
           merged == [i \in DOMAIN ws |->
                  IF i \in DOMAIN seen.warehouses
                  THEN Merged(ws[i], seen.warehouses[i], new[i]) ELSE ws[i]]
<1>1. ws \in Array /\ seen.warehouses \in Array /\ new \in Array
  BY DEF Country, Grows, Array
<1>2. CASE pushes
  <2>1. Len(new) \in DOMAIN new  BY <1>1, <1>2 DEF Array
  <2>2. new # <<>>  BY <2>1
  <2>3. new[Len(new)] \in Warehouse  BY <1>1, <2>1, ElementType
  <2>4. Append(ws, new[Len(new)]) # <<>>  BY <1>1, <2>3 DEF Array
  <2> QED  BY <1>2, <2>2, <2>4 DEF Stored
<1>3. CASE ~pushes
  <2>1. Stored(seen, new) = merged  BY <1>3 DEF Stored
  <2>2. DOMAIN merged = DOMAIN ws  OBVIOUS
  <2>3. Len(ws) # 0  BY <1>1, <1>3 DEF Array
  <2>4. 1 \in DOMAIN ws  BY <1>1, <2>3 DEF Array
  <2> HIDE DEF merged
  <2> QED  BY <2>1, <2>2, <2>4
<1> QED  BY <1>2, <1>3

LEMMA SaveKeeps ==
    ASSUME TypeOK, NEW r \in Requests, NEW seen \in Country, NEW new,
           Grows(seen.warehouses, new), Save(r, seen, new)
    PROVE  /\ country'.exists = country.exists
           /\ country.warehouses # <<>> => country'.warehouses # <<>>
           /\ new = Append(seen.warehouses, Default) => country'.warehouses # <<>>
<1>1. country \in Country /\ seen.warehouses \in Array
  BY DEF TypeOK, Country, Array
<1>2. \/ country' = country
      \/ /\ country'.exists = country.exists
         /\ country'.warehouses = Stored(seen, new)
  BY <1>1 DEF Save, Country
<1>3. ASSUME new = Append(seen.warehouses, Default)
      PROVE  country'.warehouses # <<>>
  <2>1. /\ Len(new) = Len(seen.warehouses) + 1
        /\ \A i \in DOMAIN seen.warehouses : new[i] = seen.warehouses[i]
        /\ Len(seen.warehouses) \in Nat
    BY <1>1, <1>3, DefaultType DEF Array
  <2>2. ~Compares(seen, new) /\ Len(new) > Len(seen.warehouses)
    BY <2>1 DEF Compares
  <2>3. country'.warehouses = Stored(seen, new)
    BY <1>1, <2>2 DEF Save, Country
  <2> QED  BY <1>1, <2>2, <2>3, StoredKeeps
<1>4. country.warehouses # <<>> => country'.warehouses # <<>>
  BY <1>1, <1>2, StoredKeeps
<1> QED  BY <1>2, <1>3, <1>4

LEMMA PromisedStep ==
    ASSUME TypeOK, Promised, "crash" \notin Operations, Next
    PROVE  Promised'
<1>1. ASSUME NEW r \in Requests, UNCHANGED country,
             \/ /\ ~Owes(r)
                /\ requests' \in {[requests EXCEPT ![r] = Idle],
                                 [requests EXCEPT ![r] = [pc |-> "inserting"]],
                                 [requests EXCEPT ![r] = [pc |-> "loaded", seen |-> country]]}
             \/ requests' = [requests EXCEPT ![r] = [pc |-> "defaulting", seen |-> country]]
      PROVE  Promised'
  <2>1. \A s \in Requests \ {r} : Owes(s) => Owes(s)'
    BY <1>1 DEF Owes, TypeOK
  <2>2. Owes(r) => Owes(r)'
    BY <1>1 DEF Owes, TypeOK
  <2> QED  BY <1>1, <2>1, <2>2 DEF Promised
<1>2. ASSUME NEW r \in Requests, InsertCountry(r)  PROVE Promised'
  <2>1. \A s \in Requests \ {r} : Owes(s) => Owes(s)'
    BY <1>2 DEF InsertCountry, Owes, TypeOK
  <2>2. ~Owes(r) /\ country'.warehouses = country.warehouses
    BY <1>2 DEF InsertCountry, Owes, TypeOK, Country
  <2>3. CASE country.exists
    BY <2>1, <2>2, <2>3 DEF Promised
  <2>4. CASE ~country.exists
    <3>1. Owes(r)'  BY <1>2, <2>4 DEF InsertCountry, Owes, TypeOK
    <3> QED  BY <3>1 DEF Promised
  <2> QED  BY <2>3, <2>4
<1>3. ASSUME NEW r \in Requests, NEW new,
             requests[r].pc \in {"loaded", "defaulting"},
             Makes(requests[r].seen.warehouses, new),
             Owes(r) => new = Append(requests[r].seen.warehouses, Default),
             Save(r, requests[r].seen, new)
      PROVE  Promised'
  <2>1. requests[r].seen \in Country /\ Grows(requests[r].seen.warehouses, new)
    BY <1>3, SeenType, MakesGrows
  <2>2. /\ country'.exists = country.exists
        /\ country.warehouses # <<>> => country'.warehouses # <<>>
        /\ Owes(r) => country'.warehouses # <<>>
    BY <1>3, <2>1, SaveKeeps
  <2>3. \A s \in Requests \ {r} : Owes(s) => Owes(s)'
    BY <1>3 DEF Save, Owes, TypeOK
  <2> QED  BY <2>2, <2>3 DEF Promised
<1> QED  BY <1>1, <1>2, <1>3, StepCases

\* As long as no request dies, a country that nobody is working on has a
\* warehouse, however many requests initialize it and change its list at the
\* same time: createDefaultWarehouse is a pure push, which no version stops, and
\* no other save makes the list shorter.
THEOREM HasWarehouse ==
    ASSUME "crash" \notin Operations
    PROVE  Spec => []CountryHasWarehouse
<1>1. Init => TypeOK /\ Promised
  BY DEF Init, TypeOK, NoCountry, Country, RequestStates, Promised
<1>2. TypeOK /\ Promised /\ [Next]_vars => (TypeOK /\ Promised)'
  <2>1. ASSUME TypeOK, Promised, Next  PROVE (TypeOK /\ Promised)'
    BY <2>1, TypeStep, PromisedStep
  <2>2. ASSUME TypeOK, Promised, UNCHANGED vars  PROVE (TypeOK /\ Promised)'
    BY <2>2 DEF vars, TypeOK, Promised, Owes
  <2> QED  BY <2>1, <2>2
<1>3. Promised => CountryHasWarehouse
  BY DEF Promised, Owes, CountryHasWarehouse, Idle
<1> QED  BY <1>1, <1>2, <1>3, PTL DEF Spec

-----------------------------------------------------------------------------
\* One active warehouse. A document is sound if it has one at most and no
\* deleted warehouse is active; it is filled if what is active is complete.

Sound(ws) ==
    /\ \A i, j \in ActiveOnes(ws) : i = j
    /\ \A i \in DOMAIN ws : ws[i].isDeleted => ~ws[i].isActive

Filled(ws) == \A i \in ActiveOnes(ws) : Complete(ws[i])

LEMMA BestIsOne ==
    ASSUME NEW ws \in Array, NEW among,
           NEW i \in Best(ws, among), NEW j \in Best(ws, among)
    PROVE  i = j
<1>1. i \in DOMAIN ws /\ j \in DOMAIN ws /\ i \in Nat /\ j \in Nat
  BY DEF Best, Candidates, Listed, Array
<1>2. ws[i].partnerType \in PartnerTypes /\ ws[j].partnerType \in PartnerTypes
  BY <1>1, ElementType DEF Warehouse
<1>3. Priority(ws[i]) \in Nat /\ Priority(ws[j]) \in Nat
  BY <1>2, ConstantsAssumption DEF Priority
<1>4. /\ \/ Priority(ws[i]) < Priority(ws[j])
         \/ Priority(ws[i]) = Priority(ws[j]) /\ i <= j
      /\ \/ Priority(ws[j]) < Priority(ws[i])
         \/ Priority(ws[j]) = Priority(ws[i]) /\ j <= i
  BY DEF Best
<1> HIDE DEF Priority
<1> QED  BY <1>1, <1>3, <1>4

LEMMA BestIn ==
    ASSUME NEW ws \in Array, NEW among, NEW i \in Best(ws, among)
    PROVE  i \in DOMAIN ws /\ ~ws[i].isDeleted /\ Complete(ws[i]) /\ i \in among
BY DEF Best, Candidates, Listed

LEMMA PromoteSound ==
    ASSUME NEW ws \in Array, Sound(ws), ActiveOnes(ws) = {}, NEW among
    PROVE  Sound(Promote(ws, among))
<1> DEFINE new == Promote(ws, among)
<1>1. DOMAIN new = DOMAIN ws  BY PromoteType
<1>2. \A j \in DOMAIN ws :
         /\ new[j].isActive = IF j \in Best(ws, among) THEN TRUE ELSE ws[j].isActive
         /\ new[j].isDeleted = ws[j].isDeleted
  BY PromoteFields
<1> HIDE DEF new
<1>3. ActiveOnes(new) \subseteq Best(ws, among)
  BY <1>1, <1>2 DEF ActiveOnes, Listed
<1>4. \A i, j \in ActiveOnes(new) : i = j
  BY <1>3, BestIsOne
<1>5. \A i \in DOMAIN ws : ws[i].isDeleted => i \notin Best(ws, among)
  BY BestIn
<1> QED  BY <1>1, <1>2, <1>4, <1>5 DEF Sound, new

LEMMA PromoteFilled ==
    ASSUME NEW ws \in Array, Filled(ws), NEW among
    PROVE  Filled(Promote(ws, among))
<1> DEFINE new == Promote(ws, among)
<1>1. DOMAIN new = DOMAIN ws  BY PromoteType
<1>2. \A j \in DOMAIN ws :
         /\ new[j].isActive = IF j \in Best(ws, among) THEN TRUE ELSE ws[j].isActive
         /\ new[j].isDeleted = ws[j].isDeleted
         /\ new[j].blank = ws[j].blank
  BY PromoteFields
<1> HIDE DEF new
<1>3. \A i \in Best(ws, among) : Complete(ws[i])  BY BestIn
<1> QED  BY <1>1, <1>2, <1>3 DEF Filled, ActiveOnes, Listed, Complete, new

LEMMA ActivatedSound ==
    ASSUME NEW ws \in Array, NEW i \in DOMAIN ws,
           \A j \in DOMAIN ws : ws[j].isDeleted => ~ws[j].isActive
    PROVE  /\ Sound(Activated(ws, i))
           /\ Complete(ws[i]) => Filled(Activated(ws, i))
<1> DEFINE new == Activated(ws, i)
<1>1. DOMAIN new = DOMAIN ws  BY ActivatedType
<1>2. \A j \in DOMAIN ws :
         /\ new[j].isActive = IF ws[j].isDeleted THEN ws[j].isActive ELSE j = i
         /\ new[j].isDeleted = ws[j].isDeleted
         /\ new[j].blank = ws[j].blank
  BY ActivatedFields
<1> HIDE DEF new
<1>3. ActiveOnes(new) \subseteq {i}
  BY <1>1, <1>2 DEF ActiveOnes, Listed
<1>4. Sound(new)
  BY <1>1, <1>2, <1>3 DEF Sound
<1>5. Complete(ws[i]) => Filled(new)
  BY <1>1, <1>2, <1>3 DEF Filled, Complete
<1> QED  BY <1>4, <1>5 DEF new

LEMMA SetActiveSound ==
    ASSUME NEW ws \in Array, Sound(ws), NEW i \in Listed(ws), NEW on \in BOOLEAN,
           on => ActiveOnes(ws) \subseteq {i}
    PROVE  /\ Sound(SetActive(ws, i, on))
           /\ ActiveOnes(SetActive(ws, i, on)) \subseteq
                 (ActiveOnes(ws) \ {i}) \cup (IF on THEN {i} ELSE {})
           /\ Filled(ws) /\ (on => Complete(ws[i])) => Filled(SetActive(ws, i, on))
<1> DEFINE new == SetActive(ws, i, on)
<1>1. i \in DOMAIN ws /\ ~ws[i].isDeleted  BY DEF Listed
<1>2. DOMAIN new = DOMAIN ws  BY <1>1, SetActiveType
<1>3. \A j \in DOMAIN ws :
         /\ new[j].isActive = IF j = i THEN on ELSE ws[j].isActive
         /\ new[j].isDeleted = ws[j].isDeleted
         /\ new[j].blank = ws[j].blank
  BY <1>1, SetActiveFields
<1> HIDE DEF new
<1>4. ActiveOnes(new) \subseteq (ActiveOnes(ws) \ {i}) \cup (IF on THEN {i} ELSE {})
  BY <1>2, <1>3 DEF ActiveOnes, Listed
<1>5. \A j, k \in ActiveOnes(new) : j = k
  BY <1>4 DEF Sound
<1>6. Sound(new)
  BY <1>1, <1>2, <1>3, <1>5 DEF Sound
<1>7. ASSUME Filled(ws), on => Complete(ws[i]), NEW j \in ActiveOnes(new)
      PROVE  Complete(new[j])
  <2>1. j \in DOMAIN ws /\ new[j].blank = ws[j].blank
    BY <1>2, <1>3 DEF ActiveOnes, Listed
  <2>2. CASE j \in ActiveOnes(ws) \ {i}
    BY <1>7, <2>1, <2>2 DEF Filled, Complete
  <2>3. CASE j \notin ActiveOnes(ws) \ {i}
    <3>1. on = TRUE /\ j = i  BY <1>4, <2>3
    <3> QED  BY <1>7, <2>1, <3>1 DEF Complete
  <2> QED  BY <2>2, <2>3
<1>8. new = SetActive(ws, i, on)  BY DEF new
<1>9. Filled(ws) /\ (on => Complete(ws[i])) => Filled(new)
  BY <1>7 DEF Filled
<1> QED  BY <1>4, <1>6, <1>8, <1>9

\* Writing the data of a warehouse leaves everybody's flags alone.
LEMMA WrittenSound ==
    ASSUME NEW ws \in Array, Sound(ws), NEW i \in Listed(ws),
           NEW blank \in SUBSET Fields, NEW type \in PartnerTypes
    PROVE  LET new == Written(ws, i, blank, type)
           IN  /\ Sound(new)
               /\ ActiveOnes(new) = ActiveOnes(ws) /\ Listed(new) = Listed(ws)
               /\ new[i].blank = blank
               /\ Filled(ws) /\ (i \in ActiveOnes(ws) => blank = {}) => Filled(new)
<1> DEFINE new == Written(ws, i, blank, type)
<1>1. i \in DOMAIN ws  BY DEF Listed
<1>2. DOMAIN new = DOMAIN ws  BY <1>1, WrittenType
<1>3. \A j \in DOMAIN ws :
         /\ new[j].isActive = ws[j].isActive
         /\ new[j].isDeleted = ws[j].isDeleted
         /\ new[j].blank = IF j = i THEN blank ELSE ws[j].blank
  BY <1>1, WrittenFields
<1> HIDE DEF new
<1>4. ActiveOnes(new) = ActiveOnes(ws) /\ Listed(new) = Listed(ws)
  BY <1>2, <1>3 DEF ActiveOnes, Listed
<1>5. Sound(new)
  BY <1>2, <1>3, <1>4 DEF Sound
<1>6. Filled(ws) /\ (i \in ActiveOnes(ws) => blank = {}) => Filled(new)
  BY <1>3, <1>4 DEF Filled, Complete, ActiveOnes, Listed
<1> QED  BY <1>1, <1>3, <1>4, <1>5, <1>6 DEF new

\* The only active warehouse comes up ...
LEMMA RiseSound ==
    ASSUME NEW ws \in Array, Sound(ws), NEW i \in Listed(ws),
           ActiveOnes(ws) \ {i} = {}, Complete(ws[i])
    PROVE  LET new == SetActive(ws, i, TRUE)
           IN  Sound(new) /\ Filled(new)
<1> DEFINE new == SetActive(ws, i, TRUE)
<1>1. ActiveOnes(ws) \subseteq {i}  OBVIOUS
<1>2. TRUE \in BOOLEAN  OBVIOUS
<1>3. Sound(new) /\ ActiveOnes(new) \subseteq {i}
  BY <1>1, <1>2, SetActiveSound
<1>4. new[i].blank = ws[i].blank  BY <1>2, ListedIn, SetActiveFields
<1> HIDE DEF new
<1>5. Filled(new)  BY <1>3, <1>4 DEF Filled, Complete
<1> QED  BY <1>3, <1>5 DEF new

\* ... or goes, and another one takes its place.
LEMMA FallSound ==
    ASSUME NEW ws \in Array, Sound(ws), NEW i \in ActiveOnes(ws), NEW among
    PROVE  LET new == Promote(SetActive(ws, i, FALSE), among)
           IN  Sound(new) /\ Filled(new)
<1> DEFINE off == SetActive(ws, i, FALSE)
<1>1. i \in Listed(ws) /\ FALSE \in BOOLEAN /\ i \in DOMAIN ws
  BY DEF ActiveOnes, Listed
<1>2. off \in Array  BY <1>1, SetActiveType
<1>3. Sound(off) /\ ActiveOnes(off) \subseteq ActiveOnes(ws) \ {i}
  BY <1>1, SetActiveSound
<1>4. ActiveOnes(off) = {}  BY <1>3 DEF Sound
<1> HIDE DEF off
<1>5. Filled(off)  BY <1>4 DEF Filled
<1>6. /\ Sound(Promote(off, among))
      /\ Filled(Promote(off, among))
  BY <1>2, <1>3, <1>4, <1>5, PromoteSound, PromoteFilled
<1> QED  BY <1>6 DEF off

LEMMA WithDataSound ==
    ASSUME NEW ws \in Array, Sound(ws), NEW i \in Listed(ws),
           NEW blank \in SUBSET Fields, NEW type \in PartnerTypes
    PROVE  LET new == WithData(ws, i, blank, type)
           IN  Sound(new) /\ (Filled(ws) => Filled(new))
<1> DEFINE written == Written(ws, i, blank, type)
<1>1. i \in DOMAIN ws  BY ListedIn
<1>2. written \in Array  BY <1>1, WrittenType
<1>3. /\ Sound(written)
      /\ ActiveOnes(written) = ActiveOnes(ws) /\ Listed(written) = Listed(ws)
      /\ written[i].blank = blank
      /\ Filled(ws) /\ (i \in ActiveOnes(ws) => blank = {}) => Filled(written)
  BY WrittenSound
<1> HIDE DEF written
<1>4. CASE ~Complete(ws[i]) /\ Complete(written[i]) /\ ActiveOnes(ws) \ {i} = {}
  <2>1. WithData(ws, i, blank, type) = SetActive(written, i, TRUE)
    BY <1>4 DEF WithData, written
  <2> QED  BY <1>2, <1>3, <1>4, <2>1, RiseSound
<1>5. CASE Complete(ws[i]) /\ ~Complete(written[i]) /\ ws[i].isActive
  <2>1. WithData(ws, i, blank, type) =
          Promote(SetActive(written, i, FALSE), DOMAIN ws \ {i})
    BY <1>5 DEF WithData, written
  <2>2. i \in ActiveOnes(written)  BY <1>3, <1>5 DEF ActiveOnes
  <2> QED  BY <1>2, <1>3, <2>1, <2>2, FallSound
<1>6. CASE /\ ~(~Complete(ws[i]) /\ Complete(written[i]) /\ ActiveOnes(ws) \ {i} = {})
           /\ ~(Complete(ws[i]) /\ ~Complete(written[i]) /\ ws[i].isActive)
  <2>1. WithData(ws, i, blank, type) = written
    BY <1>6 DEF WithData, written
  <2>2. Filled(ws) /\ i \in ActiveOnes(ws) => blank = {}
    BY <1>3, <1>6 DEF Filled, Complete, ActiveOnes
  <2> QED  BY <1>3, <2>1, <2>2
<1> QED  BY <1>4, <1>5, <1>6

LEMMA DeletedSound ==
    ASSUME NEW ws \in Array, Sound(ws), NEW i \in Listed(ws)
    PROVE  LET new == Deleted(ws, i)
           IN  Sound(new) /\ (Filled(ws) => Filled(new))
<1> DEFINE gone == Gone(ws, i)
<1>1. i \in DOMAIN ws  BY ListedIn
<1>2. gone \in Array /\ DOMAIN gone = DOMAIN ws  BY <1>1, GoneType
<1>3. \A j \in DOMAIN ws :
         /\ gone[j].isActive = IF j = i THEN FALSE ELSE ws[j].isActive
         /\ gone[j].isDeleted = IF j = i THEN TRUE ELSE ws[j].isDeleted
         /\ gone[j].blank = ws[j].blank
  BY <1>1, GoneFields
<1>4. Deleted(ws, i) = IF ws[i].isActive THEN Promote(gone, DOMAIN ws) ELSE gone
  BY DEF Deleted, Gone
<1> HIDE DEF gone
<1>5. ActiveOnes(gone) = ActiveOnes(ws) \ {i}
  BY <1>1, <1>2, <1>3 DEF ActiveOnes, Listed
<1>6. Sound(gone)
  BY <1>2, <1>3, <1>5 DEF Sound
<1>7. Filled(ws) => Filled(gone)
  BY <1>2, <1>3, <1>5 DEF Filled, Complete, ActiveOnes, Listed
<1>8. CASE ws[i].isActive
  <2>1. ActiveOnes(gone) = {}  BY <1>5, <1>8 DEF Sound, ActiveOnes
  <2> QED  BY <1>2, <1>4, <1>6, <1>7, <1>8, <2>1, PromoteSound, PromoteFilled
<1>9. CASE ~ws[i].isActive
  BY <1>4, <1>6, <1>7, <1>9
<1> QED  BY <1>8, <1>9

LEMMA WithNewSound ==
    ASSUME NEW ws \in Array, Sound(ws), NEW w \in Warehouse, ~w.isDeleted
    PROVE  LET new == WithNew(ws, w)
           IN  /\ Sound(new)
               /\ Filled(ws) /\ (w.isActive => Complete(w)) => Filled(new)
<1> DEFINE new == WithNew(ws, w)
           last == Len(ws) + 1
<1>1. /\ DOMAIN new = DOMAIN ws \cup {last} /\ new[last] = w
      /\ last \notin DOMAIN ws
  BY WithNewLast
<1>2. \A j \in DOMAIN ws :
         /\ new[j].isActive = IF w.isActive /\ ~ws[j].isDeleted THEN FALSE
                                                              ELSE ws[j].isActive
         /\ new[j].isDeleted = ws[j].isDeleted
         /\ new[j].blank = ws[j].blank
  BY WithNewFields
<1> HIDE DEF new, last
<1>3. ActiveOnes(new) = IF w.isActive THEN {last} ELSE ActiveOnes(ws)
  BY <1>1, <1>2 DEF ActiveOnes, Listed
<1>4. Sound(new)
  BY <1>1, <1>2, <1>3 DEF Sound
<1>5. Filled(ws) /\ (w.isActive => Complete(w)) => Filled(new)
  <2>1. CASE w.isActive  BY <1>1, <1>3, <2>1 DEF Filled
  <2>2. CASE ~w.isActive
    BY <1>2, <1>3, <2>2 DEF Filled, Complete, ActiveOnes, Listed
  <2> QED  BY <2>1, <2>2
<1> QED  BY <1>4, <1>5 DEF new

LEMMA SetOnFields ==
    ASSUME NEW ws \in Array, NEW i \in DOMAIN ws, NEW j \in DOMAIN ws
    PROVE  LET new == SetActive(ws, i, TRUE)[j]
           IN  /\ new.isActive = IF j = i THEN TRUE ELSE ws[j].isActive
               /\ new.isDeleted = ws[j].isDeleted
               /\ new.blank = ws[j].blank
<1>1. ws[j] \in Warehouse /\ ws[i] \in Warehouse  BY ElementType
<1>2. ws \in Seq(Warehouse)  BY DEF Array
<1> QED  BY <1>1, <1>2 DEF SetActive, Warehouse

LEMMA SetOffFields ==
    ASSUME NEW ws \in Array, NEW i \in DOMAIN ws, NEW j \in DOMAIN ws
    PROVE  LET new == SetActive(ws, i, FALSE)[j]
           IN  /\ new.isActive = IF j = i THEN FALSE ELSE ws[j].isActive
               /\ new.isDeleted = ws[j].isDeleted
               /\ new.blank = ws[j].blank
<1>1. ws[j] \in Warehouse /\ ws[i] \in Warehouse  BY ElementType
<1>2. ws \in Seq(Warehouse)  BY DEF Array
<1> QED  BY <1>1, <1>2 DEF SetActive, Warehouse

LEMMA EditedSound ==
    ASSUME NEW ws \in Array, Sound(ws), NEW i \in Listed(ws),
           NEW blank \in SUBSET Fields, NEW type \in PartnerTypes,
           NEW flag \in Flags, flag = "true" => blank = {}
    PROVE  LET new == Edited(ws, i, blank, type, flag)
           IN  Sound(new) /\ (Filled(ws) => Filled(new))
<1> DEFINE written  == Written(ws, i, blank, type)
           assigned == IF flag = "absent" THEN written
                       ELSE SetActive(written, i, flag = "true")
<1>1. i \in DOMAIN ws /\ ~ws[i].isDeleted  BY DEF Listed
<1>2. written \in Array /\ DOMAIN written = DOMAIN ws  BY <1>1, WrittenType
<1>3. \A j \in DOMAIN ws :
         /\ written[j].isActive = ws[j].isActive
         /\ written[j].isDeleted = ws[j].isDeleted
         /\ written[j].blank = IF j = i THEN blank ELSE ws[j].blank
  BY <1>1, WrittenFields
<1>4. Edited(ws, i, blank, type, flag) =
        IF Complete(assigned[i])
        THEN IF flag = "true" THEN Activated(assigned, i)
             ELSE IF ActiveOnes(assigned) \ {i} = {}
             THEN SetActive(assigned, i, TRUE) ELSE assigned
        ELSE IF assigned[i].isActive
             THEN Promote(SetActive(assigned, i, FALSE), DOMAIN ws) ELSE assigned
  BY DEF Edited
<1> HIDE DEF written
<1>5. CASE flag = "true"
  <2> DEFINE on == SetActive(written, i, TRUE)
  <2>1. assigned = on  BY <1>5
  <2>2. on \in Array /\ DOMAIN on = DOMAIN ws  BY <1>1, <1>2, SetActiveType
  <2>3. \A j \in DOMAIN ws :
           /\ on[j].isActive = IF j = i THEN TRUE ELSE written[j].isActive
           /\ on[j].isDeleted = written[j].isDeleted
           /\ on[j].blank = written[j].blank
    <3>1. i \in DOMAIN written  BY <1>1, <1>2
    <3>2. \A j \in DOMAIN written :
             /\ on[j].isActive = IF j = i THEN TRUE ELSE written[j].isActive
             /\ on[j].isDeleted = written[j].isDeleted
             /\ on[j].blank = written[j].blank
      BY <1>2, <3>1, SetOnFields
    <3> QED  BY <1>2, <3>2
  <2> HIDE DEF on, assigned
  <2>4. \A j \in DOMAIN ws :
           /\ on[j].isDeleted = ws[j].isDeleted
           /\ ws[j].isDeleted => ~on[j].isActive
    BY <1>1, <1>3, <2>3 DEF Sound
  <2>5. Complete(on[i])  BY <1>1, <1>3, <1>5, <2>3 DEF Complete
  <2>7. /\ Sound(Activated(on, i))
        /\ Filled(Activated(on, i))
    BY <1>1, <2>2, <2>4, <2>5, ActivatedSound
  <2>8. Edited(ws, i, blank, type, flag) = Activated(on, i)
    BY <1>4, <1>5, <2>1, <2>5
  <2> QED  BY <2>7, <2>8
<1>6. CASE flag # "true"
  <2> DEFINE off == SetActive(written, i, FALSE)
  <2>1. assigned = IF flag = "absent" THEN written ELSE off  BY <1>6
  <2>2. off \in Array /\ DOMAIN off = DOMAIN ws  BY <1>1, <1>2, SetActiveType
  <2>3. \A j \in DOMAIN ws :
           /\ off[j].isActive = IF j = i THEN FALSE ELSE written[j].isActive
           /\ off[j].isDeleted = written[j].isDeleted
           /\ off[j].blank = written[j].blank
    <3>1. i \in DOMAIN written  BY <1>1, <1>2
    <3>2. \A j \in DOMAIN written :
             /\ off[j].isActive = IF j = i THEN FALSE ELSE written[j].isActive
             /\ off[j].isDeleted = written[j].isDeleted
             /\ off[j].blank = written[j].blank
      BY <1>2, <3>1, SetOffFields
    <3> QED  BY <1>2, <3>2
  <2> HIDE DEF off, assigned
  <2>4. /\ assigned \in Array /\ DOMAIN assigned = DOMAIN ws
        /\ \A j \in DOMAIN ws :
              /\ assigned[j].isActive => ws[j].isActive
              /\ assigned[j].isDeleted = ws[j].isDeleted
              /\ j # i => assigned[j].blank = ws[j].blank
    BY <1>2, <1>3, <2>1, <2>2, <2>3
  <2>5. ActiveOnes(assigned) \subseteq ActiveOnes(ws) /\ i \in Listed(assigned)
    BY <1>1, <2>4 DEF ActiveOnes, Listed
  <2>6. Sound(assigned)
    BY <2>4, <2>5 DEF Sound
  <2>7. flag # "true"  BY <1>6
  <2>8. CASE Complete(assigned[i]) /\ ActiveOnes(assigned) \ {i} = {}
    <3>1. Edited(ws, i, blank, type, flag) = SetActive(assigned, i, TRUE)
      BY <1>4, <2>7, <2>8
    <3> QED  BY <2>4, <2>5, <2>6, <2>8, <3>1, RiseSound
  <2>9. CASE ~Complete(assigned[i]) /\ assigned[i].isActive
    <3>1. Edited(ws, i, blank, type, flag) =
            Promote(SetActive(assigned, i, FALSE), DOMAIN ws)
      BY <1>4, <2>9
    <3>2. i \in ActiveOnes(assigned)  BY <2>5, <2>9 DEF ActiveOnes
    <3> QED  BY <2>4, <2>6, <3>1, <3>2, FallSound
  <2>10. CASE /\ ~(Complete(assigned[i]) /\ ActiveOnes(assigned) \ {i} = {})
              /\ ~(~Complete(assigned[i]) /\ assigned[i].isActive)
    <3>1. Edited(ws, i, blank, type, flag) = assigned
      BY <1>4, <2>7, <2>10
    <3>2. ASSUME Filled(ws), NEW j \in ActiveOnes(assigned)
          PROVE  Complete(assigned[j])
      <4>1. CASE j = i  BY <2>10, <4>1, <3>2 DEF ActiveOnes
      <4>2. CASE j # i
        <5>1. j \in DOMAIN ws /\ Complete(ws[j])
          BY <2>4, <2>5, <3>2 DEF Filled, ActiveOnes, Listed
        <5> QED  BY <2>4, <4>2, <5>1 DEF Complete
      <4> QED  BY <4>1, <4>2
    <3> QED  BY <2>6, <3>1, <3>2 DEF Filled
  <2> QED  BY <2>8, <2>9, <2>10
<1> QED  BY <1>5, <1>6

LEMMA AppendDefault ==
    ASSUME NEW ws \in Array
    PROVE  Append(ws, Default) = WithNew(ws, Default)
<1>1. Default.isActive = FALSE  BY DEF Default
<1>2. [i \in DOMAIN ws |->
         IF Default.isActive /\ i \in Listed(ws)
         THEN [ws[i] EXCEPT !.isActive = FALSE] ELSE ws[i]] = ws
  BY <1>1 DEF Array
<1> QED  BY <1>2 DEF WithNew

\* What one operation makes of a sound array is sound.
LEMMA MakesSound ==
    ASSUME NEW ws \in Array, Sound(ws), NEW new, Makes(ws, new)
    PROVE  /\ Sound(new)
           /\ NewBlanks \subseteq {{}} /\ Filled(ws) => Filled(new)
<1>1. ASSUME NEW w \in Warehouse, w.isDeleted = FALSE, w.blank \in NewBlanks,
             new = WithNew(ws, w)
      PROVE  /\ Sound(new)
             /\ NewBlanks \subseteq {{}} /\ Filled(ws) => Filled(new)
  <2>1. NewBlanks \subseteq {{}} => Complete(w)  BY <1>1 DEF Complete
  <2> QED  BY <1>1, <2>1, WithNewSound
<1>2. CASE new = Append(ws, Default)
  <2>1. ~Default.isActive /\ ~Default.isDeleted  BY DEF Default
  <2> QED  BY <1>2, <2>1, AppendDefault, DefaultType, WithNewSound
<1>3. ASSUME NEW i \in Listed(ws), NEW blank \in SUBSET Fields,
             NEW type \in PartnerTypes, new = WithData(ws, i, blank, type)
      PROVE  Sound(new) /\ (Filled(ws) => Filled(new))
  BY <1>3, WithDataSound
<1>4. ASSUME NEW i \in Listed(ws), NEW blank \in SUBSET Fields,
             NEW type \in PartnerTypes, NEW flag \in Flags,
             ~(flag = "true" /\ blank # {}), new = Edited(ws, i, blank, type, flag)
      PROVE  Sound(new) /\ (Filled(ws) => Filled(new))
  BY <1>4, EditedSound
<1>5. ASSUME NEW i \in Listed(ws), new = Deleted(ws, i)
      PROVE  Sound(new) /\ (Filled(ws) => Filled(new))
  BY <1>5, DeletedSound
<1>6. ASSUME NEW i \in Listed(ws), Complete(ws[i]), new = Activated(ws, i)
      PROVE  Sound(new) /\ Filled(new)
  BY <1>6, ListedIn, ActivatedSound DEF Sound
<1>7. ASSUME NEW i \in Listed(ws), ws[i].isActive, new = Deactivated(ws, i)
      PROVE  Sound(new) /\ Filled(new)
  <2>1. i \in ActiveOnes(ws)  BY <1>7 DEF ActiveOnes
  <2> QED  BY <1>7, <2>1, FallSound DEF Deactivated
<1> QED  BY <1>1, <1>2, <1>3, <1>4, <1>5, <1>6, <1>7 DEF Makes

-----------------------------------------------------------------------------
\* Somebody takes over. When an operation leaves no warehouse active that was,
\* no other one is complete: findBestActiveCandidate finds one if there is one.

Succeeds(ws, new) ==
    \A i \in ActiveOnes(ws) : ActiveOnes(new) = {} => Candidates(new) \subseteq {i}

LEMMA LeastNatural ==
    ASSUME NEW T, T \subseteq Nat, T # {}
    PROVE  \E x \in T : \A y \in T : x <= y
<1> DEFINE less == {ss \in Nat \X Nat : ss[1] < ss[2]}
<1>1. IsWellFoundedOn(less, Nat)
  BY NatLessThanWellFounded DEF OpToRel
<1>2. \A x, y \in Nat : x < y => <<x, y>> \in less
  OBVIOUS
<1> HIDE DEF less
<1>3. PICK x \in T : \A y \in T : <<y, x>> \notin less
  BY <1>1, WFMin
<1>4. \A y \in T : ~(y < x)  BY <1>2, <1>3
<1> QED  BY <1>4

LEMMA BestExists ==
    ASSUME NEW ws \in Array, NEW among, Candidates(ws) \cap among # {}
    PROVE  Best(ws, among) # {}
<1> DEFINE found == Candidates(ws) \cap among
           ranks == {Priority(ws[i]) : i \in found}
<1>1. \A i \in found : i \in Nat /\ Priority(ws[i]) \in Nat
  <2> SUFFICES ASSUME NEW i \in found  PROVE i \in Nat /\ Priority(ws[i]) \in Nat
    OBVIOUS
  <2>1. i \in DOMAIN ws /\ i \in Nat  BY DEF Candidates, Listed, Array
  <2>2. ws[i].partnerType \in PartnerTypes  BY <2>1, ElementType DEF Warehouse
  <2>3. Priority(ws[i]) \in Nat  BY <2>2, ConstantsAssumption DEF Priority
  <2> QED  BY <2>1, <2>3
<1>2. ranks \subseteq Nat /\ ranks # {}  BY <1>1
<1>3. PICK rank \in ranks : \A other \in ranks : rank <= other
  BY <1>2, LeastNatural
<1> DEFINE first == {i \in found : Priority(ws[i]) = rank}
<1>4. first \subseteq Nat /\ first # {}  BY <1>1
<1>5. PICK i \in first : \A j \in first : i <= j
  BY <1>4, LeastNatural
<1>6. ASSUME NEW j \in found
      PROVE  \/ Priority(ws[i]) < Priority(ws[j])
             \/ Priority(ws[i]) = Priority(ws[j]) /\ i <= j
  <2>1. Priority(ws[i]) <= Priority(ws[j])  BY <1>3
  <2>2. Priority(ws[i]) \in Nat /\ Priority(ws[j]) \in Nat  BY <1>1
  <2>3. Priority(ws[j]) = Priority(ws[i]) => i <= j  BY <1>5
  <2> HIDE DEF Priority, found, ranks, first
  <2> QED  BY <2>1, <2>2, <2>3
<1> QED  BY <1>5, <1>6 DEF Best

LEMMA PromoteElects ==
    ASSUME NEW ws \in Array, NEW among
    PROVE  LET new == Promote(ws, among)
           IN  ActiveOnes(new) = {} => Candidates(new) \cap among = {}
<1> DEFINE new == Promote(ws, among)
<1>1. DOMAIN new = DOMAIN ws  BY PromoteType
<1>2. \A j \in DOMAIN ws :
         /\ new[j].isActive = IF j \in Best(ws, among) THEN TRUE ELSE ws[j].isActive
         /\ new[j].isDeleted = ws[j].isDeleted
         /\ new[j].blank = ws[j].blank
  BY PromoteFields
<1> HIDE DEF new
<1>3. Candidates(new) = Candidates(ws)
  BY <1>1, <1>2 DEF Candidates, Listed, Complete
<1>4. \A j \in Best(ws, among) : j \in DOMAIN ws /\ ~ws[j].isDeleted
  BY BestIn
<1>5. Best(ws, among) \subseteq ActiveOnes(new)
  BY <1>1, <1>2, <1>4 DEF ActiveOnes, Listed
<1>6. ActiveOnes(new) = {} => Candidates(new) \cap among = {}
  BY <1>3, <1>5, BestExists
<1> QED  BY <1>6 DEF new

\* One that goes may be complete itself; nobody else is.
LEMMA FallElects ==
    ASSUME NEW ws \in Array, NEW i \in DOMAIN ws
    PROVE  LET new == Promote(SetActive(ws, i, FALSE), DOMAIN ws \ {i})
           IN  ActiveOnes(new) = {} => Candidates(new) \subseteq {i}
<1> DEFINE off == SetActive(ws, i, FALSE)
           new == Promote(off, DOMAIN ws \ {i})
<1>1. off \in Array /\ DOMAIN off = DOMAIN ws  BY SetActiveType
<1> HIDE DEF off
<1>2. DOMAIN new = DOMAIN ws  BY <1>1, PromoteType
<1>3. ActiveOnes(new) = {} => Candidates(new) \cap (DOMAIN ws \ {i}) = {}
  BY <1>1, PromoteElects
<1> HIDE DEF new
<1>4. Candidates(new) \subseteq DOMAIN ws  BY <1>2 DEF Candidates, Listed
<1>5. ActiveOnes(new) = {} => Candidates(new) \subseteq {i}  BY <1>3, <1>4
<1> QED  BY <1>5 DEF new, off

LEMMA WithDataSucceeds ==
    ASSUME NEW ws \in Array, Sound(ws), NEW i \in Listed(ws),
           NEW blank \in SUBSET Fields, NEW type \in PartnerTypes
    PROVE  Succeeds(ws, WithData(ws, i, blank, type))
<1> DEFINE written == Written(ws, i, blank, type)
<1>1. i \in DOMAIN ws  BY ListedIn
<1>2. written \in Array /\ DOMAIN written = DOMAIN ws  BY <1>1, WrittenType
<1>3. ActiveOnes(written) = ActiveOnes(ws) /\ Listed(written) = Listed(ws)
  BY WrittenSound
<1>4. CASE ~Complete(ws[i]) /\ Complete(written[i]) /\ ActiveOnes(ws) \ {i} = {}
  <2>1. WithData(ws, i, blank, type) = SetActive(written, i, TRUE)
    BY <1>4 DEF WithData
  <2> HIDE DEF written
  <2>2. i \in ActiveOnes(SetActive(written, i, TRUE))
    <3>1. /\ DOMAIN SetActive(written, i, TRUE) = DOMAIN ws
          /\ SetActive(written, i, TRUE)[i].isActive = TRUE
          /\ SetActive(written, i, TRUE)[i].isDeleted = written[i].isDeleted
      BY <1>1, <1>2, SetActiveType, SetOnFields
    <3>2. ~written[i].isDeleted  BY <1>3 DEF Listed
    <3> QED  BY <1>1, <3>1, <3>2 DEF ActiveOnes, Listed
  <2> QED  BY <2>1, <2>2 DEF Succeeds
<1>5. CASE Complete(ws[i]) /\ ~Complete(written[i]) /\ ws[i].isActive
  <2>1. WithData(ws, i, blank, type) =
          Promote(SetActive(written, i, FALSE), DOMAIN written \ {i})
    BY <1>2, <1>5 DEF WithData
  <2>2. i \in ActiveOnes(ws)  BY <1>5 DEF ActiveOnes
  <2>3. ActiveOnes(ws) \subseteq {i}  BY <2>2 DEF Sound
  <2> HIDE DEF written
  <2> QED  BY <1>1, <1>2, <2>1, <2>3, FallElects DEF Succeeds
<1>6. CASE /\ ~(~Complete(ws[i]) /\ Complete(written[i]) /\ ActiveOnes(ws) \ {i} = {})
           /\ ~(Complete(ws[i]) /\ ~Complete(written[i]) /\ ws[i].isActive)
  <2>1. WithData(ws, i, blank, type) = written
    BY <1>6 DEF WithData
  <2> HIDE DEF written
  <2> QED  BY <1>3, <2>1 DEF Succeeds
<1> QED  BY <1>4, <1>5, <1>6

LEMMA DeletedSucceeds ==
    ASSUME NEW ws \in Array, Sound(ws), NEW i \in Listed(ws)
    PROVE  Succeeds(ws, Deleted(ws, i))
<1> DEFINE gone == Gone(ws, i)
<1>1. i \in DOMAIN ws  BY ListedIn
<1>2. gone \in Array /\ DOMAIN gone = DOMAIN ws  BY <1>1, GoneType
<1>3. \A j \in DOMAIN ws :
         /\ gone[j].isActive = IF j = i THEN FALSE ELSE ws[j].isActive
         /\ gone[j].isDeleted = IF j = i THEN TRUE ELSE ws[j].isDeleted
  BY <1>1, GoneFields
<1>4. Deleted(ws, i) = IF ws[i].isActive THEN Promote(gone, DOMAIN gone) ELSE gone
  BY <1>2 DEF Deleted, Gone
<1> HIDE DEF gone
<1>5. CASE ws[i].isActive
  <2> DEFINE new == Promote(gone, DOMAIN gone)
  <2>1. DOMAIN new = DOMAIN gone  BY <1>2, PromoteType
  <2>2. ActiveOnes(new) = {} => Candidates(new) \cap DOMAIN gone = {}
    BY <1>2, PromoteElects
  <2> HIDE DEF new
  <2>3. Candidates(new) \subseteq DOMAIN gone  BY <2>1 DEF Candidates, Listed
  <2>4. Succeeds(ws, new)  BY <2>2, <2>3 DEF Succeeds
  <2> QED  BY <1>4, <1>5, <2>4 DEF new
<1>6. CASE ~ws[i].isActive
  <2>1. ActiveOnes(gone) = ActiveOnes(ws)
    BY <1>1, <1>2, <1>3, <1>6 DEF ActiveOnes, Listed
  <2> QED  BY <1>4, <1>6, <2>1 DEF Succeeds
<1> QED  BY <1>5, <1>6

LEMMA WithNewSucceeds ==
    ASSUME NEW ws \in Array, NEW w \in Warehouse, ~w.isDeleted
    PROVE  Succeeds(ws, WithNew(ws, w))
<1> DEFINE new == WithNew(ws, w)
           last == Len(ws) + 1
<1>1. /\ DOMAIN new = DOMAIN ws \cup {last} /\ new[last] = w
      /\ last \notin DOMAIN ws
  BY WithNewLast
<1>2. \A j \in DOMAIN ws :
         /\ new[j].isActive = IF w.isActive /\ ~ws[j].isDeleted THEN FALSE
                                                              ELSE ws[j].isActive
         /\ new[j].isDeleted = ws[j].isDeleted
  BY WithNewFields
<1> HIDE DEF new, last
<1>3. ActiveOnes(new) = IF w.isActive THEN {last} ELSE ActiveOnes(ws)
  BY <1>1, <1>2 DEF ActiveOnes, Listed
<1>4. Succeeds(ws, new)  BY <1>3 DEF Succeeds
<1> QED  BY <1>4 DEF new

LEMMA ActivatedSucceeds ==
    ASSUME NEW ws \in Array, NEW i \in Listed(ws)
    PROVE  Succeeds(ws, Activated(ws, i))
<1>1. i \in DOMAIN ws /\ ~ws[i].isDeleted  BY DEF Listed
<1>2. /\ DOMAIN Activated(ws, i) = DOMAIN ws
      /\ Activated(ws, i)[i].isActive
      /\ ~Activated(ws, i)[i].isDeleted
  BY <1>1, ActivatedType, ActivatedFields
<1>3. i \in ActiveOnes(Activated(ws, i))
  BY <1>1, <1>2 DEF ActiveOnes, Listed
<1> QED  BY <1>3 DEF Succeeds

\* The deprecated updateWarehouse is left out: it takes the flag away from a
\* complete warehouse when the body says so, and looks for nobody else.
LEMMA MakesSucceeds ==
    ASSUME NEW ws \in Array, Sound(ws), NEW new, Makes(ws, new),
           "edit" \notin Operations
    PROVE  Succeeds(ws, new)
<1>1. ASSUME NEW w \in Warehouse, w.isDeleted = FALSE, new = WithNew(ws, w)
      PROVE  Succeeds(ws, new)
  BY <1>1, WithNewSucceeds
<1>2. CASE new = Append(ws, Default)
  <2>1. ~Default.isDeleted  BY DEF Default
  <2> QED  BY <1>2, <2>1, AppendDefault, DefaultType, WithNewSucceeds
<1>3. ASSUME NEW i \in Listed(ws), NEW blank \in SUBSET Fields,
             NEW type \in PartnerTypes, new = WithData(ws, i, blank, type)
      PROVE  Succeeds(ws, new)
  BY <1>3, WithDataSucceeds
<1>4. ASSUME NEW i \in Listed(ws), new \in {Deleted(ws, i), Activated(ws, i)}
      PROVE  Succeeds(ws, new)
  BY <1>4, DeletedSucceeds, ActivatedSucceeds
<1>5. ASSUME NEW i \in Listed(ws), ws[i].isActive, new = Deactivated(ws, i)
      PROVE  Succeeds(ws, new)
  <2>1. i \in ActiveOnes(ws)  BY <1>5 DEF ActiveOnes
  <2>2. ActiveOnes(ws) \subseteq {i}  BY <2>1 DEF Sound
  <2>3. i \in DOMAIN ws  BY ListedIn
  <2>4. ActiveOnes(new) = {} => Candidates(new) \subseteq {i}
    BY <1>5, <2>3, FallElects DEF Deactivated
  <2> QED  BY <2>2, <2>4 DEF Succeeds
<1> QED  BY <1>1, <1>2, <1>3, <1>4, <1>5 DEF Makes

-----------------------------------------------------------------------------
\* Requests one at a time. What a request loaded is then what it overwrites,
\* and the invariant says so: with two requests it fails, and so does
\* AtMostOneActive.

Serial == \A r, s \in Requests : r = s

SeenIsStored ==
    \A r \in Requests : requests[r].pc \in {"loaded", "defaulting"}
                          => requests[r].seen = country

IInv ==
    /\ TypeOK
    /\ Sound(country.warehouses)
    /\ HasActiveExact
    /\ SeenIsStored

LEMMA MergedAlone ==
    ASSUME NEW seen \in Warehouse, NEW new \in Warehouse
    PROVE  Merged(seen, seen, new) = new
<1>1. (seen.blank \ (seen.blank \ new.blank)) \cup (new.blank \ seen.blank) = new.blank
  OBVIOUS
<1>2. /\ Merged(seen, seen, new).isActive = new.isActive
      /\ Merged(seen, seen, new).isDeleted = new.isDeleted
      /\ Merged(seen, seen, new).partnerType = new.partnerType
      /\ Merged(seen, seen, new).blank = new.blank
  BY <1>1 DEF Merged
<1>3. Merged(seen, seen, new) \in Warehouse  BY MergedType
<1> QED  BY <1>2, <1>3 DEF Warehouse

LEMMA StoredAlone ==
    ASSUME country \in Country, NEW new, Grows(country.warehouses, new)
    PROVE  Stored(country, new) = new
<1> DEFINE ws == country.warehouses
<1>1. ws \in Array /\ new \in Array /\ Len(new) \in {Len(ws), Len(ws) + 1}
  BY DEF Country, Grows, Array
<1>2. /\ DOMAIN ws = 1 .. Len(ws) /\ DOMAIN new = 1 .. Len(new)
      /\ Len(ws) \in Nat /\ Len(new) \in Nat
  BY <1>1 DEF Array
<1>3. CASE Len(new) = Len(ws)
  <2>1. Stored(country, new) =
          [i \in DOMAIN ws |-> IF i \in DOMAIN ws THEN Merged(ws[i], ws[i], new[i])
                                                  ELSE ws[i]]
    BY <1>2, <1>3 DEF Stored
  <2>2. \A i \in DOMAIN ws : Merged(ws[i], ws[i], new[i]) = new[i]
    BY <1>1, <1>2, <1>3, ElementType, MergedAlone
  <2>3. Stored(country, new) = [i \in DOMAIN new |-> new[i]]
    BY <1>2, <1>3, <2>1, <2>2
  <2>4. new = [i \in DOMAIN new |-> new[i]]  BY <1>1 DEF Array
  <2> QED  BY <2>3, <2>4
<1>4. CASE Len(new) = Len(ws) + 1
  <2>1. CASE \E i \in DOMAIN ws : new[i] # ws[i]
    BY <1>2, <1>4, <2>1 DEF Stored
  <2>2. CASE \A i \in DOMAIN ws : new[i] = ws[i]
    <3>1. Stored(country, new) = Append(ws, new[Len(new)])
      BY <1>2, <1>4, <2>2 DEF Stored
    <3>2. Append(ws, new[Len(new)]) = new
      BY <1>1, <1>2, <1>4, <2>2 DEF Array
    <3> QED  BY <3>1, <3>2
  <2> QED  BY <2>1, <2>2
<1> QED  BY <1>1, <1>3, <1>4

LEMMA SaveAlone ==
    ASSUME TypeOK, HasActiveExact, NEW r \in Requests, NEW new,
           Grows(country.warehouses, new), Save(r, country, new)
    PROVE  /\ country'.warehouses = new
           /\ country'.hasActiveWarehouse <=> ActiveOnes(new) # {}
           /\ requests' = [requests EXCEPT ![r] = Idle]
<1>1. country \in Country  BY DEF TypeOK
<1>2. Stored(country, new) = new  BY <1>1, StoredAlone
<1>3. /\ country'.warehouses = new
      /\ country'.hasActiveWarehouse =
           IF HasActive(new) = country.hasActiveWarehouse
           THEN country.hasActiveWarehouse ELSE HasActive(new)
  BY <1>1, <1>2 DEF Save, Country
<1>4. HasActive(new) <=> ActiveOnes(new) # {}  BY DEF HasActive
<1> QED  BY <1>3, <1>4 DEF Save

\* The four kinds of step, for one request at a time.
LEMMA SerialStep ==
    ASSUME Serial, IInv, Next
    PROVE  /\ IInv'
           /\ \/ country'.warehouses = country.warehouses
              \/ \E new : /\ Makes(country.warehouses, new)
                          /\ country'.warehouses = new
<1> USE DEF IInv
<1>1. TypeOK'
  <2>1. TypeOK /\ Next => TypeOK'  BY TypeStep
  <2> QED  BY <2>1
<1>2. ASSUME NEW r \in Requests, UNCHANGED country,
             requests' \in {[requests EXCEPT ![r] = Idle],
                           [requests EXCEPT ![r] = [pc |-> "inserting"]],
                           [requests EXCEPT ![r] = [pc |-> "loaded", seen |-> country]],
                           [requests EXCEPT ![r] = [pc |-> "defaulting", seen |-> country]]}
      PROVE  IInv' /\ country'.warehouses = country.warehouses
  <2>1. SeenIsStored'
    BY <1>2 DEF SeenIsStored, Idle, TypeOK
  <2> QED  BY <1>1, <1>2, <2>1 DEF HasActiveExact
<1>3. ASSUME NEW r \in Requests, InsertCountry(r)
      PROVE  IInv' /\ country'.warehouses = country.warehouses
  <2>1. /\ country'.warehouses = country.warehouses
        /\ country'.hasActiveWarehouse = country.hasActiveWarehouse
    BY <1>3 DEF InsertCountry, TypeOK, Country
  <2>2. requests'[r].pc \notin {"loaded", "defaulting"}
    BY <1>3 DEF InsertCountry, TypeOK, Idle
  <2>3. SeenIsStored'
    BY <2>2 DEF SeenIsStored, Serial
  <2> QED  BY <1>1, <2>1, <2>3 DEF HasActiveExact
<1>4. ASSUME NEW r \in Requests, NEW new,
             requests[r].pc \in {"loaded", "defaulting"},
             Makes(requests[r].seen.warehouses, new),
             Save(r, requests[r].seen, new)
      PROVE  IInv' /\ Makes(country.warehouses, new) /\ country'.warehouses = new
  <2>1. requests[r].seen = country  BY <1>4 DEF SeenIsStored
  <2>2. country.warehouses \in Array  BY DEF TypeOK, Country, Array
  <2>3. Grows(country.warehouses, new)  BY <1>4, <2>1, <2>2, MakesGrows
  <2>4. Sound(new)  BY <1>4, <2>1, <2>2, MakesSound
  <2>5. /\ country'.warehouses = new
        /\ country'.hasActiveWarehouse <=> ActiveOnes(new) # {}
        /\ requests' = [requests EXCEPT ![r] = Idle]
    BY <1>4, <2>1, <2>3, SaveAlone
  <2>6. requests'[r].pc \notin {"loaded", "defaulting"}
    BY <2>5 DEF TypeOK, Idle
  <2>7. SeenIsStored'
    BY <2>6 DEF SeenIsStored, Serial
  <2> QED  BY <1>1, <1>4, <2>1, <2>4, <2>5, <2>7 DEF HasActiveExact
<1> QED  BY <1>2, <1>3, <1>4, StepCases

LEMMA SerialInit == Init => IInv /\ Filled(country.warehouses)
BY DEF Init, IInv, TypeOK, NoCountry, Country, RequestStates, Sound, Filled,
       HasActiveExact, ActiveOnes, Listed, SeenIsStored, Idle

\* With one request at a time a country never has two active warehouses, and
\* hasActiveWarehouse is right, whatever the operations of WarehousesService
\* are called with and however many warehouses there are.
THEOREM OneActive ==
    ASSUME Serial
    PROVE  Spec => [](AtMostOneActive /\ HasActiveExact)
<1>1. Init => IInv  BY SerialInit
<1>2. IInv /\ [Next]_vars => IInv'
  <2>1. CASE Next  BY <2>1, SerialStep
  <2>2. CASE UNCHANGED vars
    BY <2>2 DEF vars, IInv, TypeOK, HasActiveExact, SeenIsStored
  <2> QED  BY <2>1, <2>2
<1>3. IInv => AtMostOneActive /\ HasActiveExact
  BY DEF IInv, Sound, AtMostOneActive
<1> QED  BY <1>1, <1>2, <1>3, PTL DEF Spec

\* With one request at a time, and no new warehouse that leaves a required
\* field blank, the active warehouse always has all its fields.
THEOREM ActiveComplete ==
    ASSUME Serial, NewBlanks \subseteq {{}}
    PROVE  Spec => []ActiveIsComplete
<1> DEFINE Inv == IInv /\ Filled(country.warehouses)
<1>1. Init => Inv  BY SerialInit
<1>2. Inv /\ [Next]_vars => Inv'
  <2>1. ASSUME Inv, Next  PROVE Inv'
    <3>1. country.warehouses \in Array /\ Sound(country.warehouses)
      BY <2>1 DEF IInv, TypeOK, Country, Array
    <3>2. \A new : Makes(country.warehouses, new) => Filled(new)
      BY <2>1, <3>1, MakesSound
    <3> QED  BY <2>1, <3>2, SerialStep
  <2>2. ASSUME Inv, UNCHANGED vars  PROVE Inv'
    BY <2>2 DEF vars, IInv, TypeOK, HasActiveExact, SeenIsStored
  <2> QED  BY <2>1, <2>2
<1>3. Inv => ActiveIsComplete
  BY DEF Filled, ActiveIsComplete
<1> QED  BY <1>1, <1>2, <1>3, PTL DEF Spec

\* With one request at a time, and without the deprecated PATCH,
\* hasActiveWarehouse is always right, and a country loses its active warehouse
\* only when no other one is complete: every operation of WarehousesService that
\* takes the flag away passes it on to findBestActiveCandidate.
THEOREM KeepsActive ==
    ASSUME Serial, "edit" \notin Operations
    PROVE  Spec => ActiveKept
<1>1. Init => IInv  BY SerialInit
<1>2. IInv /\ [Next]_vars => IInv'
  <2>1. CASE Next  BY <2>1, SerialStep
  <2>2. CASE UNCHANGED vars
    BY <2>2 DEF vars, IInv, TypeOK, HasActiveExact, SeenIsStored
  <2> QED  BY <2>1, <2>2
<1>3. IInv => HasActiveExact  BY DEF IInv
<1>4. IInv /\ [Next]_vars =>
        [\A i \in ActiveOnes(country.warehouses) :
            ActiveOnes(country'.warehouses) = {}
               => Candidates(country'.warehouses) \subseteq {i}]_vars
  <2> SUFFICES ASSUME IInv, Next
               PROVE  Succeeds(country.warehouses, country'.warehouses)
    BY DEF Succeeds
  <2>1. country.warehouses \in Array /\ Sound(country.warehouses)
    BY DEF IInv, TypeOK, Country, Array
  <2>2. Succeeds(country.warehouses, country.warehouses)  BY DEF Succeeds
  <2>3. \A new : Makes(country.warehouses, new) => Succeeds(country.warehouses, new)
    BY <2>1, MakesSucceeds
  <2> QED  BY <2>2, <2>3, SerialStep
<1> QED  BY <1>1, <1>2, <1>3, <1>4, PTL DEF Spec, ActiveKept, ActiveIsReplaced

-----------------------------------------------------------------------------
\* Accounts: the inductive invariant. What a request has seen of a user or a tenant
\* lasts, for neither is ever taken away; that a name is free lasts because a request
\* that founds or renames a tenant has the collection to itself.

\* Requests that found or rename a tenant do not overlap with others: no index guards
\* the name that they have looked up.
NamesAssumption == Together \cap {"found", "rename"} = {}

User    == [tenant : Companies \cup {None, Null}, name : Names \cup {None, Null}, role : {"user", "superadmin"},
            status : {"pending", "active", "inactive"}, isActive : BOOLEAN, isDeleted : BOOLEAN]
Company == [name : Names, isActive : BOOLEAN]
AccountCall == [kind : Account!Kinds \cup {None}, user : Users \cup {None}, tenant : Companies \cup {None},
         name : Names \cup {None}, isActive : BOOLEAN]

HasSeen(c) ==
    /\ c.kind \in {"toggle", "assign"} => c.user \in Users /\ users[c.user] \in User
    /\ c.kind = "assign" => c.tenant \in Companies
    /\ c.kind \in {"rename", "pause"} => c.tenant \in Companies /\ tenants[c.tenant] \in Company
    /\ c.kind = "found" => c.name \in Names /\ Account!Called(c.name) = {}
    /\ c.kind = "rename" => c.name \in Names /\ Account!Called(c.name) \subseteq {c.tenant}

NamesAlone ==
    \A r, q \in Callers :
        calls[r].kind \in {"found", "rename"} /\ calls[q] # Account!Waiting => q = r

NamesDiffer == \A s, t \in Account!Founded : tenants[s].name = tenants[t].name => s = t

UsersFit == users \in [Users -> {Account!Absent} \cup User] /\ wasSuper \subseteq Users
Nulls    == \A u \in Users : users[u].tenant \in Companies \cup {None} \/ u \in wasSuper

AccountsInv ==
    /\ UsersFit /\ Nulls
    /\ tenants \in [Companies -> {Account!NoTenant} \cup Company] /\ NamesDiffer
    /\ calls \in [Callers -> AccountCall] /\ (\A r \in Callers : HasSeen(calls[r])) /\ NamesAlone

LEMMA WaitingFits == Account!Waiting \in AccountCall /\ HasSeen(Account!Waiting) /\ Account!Waiting.kind = None
BY AccountConstants DEF Account!Waiting, AccountCall, HasSeen, Account!Kinds

LEMMA AbsentHasNoTenant == Account!Absent.tenant = None
BY DEF Account!Absent

LEMMA InitAccounts == Account!Init => AccountsInv
<1> SUFFICES ASSUME Account!Init PROVE AccountsInv
  OBVIOUS
<1>1. users = [u \in Users |-> Account!Absent] /\ tenants = [t \in Companies |-> Account!NoTenant]
      /\ calls = [r \in Callers |-> Account!Waiting] /\ wasSuper = {}
  BY DEF Account!Init
<1>2. UsersFit /\ Nulls
  BY <1>1, AbsentHasNoTenant DEF UsersFit, Nulls
<1>3. Account!Founded = {}
  BY <1>1 DEF Account!Founded
<1>4. NamesDiffer
  BY <1>3 DEF NamesDiffer
<1>5. calls \in [Callers -> AccountCall] /\ \A r \in Callers : HasSeen(calls[r])
  BY <1>1, WaitingFits
<1>6. NamesAlone
  BY <1>1 DEF NamesAlone
<1> QED  BY <1>1, <1>2, <1>4, <1>5, <1>6 DEF AccountsInv

-----------------------------------------------------------------------------
\* The three sorts of steps.

\* Requests come and go, one at a time, or stay as they are.
Answered == calls' = calls \/ \E r \in Callers : calls' = [calls EXCEPT ![r] = Account!Waiting]

LEMMA AnsweredFits ==
    ASSUME calls \in [Callers -> AccountCall], NamesAlone, Answered
    PROVE  /\ calls' \in [Callers -> AccountCall] /\ NamesAlone'
           /\ \A r \in Callers : calls'[r] = calls[r] \/ calls'[r] = Account!Waiting
<1>1. \A r \in Callers : calls'[r] = calls[r] \/ calls'[r] = Account!Waiting
  BY DEF Answered
<1>2. calls' \in [Callers -> AccountCall]
  BY WaitingFits DEF Answered
<1>3. Account!Waiting.kind \notin {"found", "rename"}
  BY AccountConstants, WaitingFits DEF Account!Kinds
<1> QED  BY <1>1, <1>2, <1>3 DEF NamesAlone

\* Users are written; none is taken away, and one without a tenant is remembered.
LEMMA UsersWritten ==
    ASSUME AccountsInv, UNCHANGED tenants, Answered,
           users' \in [Users -> {Account!Absent} \cup User], wasSuper \subseteq wasSuper', wasSuper' \subseteq Users,
           \A u \in Users : users[u] \in User => users'[u] \in User,
           \A u \in Users : users'[u].tenant \in Companies \cup {None} \/ u \in wasSuper'
    PROVE  AccountsInv'
<1> USE DEF AccountsInv
<1>1. Account!Founded' = Account!Founded /\ \A n : Account!Called(n)' = Account!Called(n)
  BY DEF Account!Founded, Account!Called
<1>2. NamesDiffer'
  BY <1>1 DEF NamesDiffer
<1>3. /\ calls' \in [Callers -> AccountCall] /\ NamesAlone'
      /\ \A r \in Callers : calls'[r] = calls[r] \/ calls'[r] = Account!Waiting
  BY AnsweredFits
<1>4. ASSUME NEW r \in Callers PROVE HasSeen(calls[r])' 
  <2>1. HasSeen(calls[r]) /\ HasSeen(Account!Waiting)
    BY WaitingFits
  <2>2. CASE calls'[r] = calls[r]
    BY <1>1, <2>1, <2>2 DEF HasSeen
  <2>3. CASE calls'[r] = Account!Waiting
    BY <2>3, WaitingFits, AccountConstants DEF HasSeen, Account!Kinds
  <2> QED  BY <1>3, <2>2, <2>3
<1> QED  BY <1>2, <1>3, <1>4 DEF UsersFit, Nulls

\* A request has looked.
LEMMA CallMade ==
    ASSUME NamesAssumption, AccountsInv, NEW r \in Callers, NEW k \in Account!Kinds, Account!Starting(r, k),
           NEW c \in AccountCall, c.kind = k, HasSeen(c), Account!Do(r, c), UNCHANGED <<users, tenants, wasSuper>>
    PROVE  AccountsInv'
<1> USE DEF AccountsInv
<1>1. calls' = [calls EXCEPT ![r] = c]
  BY DEF Account!Do
<1>2. calls' \in [Callers -> AccountCall]
  BY <1>1
<1>3. Account!Founded' = Account!Founded /\ \A n : Account!Called(n)' = Account!Called(n)
  BY DEF Account!Founded, Account!Called
<1>4. UsersFit' /\ Nulls' /\ NamesDiffer'
  BY <1>3 DEF UsersFit, Nulls, NamesDiffer
<1>5. ASSUME NEW q \in Callers PROVE HasSeen(calls[q])'
  <2>1. calls'[q] = calls[q] \/ calls'[q] = c
    BY <1>1
  <2>2. HasSeen(calls[q])
    OBVIOUS
  <2> QED  BY <1>3, <2>1, <2>2 DEF HasSeen
<1>6. NamesAlone'
  <2> SUFFICES ASSUME NEW p \in Callers, NEW q \in Callers, calls'[p].kind \in {"found", "rename"},
                      calls'[q] # Account!Waiting
               PROVE  q = p
    BY DEF NamesAlone
  <2>1. \A x \in Callers : calls[x] # Account!Waiting => k \in Together /\ calls[x].kind \in Together
    BY DEF Account!Starting
  <2>2. calls[r] = Account!Waiting
    BY DEF Account!Starting
  <2>3. CASE p = r
    <3>1. k \notin Together
      BY <1>1, <2>3 DEF NamesAssumption
    <3> QED  BY <1>1, <2>1, <2>3, <3>1
  <2>4. CASE p # r
    <3>1. calls[p].kind \in {"found", "rename"}
      BY <1>1, <2>4
    <3>2. calls[p] # Account!Waiting
      BY <3>1, WaitingFits, AccountConstants DEF Account!Kinds
    <3> QED  BY <2>1, <3>1, <3>2 DEF NamesAssumption
  <2> QED  BY <2>3, <2>4
<1> QED  BY <1>2, <1>4, <1>5, <1>6

\* A tenant is written by the request r: none is taken away, no name is given that
\* another has, and unless r has the collection to itself, no name at all.
LEMMA TenantWritten ==
    ASSUME AccountsInv, NEW r \in Callers, Account!End(r), UNCHANGED <<users, wasSuper>>,
           NEW t \in Companies, NEW c \in Company, tenants' = [tenants EXCEPT ![t] = c],
           \/ tenants[t] \in Company /\ c.name = tenants[t].name
           \/ calls[r].kind \in {"found", "rename"} /\ Account!Called(c.name) \subseteq {t}
    PROVE  AccountsInv'
<1> USE DEF AccountsInv
<1>1. calls' = [calls EXCEPT ![r] = Account!Waiting]
  BY DEF Account!End, Account!Do
<1>2. /\ calls' \in [Callers -> AccountCall] /\ NamesAlone'
      /\ \A q \in Callers : calls'[q] = calls[q] \/ calls'[q] = Account!Waiting
  BY <1>1, AnsweredFits DEF Answered
<1>3. tenants' \in [Companies -> {Account!NoTenant} \cup Company] /\ tenants'[t] = c
      /\ \A s \in Companies \ {t} : tenants'[s] = tenants[s]
  OBVIOUS
<1>4. \A x \in Company : x # Account!NoTenant
  BY AccountConstants DEF Company, Account!NoTenant
<1>5. Account!Founded' = Account!Founded \cup {t}
  BY <1>3, <1>4 DEF Account!Founded
<1>6. \A s \in Account!Founded : tenants[s].name = c.name => s = t
  <2>1. CASE tenants[t] \in Company /\ c.name = tenants[t].name
    BY <1>4, <2>1 DEF NamesDiffer, Account!Founded
  <2>2. CASE Account!Called(c.name) \subseteq {t}
    BY <2>2 DEF Account!Called
  <2> QED  BY <2>1, <2>2
<1>7. NamesDiffer'
  BY <1>3, <1>5, <1>6 DEF NamesDiffer, Account!Founded
<1>8. ASSUME NEW q \in Callers PROVE HasSeen(calls[q])'
  <2>1. CASE calls'[q] = Account!Waiting
    BY <2>1, WaitingFits, AccountConstants DEF HasSeen, Account!Kinds
  <2>2. CASE calls'[q] = calls[q] /\ calls[q] # Account!Waiting
    <3>1. HasSeen(calls[q]) /\ q # r
      BY <1>1, <2>2
    <3>2. ~(calls[r].kind \in {"found", "rename"})
      BY <2>2, <3>1 DEF NamesAlone
    <3>3. tenants[t] \in Company /\ c.name = tenants[t].name
      BY <3>2
    <3>4. \A n : Account!Called(n)' = Account!Called(n)
      BY <1>3, <1>4, <1>5, <3>3 DEF Account!Called, Account!Founded
    <3>5. \A s \in Companies : tenants[s] \in Company => tenants'[s] \in Company
      BY <1>3
    <3> QED  BY <2>2, <3>1, <3>4, <3>5 DEF HasSeen
  <2> QED  BY <1>2, <2>1, <2>2
<1> QED  BY <1>2, <1>3, <1>7, <1>8 DEF UsersFit, Nulls

-----------------------------------------------------------------------------
\* The actions.

LEMMA HasUser == \A u \in Users : AccountsInv /\ Account!Has(u) => users[u] \in User
BY DEF AccountsInv, UsersFit, Account!Has

LEMMA FoundedCompany == \A t \in Account!Founded : AccountsInv => t \in Companies /\ tenants[t] \in Company
BY DEF AccountsInv, Account!Founded

\* One user is written.
LEMMA UserWritten ==
    ASSUME AccountsInv, UNCHANGED tenants, Answered, NEW u \in Users, NEW x \in User, users' = [users EXCEPT ![u] = x],
           wasSuper' \in {wasSuper, wasSuper \cup {u}},
           x.tenant \in Companies \cup {None} \/ u \in wasSuper'
    PROVE  AccountsInv'
<1>1. /\ users' \in [Users -> {Account!Absent} \cup User] /\ users'[u] = x
      /\ \A v \in Users \ {u} : users'[v] = users[v]
  BY DEF AccountsInv, UsersFit
<1>2. wasSuper \subseteq wasSuper' /\ wasSuper' \subseteq Users
  BY DEF AccountsInv, UsersFit
<1>3. \A v \in Users : users[v] \in User => users'[v] \in User
  BY <1>1
<1>4. \A v \in Users : users'[v].tenant \in Companies \cup {None} \/ v \in wasSuper'
  BY <1>1, <1>2 DEF AccountsInv, Nulls
<1> QED  BY <1>1, <1>2, <1>3, <1>4, UsersWritten

LEMMA SingleWrites ==
    ASSUME AccountsInv, NEW u \in Users,
           \/ Account!Register(u) \/ Account!Activate(u) \/ Account!Promote(u) \/ Account!SoftDelete(u)
           \/ \E t \in Companies : Account!Employ(u, t)
           \/ \E role \in {"user", "superadmin"} : Account!UpdateRole(u, role)
    PROVE  AccountsInv'
<1>1. users[u].tenant \in Companies \cup {None} \/ u \in wasSuper
  BY DEF AccountsInv, Nulls
<1>2. UNCHANGED <<tenants, calls>>
  BY DEF Account!Register, Account!Activate, Account!Promote, Account!SoftDelete, Account!Employ, Account!UpdateRole
<1>3. Answered
  BY <1>2 DEF Answered
<1>4. CASE Account!Register(u)
  <2> DEFINE x == [Account!Absent EXCEPT !.role = "user", !.status = "pending", !.isActive = TRUE]
  <2>1. x \in User /\ x.tenant = None
    BY DEF User, Account!Absent
  <2>2. users' = [users EXCEPT ![u] = x] /\ wasSuper' = wasSuper
    BY <1>4 DEF Account!Register
  <2> HIDE DEF x
  <2> QED  BY <1>2, <1>3, <2>1, <2>2, UserWritten
<1>5. CASE Account!Activate(u)
  <2> DEFINE x == [users[u] EXCEPT !.status = "active"]
  <2>1. users[u] \in User
    BY <1>5, HasUser DEF Account!Activate
  <2>2. x \in User /\ x.tenant = users[u].tenant
    BY <2>1 DEF User
  <2>3. users' = [users EXCEPT ![u] = x] /\ wasSuper' = wasSuper
    BY <1>5 DEF Account!Activate
  <2> HIDE DEF x
  <2> QED  BY <1>1, <1>2, <1>3, <2>2, <2>3, UserWritten
<1>6. CASE Account!Promote(u)
  <2> DEFINE x == [users[u] EXCEPT !.tenant = Null, !.name = Null, !.role = "superadmin", !.status = "active"]
  <2>1. users[u] \in User
    BY <1>6, HasUser DEF Account!Promote
  <2>2. x \in User
    BY <2>1 DEF User
  <2>3. users' = [users EXCEPT ![u] = x] /\ wasSuper' = wasSuper \cup {u}
    BY <1>6, <2>1 DEF Account!Promote, AccountsInv, UsersFit
  <2> HIDE DEF x
  <2> QED  BY <1>2, <1>3, <2>2, <2>3, UserWritten
<1>7. CASE Account!SoftDelete(u)
  <2> DEFINE x == [users[u] EXCEPT !.isDeleted = TRUE, !.isActive = FALSE]
  <2>1. users[u] \in User
    BY <1>7, HasUser DEF Account!SoftDelete
  <2>2. x \in User /\ x.tenant = users[u].tenant
    BY <2>1 DEF User
  <2>3. users' = [users EXCEPT ![u] = x] /\ wasSuper' = wasSuper
    BY <1>7, <2>1 DEF Account!SoftDelete, AccountsInv, UsersFit
  <2> HIDE DEF x
  <2> QED  BY <1>1, <1>2, <1>3, <2>2, <2>3, UserWritten
<1>8. ASSUME NEW t \in Companies, Account!Employ(u, t) PROVE AccountsInv'
  <2> DEFINE x == [users[u] EXCEPT !.tenant = t, !.name = tenants[t].name, !.role = "user", !.status = "active"]
  <2>1. users[u] \in User /\ tenants[t].name \in Names
    BY <1>8, HasUser, FoundedCompany DEF Account!Employ, Company
  <2>2. x \in User /\ x.tenant = t
    BY <2>1 DEF User
  <2>3. users' = [users EXCEPT ![u] = x] /\ wasSuper' = wasSuper
    BY <1>8, <2>1 DEF Account!Employ, AccountsInv, UsersFit
  <2> HIDE DEF x
  <2> QED  BY <1>2, <1>3, <2>2, <2>3, UserWritten
<1>9. ASSUME NEW role \in {"user", "superadmin"}, Account!UpdateRole(u, role) PROVE AccountsInv'
  <2> DEFINE y == IF role = "superadmin" THEN [users[u] EXCEPT !.tenant = None, !.name = None] ELSE users[u]
  <2> DEFINE x == [y EXCEPT !.role = role]
  <2>1. users[u] \in User
    BY <1>9, HasUser DEF Account!UpdateRole
  <2>2. x \in User /\ x.tenant \in {None, users[u].tenant}
    BY <2>1 DEF User
  <2>3. users' = [users EXCEPT ![u] = x] /\ wasSuper' = wasSuper
    BY <1>9 DEF Account!UpdateRole, Account!Stripped
  <2> HIDE DEF x
  <2> QED  BY <1>1, <1>2, <1>3, <2>2, <2>3, UserWritten
<1> QED  BY <1>4, <1>5, <1>6, <1>7, <1>8, <1>9

LEMMA AssignTenantAccounts ==
    ASSUME AccountsInv, NEW U \in SUBSET Users, NEW t \in Companies, Account!AssignTenant(U, t)
    PROVE  AccountsInv'
<1>1. UNCHANGED <<tenants, calls, wasSuper>> /\ \A u \in U : users[u] \in User
  BY HasUser DEF Account!AssignTenant
<1>2. ASSUME NEW u \in Users
      PROVE  /\ users'[u] = IF u \in U THEN [users[u] EXCEPT !.tenant = t, !.status = "active"] ELSE users[u]
             /\ u \in U => users'[u] \in User /\ users'[u].tenant = t
  <2>1. users'[u] = IF u \in U THEN [users[u] EXCEPT !.tenant = t, !.status = "active"] ELSE users[u]
    BY DEF Account!AssignTenant
  <2> QED  BY <1>1, <2>1 DEF User
<1>3. users' = [u \in Users |-> users'[u]]
  BY DEF Account!AssignTenant
<1>4. \A u \in Users : users'[u] \in {Account!Absent} \cup User
  BY <1>2 DEF AccountsInv, UsersFit
<1>5. users' \in [Users -> {Account!Absent} \cup User]
  BY <1>3, <1>4
<1>6. \A u \in Users : users'[u].tenant \in Companies \cup {None} \/ u \in wasSuper'
  BY <1>1, <1>2 DEF AccountsInv, Nulls
<1>7. wasSuper' \subseteq Users
  BY <1>1 DEF AccountsInv, UsersFit
<1> QED  BY <1>1, <1>2, <1>5, <1>6, <1>7, UsersWritten DEF Answered

\* The second halves of toggle and assign.
LEMMA UserCallsAccounts ==
    ASSUME AccountsInv, NEW r \in Callers, Account!ToggleWrite(r) \/ Account!AssignWrite(r)
    PROVE  AccountsInv'
<1> DEFINE u == calls[r].user
<1>1. calls[r].kind \in {"toggle", "assign"} /\ UNCHANGED <<tenants, wasSuper>> /\ Account!End(r)
  BY DEF Account!ToggleWrite, Account!AssignWrite
<1>2. u \in Users /\ users[u] \in User /\ (calls[r].kind = "assign" => calls[r].tenant \in Companies)
      /\ calls[r].isActive \in BOOLEAN
  BY <1>1 DEF AccountsInv, HasSeen, AccountCall
<1>3. Answered
  BY <1>1 DEF Answered, Account!End, Account!Do
<1>4. users[u].tenant \in Companies \cup {None} \/ u \in wasSuper
  BY <1>2 DEF AccountsInv, Nulls
<1>5. PICK x \in User : users' = [users EXCEPT ![u] = x] /\ (x.tenant = users[u].tenant \/ x.tenant \in Companies)
  <2>1. CASE Account!ToggleWrite(r)
    <3> DEFINE x == [users[u] EXCEPT !.isActive = calls[r].isActive,
                                     !.status = IF calls[r].isActive THEN "active" ELSE "inactive"]
    <3>1. x \in User /\ x.tenant = users[u].tenant
      BY <1>2 DEF User
    <3>2. users' = [users EXCEPT ![u] = x]
      BY <1>2, <2>1 DEF Account!ToggleWrite, AccountsInv, UsersFit
    <3> QED  BY <3>1, <3>2
  <2>2. CASE Account!AssignWrite(r)
    <3> DEFINE x == [users[u] EXCEPT !.tenant = calls[r].tenant, !.status = "active"]
    <3>0. calls[r].kind = "assign"
      BY <2>2 DEF Account!AssignWrite
    <3>1. x \in User /\ x.tenant \in Companies
      BY <1>2, <3>0 DEF User
    <3>2. users' = [users EXCEPT ![u] = x]
      BY <1>2, <2>2 DEF Account!AssignWrite, AccountsInv, UsersFit
    <3> QED  BY <3>1, <3>2
  <2> QED  BY <2>1, <2>2
<1> HIDE DEF u
<1> QED  BY <1>1, <1>2, <1>3, <1>4, <1>5, UserWritten

LEMMA TenantCallsAccounts ==
    ASSUME AccountsInv, NEW r \in Callers,
           Account!FoundWrite(r) \/ Account!RenameWrite(r) \/ Account!PauseWrite(r)
    PROVE  AccountsInv'
<1>1. UNCHANGED <<users, wasSuper>> /\ Account!End(r) /\ HasSeen(calls[r]) /\ calls[r] \in AccountCall
  BY DEF Account!FoundWrite, Account!RenameWrite, Account!PauseWrite, AccountsInv
<1>2. CASE Account!FoundWrite(r)
  <2>1. PICK t \in Companies : tenants' = [tenants EXCEPT ![t] = [name |-> calls[r].name, isActive |-> TRUE]]
    BY <1>2 DEF Account!FoundWrite
  <2> DEFINE c == [name |-> calls[r].name, isActive |-> TRUE]
  <2>2. calls[r].kind = "found" /\ c \in Company /\ Account!Called(c.name) \subseteq {t}
    BY <1>1, <1>2 DEF Account!FoundWrite, HasSeen, Company
  <2> HIDE DEF c
  <2> QED  BY <1>1, <2>1, <2>2, TenantWritten DEF c
<1>3. CASE Account!RenameWrite(r)
  <2> DEFINE t == calls[r].tenant
  <2> DEFINE c == [tenants[t] EXCEPT !.name = calls[r].name]
  <2>1. calls[r].kind = "rename" /\ tenants' = [tenants EXCEPT ![t].name = calls[r].name]
    BY <1>3 DEF Account!RenameWrite
  <2>2. t \in Companies /\ tenants[t] \in Company /\ calls[r].name \in Names /\ Account!Called(calls[r].name) \subseteq {t}
    BY <1>1, <2>1 DEF HasSeen
  <2>3. c \in Company /\ Account!Called(c.name) \subseteq {t}
    BY <2>2 DEF Company
  <2>4. tenants' = [tenants EXCEPT ![t] = c]
    BY <2>1, <2>2 DEF AccountsInv
  <2> HIDE DEF t, c
  <2> QED  BY <1>1, <2>1, <2>2, <2>3, <2>4, TenantWritten
<1>4. CASE Account!PauseWrite(r)
  <2> DEFINE t == calls[r].tenant
  <2> DEFINE c == [tenants[t] EXCEPT !.isActive = calls[r].isActive]
  <2>1. calls[r].kind = "pause" /\ tenants' = [tenants EXCEPT ![t].isActive = calls[r].isActive]
    BY <1>4 DEF Account!PauseWrite
  <2>2. t \in Companies /\ tenants[t] \in Company /\ calls[r].isActive \in BOOLEAN
    BY <1>1, <2>1 DEF HasSeen, AccountCall
  <2>3. c \in Company /\ c.name = tenants[t].name
    BY <2>2 DEF Company
  <2>4. tenants' = [tenants EXCEPT ![t] = c]
    BY <2>1, <2>2 DEF AccountsInv
  <2> HIDE DEF t, c
  <2> QED  BY <1>1, <2>2, <2>3, <2>4, TenantWritten
<1> QED  BY <1>2, <1>3, <1>4

LEMMA LooksAccounts ==
    ASSUME NamesAssumption, AccountsInv, NEW r \in Callers,
           \/ \E u \in Users : Account!Toggle(r, u) \/ \E t \in Companies : Account!Assign(r, u, t)
           \/ \E n \in Names : Account!Found(r, n) \/ \E t \in Companies : Account!Rename(r, t, n)
           \/ \E t \in Companies : Account!Pause(r, t)
    PROVE  AccountsInv'
<1> USE DEF Account!Kinds
<1>1. ASSUME NEW u \in Users, Account!Toggle(r, u) PROVE AccountsInv'
  <2> DEFINE c == [Account!Waiting EXCEPT !.kind = "toggle", !.user = u, !.isActive = ~users[u].isActive]
  <2>1. users[u] \in User
    BY <1>1, HasUser DEF Account!Toggle
  <2>2. c \in AccountCall /\ c.kind = "toggle" /\ HasSeen(c)
    BY <2>1 DEF Account!Waiting, AccountCall, HasSeen, User
  <2>3. Account!Do(r, c) /\ Account!Starting(r, "toggle") /\ UNCHANGED <<users, tenants, wasSuper>>
    BY <1>1 DEF Account!Toggle
  <2> HIDE DEF c
  <2> QED  BY <2>2, <2>3, CallMade
<1>2. ASSUME NEW u \in Users, NEW t \in Companies, Account!Assign(r, u, t) PROVE AccountsInv'
  <2> DEFINE c == [Account!Waiting EXCEPT !.kind = "assign", !.user = u, !.tenant = t]
  <2>1. users[u] \in User
    BY <1>2, HasUser DEF Account!Assign, Account!Assignable
  <2>2. c \in AccountCall /\ c.kind = "assign" /\ HasSeen(c)
    BY <2>1 DEF Account!Waiting, AccountCall, HasSeen
  <2>3. Account!Do(r, c) /\ Account!Starting(r, "assign") /\ UNCHANGED <<users, tenants, wasSuper>>
    BY <1>2 DEF Account!Assign
  <2> HIDE DEF c
  <2> QED  BY <2>2, <2>3, CallMade
<1>3. ASSUME NEW n \in Names, Account!Found(r, n) PROVE AccountsInv'
  <2> DEFINE c == [Account!Waiting EXCEPT !.kind = "found", !.name = n]
  <2>1. Account!Called(n) = {} /\ Account!Do(r, c) /\ Account!Starting(r, "found") /\ UNCHANGED <<users, tenants, wasSuper>>
    BY <1>3 DEF Account!Found
  <2>2. c \in AccountCall /\ c.kind = "found" /\ HasSeen(c)
    BY <2>1 DEF Account!Waiting, AccountCall, HasSeen
  <2> HIDE DEF c
  <2> QED  BY <2>1, <2>2, CallMade
<1>4. ASSUME NEW n \in Names, NEW t \in Companies, Account!Rename(r, t, n) PROVE AccountsInv'
  <2> DEFINE c == [Account!Waiting EXCEPT !.kind = "rename", !.tenant = t, !.name = n]
  <2>1. t \in Account!Founded /\ Account!Called(n) \subseteq {t} /\ Account!Do(r, c) /\ Account!Starting(r, "rename")
        /\ UNCHANGED <<users, tenants, wasSuper>>
    BY <1>4 DEF Account!Rename, Account!Renamable
  <2>2. tenants[t] \in Company
    BY <2>1, FoundedCompany
  <2>3. c \in AccountCall /\ c.kind = "rename" /\ HasSeen(c)
    BY <2>1, <2>2 DEF Account!Waiting, AccountCall, HasSeen
  <2> HIDE DEF c
  <2> QED  BY <2>1, <2>3, CallMade
<1>5. ASSUME NEW t \in Companies, Account!Pause(r, t) PROVE AccountsInv'
  <2>1. t \in Account!Founded /\ Account!Starting(r, "pause") /\ UNCHANGED <<users, tenants, wasSuper>>
    BY <1>5 DEF Account!Pause
  <2>2. PICK a \in {FALSE, ~tenants[t].isActive} :
            Account!Do(r, [Account!Waiting EXCEPT !.kind = "pause", !.tenant = t, !.isActive = a])
    BY <1>5 DEF Account!Pause
  <2>3. tenants[t] \in Company /\ a \in BOOLEAN
    BY <2>1, FoundedCompany DEF Company
  <2> DEFINE c == [Account!Waiting EXCEPT !.kind = "pause", !.tenant = t, !.isActive = a]
  <2>4. c \in AccountCall /\ c.kind = "pause" /\ HasSeen(c)
    BY <2>3 DEF Account!Waiting, AccountCall, HasSeen
  <2> HIDE DEF c
  <2> QED  BY <2>1, <2>2, <2>4, CallMade DEF c
<1> QED  BY <1>1, <1>2, <1>3, <1>4, <1>5

LEMMA NextAccounts == NamesAssumption /\ AccountsInv /\ [Account!Next]_accountVars => AccountsInv'
<1> SUFFICES ASSUME NamesAssumption, AccountsInv, [Account!Next]_accountVars PROVE AccountsInv'
  OBVIOUS
<1>1. CASE UNCHANGED accountVars
  <2>1. UNCHANGED <<users, tenants, calls, wasSuper>>
    BY <1>1 DEF accountVars
  <2> QED  BY <2>1, UsersWritten DEF AccountsInv, UsersFit, Nulls, Answered
<1>2. CASE Account!Next
  BY <1>2, SingleWrites, AssignTenantAccounts, UserCallsAccounts, TenantCallsAccounts, LooksAccounts DEF Account!Next
<1> QED  BY <1>1, <1>2

\* Accounts has its own instance of FiniteSets.
LEMMA SameCardinality == \A S : Account!Cardinality(S) = Cardinality(S)
BY DEF Account!Cardinality, Cardinality

LEMMA AtMostOneMember ==
    ASSUME NEW S, \A x, y \in S : x = y
    PROVE  Cardinality(S) <= 1
<1>1. CASE S = {}
  BY <1>1, FS_EmptySet
<1>2. CASE S # {}
  <2>1. PICK x : S = {x}
    BY <1>2
  <2> QED  BY <2>1, FS_Singleton
<1> QED  BY <1>1, <1>2

\* With any number of users, tenants and requests that overlap, but for those that found or
\* rename a tenant: no two tenants have the same name, and with it one database; a user in
\* service without a tenant is on the list of users to give one to, or is a superadmin or
\* was one, whichever of the three generations of routes have written it.
THEOREM AccountsAlwaysFit == NamesAssumption => (PartSpec => []AccountsFit)
<1> SUFFICES ASSUME NamesAssumption PROVE PartSpec => []AccountsFit
  OBVIOUS
<1>1. PartInit => AccountsInv
  BY InitAccounts DEF PartInit
<1>2. AccountsInv /\ [PartNext]_all => AccountsInv'
  <2>1. [PartNext]_all => [Account!Next]_accountVars
    BY DEF PartNext, WarehousesStep, CacheStep, AccountStep, all
  <2> QED  BY <2>1, NextAccounts
<1>3. AccountsInv => AccountsFit
  <2> SUFFICES ASSUME AccountsInv PROVE AccountsFit
    OBVIOUS
  <2>1. Account!TypeOK
    BY DEF AccountsInv, UsersFit, AccountCall, User, Company, Account!TypeOK
  <2>2. Account!TenantNamesUnique
    <3> SUFFICES ASSUME NEW n \in Names PROVE Account!Cardinality(Account!Called(n)) <= 1
      BY DEF Account!TenantNamesUnique
    <3>1. \A x, y \in Account!Called(n) : x = y
      BY DEF AccountsInv, NamesDiffer, Account!Called
    <3> QED  BY <3>1, AtMostOneMember, SameCardinality
  <2>3. Account!Listed
    BY DEF AccountsInv, Nulls, Account!Listed
  <2> QED  BY <2>1, <2>2, <2>3 DEF AccountsFit, Account!AccountsFit
<1> QED  BY <1>1, <1>2, <1>3, PTL DEF PartSpec

-----------------------------------------------------------------------------
\* Connections: what calls in flight have seen of the map. Where calls for a tenant
\* have not overlapped, one that has found no connection still finds none when it has
\* made its own, and one that closes a connection finds the one it closes; and when
\* requests ask one at a time, the place one has made for itself stays free.

Once(s) == \A i, j \in DOMAIN s : s[i] = s[j] => i = j
Askers == {r \in Callers : asks[r].at # "idle"}
Waits(t) == Cache!Under(t, asks, closers)

AsksFit == \A r \in Callers : IF r \in Askers THEN asks[r].tenant \in Tenants ELSE asks[r].tenant = None

\* A request that makes room closes one connection, and waits for it.
EvictsFit ==
    /\ \A c \in closers : c.by \in Callers => asks[c.by].at = "evict"
    /\ \A c, d \in closers : c.by = d.by /\ c.by \in Callers => c = d

OrderInv == Once(recent) /\ Range(recent) = Cache!Cached \cup Askers

\* What calls that have not overlapped find in the map.
Finds(t) ==
    /\ \A r \in Callers : asks[r].tenant = t => cache[t] = "none"
    /\ \A c \in closers : c.tenant = t => cache[t] = "closing"

RacesInv ==
    /\ lost = {}
    /\ \A t \in Tenants \ raced : (\A x, y \in Waits(t) : x = y) /\ Finds(t)

LimitInv ==
    traffic = "alone" =>
        /\ \A r, s \in Askers : r = s
        /\ Cardinality(Cache!Cached) <= MaxCached
        /\ \A r \in Callers : asks[r].at = "create" => Cardinality(Cache!Cached \ {asks[r].tenant}) < MaxCached
        /\ \A c \in closers : c.by \in Callers => Cardinality(Cache!Cached \ {c.tenant}) < MaxCached

CallsFit == Cache!TypeOK /\ AsksFit /\ EvictsFit
CacheInv == CallsFit /\ Cache!ClosingIsWatched /\ OrderInv /\ RacesInv /\ LimitInv

-----------------------------------------------------------------------------
\* The order of use.

LEMMA WithoutFits ==
    ASSUME NEW S, NEW s \in Seq(S), Once(s), NEW x
    PROVE  /\ Cache!Without(s, x) \in Seq(S) /\ Once(Cache!Without(s, x))
           /\ Range(Cache!Without(s, x)) = Range(s) \ {x}
<1> DEFINE w == Cache!Without(s, x)
<1>1. CASE x \notin Cache!Range(s)
  BY <1>1 DEF Cache!Without, Cache!Range, Range
<1>2. CASE x \in Cache!Range(s)
  <2> DEFINE n == Cache!Place(s, x)
  <2>1. n \in DOMAIN s /\ s[n] = x
    BY <1>2 DEF Cache!Range, Cache!Place
  <2>2. DOMAIN s = 1 .. Len(s) /\ Len(s) \in Nat /\ \A i \in 1 .. Len(s) : s[i] \in S
    OBVIOUS
  <2>3. w = [i \in 1 .. Len(s) - 1 |-> IF i < n THEN s[i] ELSE s[i + 1]]
    BY <1>2 DEF Cache!Without
  <2> HIDE DEF w, n
  <2>4. Len(s) - 1 \in Nat
    BY <2>1, <2>2
  <2>5. \A i \in 1 .. Len(s) - 1 : w[i] = s[IF i < n THEN i ELSE i + 1]
                                   /\ (IF i < n THEN i ELSE i + 1) \in 1 .. Len(s)
    BY <2>1, <2>2, <2>3
  <2>6. w \in [1 .. Len(s) - 1 -> S]
    BY <2>2, <2>3, <2>5
  <2>7. w \in Seq(S) /\ DOMAIN w = 1 .. Len(s) - 1
    BY <2>4, <2>6, SequenceIsFunction
  <2>8. Once(w)
    <3> SUFFICES ASSUME NEW i \in 1 .. Len(s) - 1, NEW j \in 1 .. Len(s) - 1, w[i] = w[j] PROVE i = j
      BY <2>7 DEF Once
    <3>1. (IF i < n THEN i ELSE i + 1) = (IF j < n THEN j ELSE j + 1)
      BY <2>2, <2>5 DEF Once
    <3> QED  BY <2>1, <2>2, <3>1
  <2>9. \A i \in 1 .. Len(s) - 1 : (IF i < n THEN i ELSE i + 1) # n
    BY <2>1, <2>2
  <2>10. \A i \in 1 .. Len(s) - 1 : w[i] # x
    BY <2>1, <2>2, <2>5, <2>9 DEF Once
  <2>11. ASSUME NEW k \in 1 .. Len(s), k # n PROVE \E i \in 1 .. Len(s) - 1 : w[i] = s[k]
    <3>1. CASE k < n
      <4>1. k \in 1 .. Len(s) - 1
        BY <2>1, <2>2, <3>1
      <4> QED  BY <2>5, <3>1, <4>1
    <3>2. CASE k > n
      <4>1. k - 1 \in 1 .. Len(s) - 1 /\ ~(k - 1 < n) /\ k - 1 + 1 = k
        BY <2>1, <2>2, <3>2
      <4> QED  BY <2>5, <4>1
    <3> QED  BY <2>1, <2>2, <2>11, <3>1, <3>2
  <2>12. Range(w) = Range(s) \ {x}
    BY <2>1, <2>2, <2>5, <2>7, <2>10, <2>11 DEF Range
  <2> QED  BY <2>7, <2>8, <2>12 DEF w
<1> QED  BY <1>1, <1>2

LEMMA AppendFits ==
    ASSUME NEW S, NEW s \in Seq(S), Once(s), NEW x \in S, x \notin Range(s)
    PROVE  Append(s, x) \in Seq(S) /\ Once(Append(s, x)) /\ Range(Append(s, x)) = Range(s) \cup {x}
<1> DEFINE w == Append(s, x)
<1>1. w \in Seq(S) /\ Len(w) = Len(s) + 1 /\ Len(s) \in Nat /\ DOMAIN s = 1 .. Len(s) /\ DOMAIN w = 1 .. Len(s) + 1
  OBVIOUS
<1>2. w[Len(s) + 1] = x /\ \A i \in 1 .. Len(s) : w[i] = s[i]
  OBVIOUS
<1>3. \A i \in DOMAIN w : i = Len(s) + 1 \/ i \in DOMAIN s
  BY <1>1
<1> HIDE DEF w
<1>4. Once(w)
  BY <1>1, <1>2, <1>3 DEF Once, Range
<1>5. Range(w) = Range(s) \cup {x}
  <2>1. Len(s) + 1 \in DOMAIN w /\ DOMAIN s \subseteq DOMAIN w
    BY <1>1
  <2> QED  BY <1>1, <1>2, <1>3, <2>1 DEF Range
<1> QED  BY <1>1, <1>4, <1>5 DEF w

LEMMA ReplaceFits ==
    ASSUME NEW S, NEW s \in Seq(S), Once(s), NEW r \in Range(s), NEW t \in S, t \notin Range(s),
           NEW w, w = [i \in 1 .. Len(s) |-> IF s[i] = r THEN t ELSE s[i]]
    PROVE  w \in Seq(S) /\ Once(w) /\ Range(w) = (Range(s) \ {r}) \cup {t}
<1>1. Len(s) \in Nat /\ DOMAIN s = 1 .. Len(s) /\ \A i \in 1 .. Len(s) : s[i] \in S
  OBVIOUS
<1>2. w \in [1 .. Len(s) -> S]
  BY <1>1
<1>3. w \in Seq(S) /\ DOMAIN w = DOMAIN s
  BY <1>1, <1>2, SequenceIsFunction
<1>4. \A i \in DOMAIN s : w[i] = IF s[i] = r THEN t ELSE s[i]
  BY <1>1
<1>5. Once(w)
  BY <1>3, <1>4 DEF Once, Range
<1>6. PICK n \in DOMAIN s : s[n] = r
  BY DEF Range
<1>7. Range(w) = (Range(s) \ {r}) \cup {t}
  BY <1>3, <1>4, <1>6 DEF Range
<1> QED  BY <1>3, <1>5, <1>7

\* As long as something is cached, there is a least recently used tenant of the cache.
LEMMA OldestFits ==
    ASSUME Cache!TypeOK, OrderInv, Cache!Cached # {}
    PROVE  Cache!Oldest \in Cache!Cached
<1> DEFINE T == {i \in DOMAIN recent : recent[i] \in Cache!Cached}
<1>1. DOMAIN recent = 1 .. Len(recent) /\ Len(recent) \in Nat
  BY DEF Cache!TypeOK
<1>2. T \subseteq Nat /\ T # {}
  BY <1>1 DEF OrderInv, Range
<1> HIDE DEF T
<1>3. PICK n \in T : \A m \in T : n <= m
  BY <1>2, LeastNatural
<1>4. \A j \in 1 .. n - 1 : recent[j] \notin Cache!Cached
  <2> SUFFICES ASSUME NEW j \in 1 .. n - 1 PROVE j \notin T
    BY <1>1, <1>3 DEF T
  <2> QED  BY <1>2, <1>3
<1>5. n \in DOMAIN recent /\ recent[n] \in Cache!Cached
  BY DEF T
<1> QED  BY <1>4, <1>5 DEF Cache!Oldest, Cache!First

-----------------------------------------------------------------------------
\* Finite sets.

LEMMA CacheCardinality == \A S : Cache!Cardinality(S) = Cardinality(S)
BY DEF Cache!Cardinality, Cardinality

\* Fewer connections are no more.
LEMMA FewerFit ==
    ASSUME NEW S, S \subseteq Tenants, NEW T, T \subseteq S
    PROVE  Cardinality(T) \in Nat /\ Cardinality(S) \in Nat /\ Cardinality(T) <= Cardinality(S)
<1>1. IsFiniteSet(S)
  BY CallersAssumption, FS_Subset
<1>2. IsFiniteSet(T) /\ Cardinality(T) <= Cardinality(S)
  BY <1>1, FS_Subset
<1> QED  BY <1>1, <1>2, FS_CardinalityType

Closings == [by : Cache!Closers, tenant : Tenants]

\* Calls for a tenant that is not raced are one at most, and it was not raced before.
LEMMA NotRaced ==
    ASSUME NEW a, NEW c, c \subseteq Closings, NEW t \in Tenants, t \notin Cache!Overlapping(a, c)
    PROVE  /\ \A x, y \in Cache!Under(t, a, c) : x = y
           /\ Cache!Under(t, a, c) # {} => t \notin raced
<1> DEFINE U == Cache!Under(t, a, c)
<1>1. ~(Cardinality(U) > 1) /\ (U # {} => t \notin raced)
  BY CacheCardinality DEF Cache!Overlapping
<1>2. IsFiniteSet(U)
  <2> DEFINE A == {r \in Callers : a[r].tenant = t}
             C == {x \in c : x.tenant = t}
             B == Cache!Closers
             f == [b \in B |-> [by |-> b, tenant |-> t]]
             R == {[by |-> b, tenant |-> t] : b \in B}
  <2>1. IsFiniteSet(A)
    BY CallersAssumption, FS_Subset
  <2>2. IsFiniteSet(B)
    <3>1. IsFiniteSet({Timer, Owner})
      <4>1. IsFiniteSet({Timer}) /\ {Timer, Owner} = {Timer} \cup {Owner}
        BY FS_Singleton
      <4> QED  BY <4>1, FS_AddElement
    <3> QED  BY <3>1, CallersAssumption, FS_Union DEF Cache!Closers
  <2>3. f \in Surjection(B, R)
    BY DEF Surjection
  <2>4. IsFiniteSet(R)
    BY <2>2, <2>3, FS_Surjection
  <2>5. C \subseteq R
    BY DEF Closings
  <2>6. IsFiniteSet(C)
    BY <2>4, <2>5, FS_Subset
  <2>7. U = A \cup C
    BY DEF Cache!Under
  <2> HIDE DEF A, C, U
  <2> QED  BY <2>1, <2>6, <2>7, FS_Union
<1>3. \A x, y \in U : x = y
  <2> SUFFICES ASSUME NEW x \in U, NEW y \in U, x # y PROVE FALSE
    OBVIOUS
  <2>1. Cardinality({x}) = 1 /\ IsFiniteSet({x})
    BY FS_Singleton
  <2>2. Cardinality({x} \cup {y}) = 2
    <3>1. y \notin {x}
      OBVIOUS
    <3>2. Cardinality({x} \cup {y}) = Cardinality({x}) + 1
      BY <2>1, <3>1, FS_AddElement
    <3> QED  BY <2>1, <3>2
  <2>3. {x} \cup {y} \subseteq U
    OBVIOUS
  <2> HIDE DEF U
  <2>4. Cardinality({x} \cup {y}) <= Cardinality(U) /\ Cardinality(U) \in Nat
    BY <1>2, <2>3, FS_Subset, FS_CardinalityType
  <2> QED  BY <1>1, <2>2, <2>4
<1> QED  BY <1>1, <1>3

\* Calls that wait now and did before were not raced before if they are not now.
LEMMA WaitedBefore ==
    ASSUME CacheInv, CallsFit', raced' = Cache!Overlapping(asks', closers')
    PROVE  /\ \A t \in Tenants \ raced' : \A x, y \in Waits(t)' : x = y
           /\ \A r \in Callers, t \in Tenants \ raced' : asks'[r].tenant = t => t \notin raced
           /\ \A c \in closers' : c.tenant \notin raced' => c.tenant \in Tenants \ raced
<1> SUFFICES ASSUME NEW t \in Tenants \ raced'
             PROVE  /\ \A x, y \in Waits(t)' : x = y
                    /\ \A r \in Callers : asks'[r].tenant = t => t \notin raced
                    /\ \A c \in closers' : c.tenant = t => t \notin raced
  BY DEF CallsFit, Cache!TypeOK
<1>1. closers' \subseteq Closings
  BY DEF CallsFit, Cache!TypeOK, Closings
<1>2. /\ \A x, y \in Cache!Under(t, asks', closers') : x = y
      /\ Cache!Under(t, asks', closers') # {} => t \notin raced
  BY <1>1, NotRaced
<1>3. Waits(t)' = Cache!Under(t, asks', closers')
  BY DEF Waits, Cache!Under
<1>4. /\ \A r \in Callers : asks'[r].tenant = t => r \in Cache!Under(t, asks', closers')
      /\ \A c \in closers' : c.tenant = t => c \in Cache!Under(t, asks', closers')
  BY DEF Cache!Under
<1> QED  BY <1>2, <1>3, <1>4

\* Two calls that wait for one tenant that is not raced are one call.
LEMMA OneWaits ==
    ASSUME CacheInv, NEW t \in Tenants \ raced
    PROVE  /\ \A r, s \in Callers : asks[r].tenant = t /\ asks[s].tenant = t => r = s
           /\ \A c, d \in closers : c.tenant = t /\ d.tenant = t => c = d
           /\ \A r \in Callers, c \in closers : ~(asks[r].tenant = t /\ c.tenant = t)
<1>1. \A x, y \in Waits(t) : x = y
  BY DEF CacheInv, RacesInv
<1>2. /\ \A r \in Callers : asks[r].tenant = t => r \in Waits(t)
      /\ \A c \in closers : c.tenant = t => c \in Waits(t)
  BY DEF Waits, Cache!Under
<1>3. \A c \in closers : c \notin Callers
  BY CallersAssumption DEF CacheInv, CallsFit, Cache!TypeOK
<1> QED  BY <1>1, <1>2, <1>3

-----------------------------------------------------------------------------
\* The actions. Each lemma has the parts of the invariant as its steps.

LEMMA InitCache == Cache!Init => CacheInv
<1> SUFFICES ASSUME Cache!Init PROVE CacheInv
  OBVIOUS
<1> USE DEF Cache!Init
<1>1. Askers = {} /\ Cache!Cached = {}
  BY DEF Askers, Cache!Idle, Cache!Cached
<1>2. Cache!TypeOK
  <2>1. Cache!Idle \in Cache!Ask
    BY ConnectionConstants DEF Cache!Idle, Cache!Ask
  <2>2. asks \in [Callers -> Cache!Ask]
    BY <2>1
  <2>3. recent \in Seq(Tenants \cup Callers) /\ cache \in [Tenants -> {"none", "open", "closing"}]
    OBVIOUS
  <2> QED  BY <2>2, <2>3 DEF Cache!TypeOK
<1>3. AsksFit
  BY <1>1 DEF AsksFit, Cache!Idle
<1>4. OrderInv
  BY <1>1 DEF OrderInv, Once, Range
<1>5. RacesInv
  <2>1. \A t \in Tenants : Waits(t) = {}
    BY ConnectionConstants DEF Waits, Cache!Under, Cache!Idle
  <2> QED  BY <2>1, ConnectionConstants DEF RacesInv, Finds, Cache!Idle
<1>6. LimitInv
  BY <1>1, FS_EmptySet, ConnectionConstants DEF LimitInv, Cache!Idle
<1> QED  BY <1>2, <1>3, <1>4, <1>5, <1>6 DEF CacheInv, CallsFit, EvictsFit, Cache!ClosingIsWatched

\* A tenant that is cached is used once more.
LEMMA HitCache ==
    ASSUME CacheInv, NEW r \in Callers, NEW t \in Tenants, Cache!Hit(r, t), Cache!Calls,
           UNCHANGED <<lost, failed, stopping, traffic>>
    PROVE  CacheInv'
<1> USE DEF CacheInv
<1>1. t \in Cache!Cached /\ recent' = Append(Cache!Without(recent, t), t) /\ UNCHANGED <<cache, asks, closers>>
      /\ raced' = Cache!Overlapping(asks', closers')
  BY DEF Cache!Hit, Cache!Found, Cache!Refreshed, Cache!Calls
<1>2. Cache!Cached' = Cache!Cached /\ Askers' = Askers
  BY <1>1 DEF Cache!Cached, Askers
<1>3. OrderInv' /\ recent' \in Seq(Tenants \cup Callers)
  <2> DEFINE w == Cache!Without(recent, t)
  <2>1. w \in Seq(Tenants \cup Callers) /\ Once(w) /\ Range(w) = Range(recent) \ {t}
    BY WithoutFits DEF CallsFit, Cache!TypeOK, OrderInv
  <2> HIDE DEF w
  <2>2. /\ Append(w, t) \in Seq(Tenants \cup Callers) /\ Once(Append(w, t))
        /\ Range(Append(w, t)) = Range(w) \cup {t}
    BY <2>1, AppendFits
  <2>3. recent' = Append(w, t)
    BY <1>1 DEF w
  <2> QED  BY <1>1, <1>2, <2>1, <2>2, <2>3 DEF OrderInv
<1>4. CallsFit'
  BY <1>1, <1>2, <1>3 DEF CallsFit, Cache!TypeOK, AsksFit, EvictsFit, Cache!Overlapping
<1>5. RacesInv'
  BY <1>1, <1>4, WaitedBefore DEF RacesInv, Finds
<1>6. Cache!ClosingIsWatched' /\ LimitInv'
  BY <1>1, <1>2 DEF Cache!ClosingIsWatched, LimitInv
<1> QED  BY <1>3, <1>4, <1>5, <1>6

\* A tenant that is not cached is asked for, and the least recently used one makes room.
LEMMA MissCache ==
    ASSUME CacheInv, NEW r \in Callers, NEW t \in Tenants, Cache!Miss(r, t), Cache!Calls, r \notin Askers,
           traffic = "alone" => Askers = {}, UNCHANGED <<lost, failed, stopping, traffic>>
    PROVE  CacheInv'
<1> USE DEF CacheInv
<1> DEFINE at == IF Cache!HasRoom THEN "create" ELSE "evict"
           o  == Cache!Oldest
<1>1. /\ t \notin Cache!Cached /\ recent' = Append(recent, r)
      /\ raced' = Cache!Overlapping(asks', closers')
      /\ asks' = [asks EXCEPT ![r] = [tenant |-> t, at |-> at, attempt |-> 0]]
  BY DEF Cache!Miss, Cache!Found, Cache!Calls, Cache!Asked
<1>2. \/ Cache!HasRoom /\ UNCHANGED <<cache, closers>>
      \/ /\ ~Cache!HasRoom /\ cache' = [cache EXCEPT ![o] = "closing"]
         /\ closers' = closers \cup {Cache!Closer(r, o)}
  BY DEF Cache!Miss
<1>3. ~Cache!HasRoom => o \in Cache!Cached
  <2>1. Cache!Cached = {} => Cache!HasRoom
    BY FS_EmptySet, CacheCardinality, ConnectionConstants DEF Cache!HasRoom
  <2> QED  BY <2>1, OldestFits DEF CallsFit
<1>0. (Cache!HasRoom => at = "create") /\ (~Cache!HasRoom => at = "evict")
  OBVIOUS
<1> HIDE DEF o, at
<1>5. /\ asks \in [Callers -> Cache!Ask] /\ asks' \in [Callers -> Cache!Ask]
      /\ asks'[r].tenant = t /\ asks'[r].at = at
      /\ \A q \in Callers \ {r} : asks'[q] = asks[q]
  BY <1>0, <1>1, ConnectionConstants DEF CallsFit, Cache!TypeOK, Cache!Ask
<1>6. cache \in [Tenants -> {"none", "open", "closing"}] /\ Cache!Cached \subseteq Tenants
      /\ cache' \in [Tenants -> {"none", "open", "closing"}]
  BY <1>2 DEF CallsFit, Cache!TypeOK, Cache!Cached
<1>7. Cache!Cached' = Cache!Cached
  BY <1>2, <1>3, <1>6 DEF Cache!Cached
<1>8. Askers' = Askers \cup {r}
  BY <1>0, <1>5 DEF Askers
<1>9. closers \subseteq Closings /\ closers' \subseteq Closings
  BY <1>2, <1>3, <1>6 DEF CallsFit, Cache!TypeOK, Closings, Cache!Closer, Cache!Closers
<1>10. r \notin Range(recent)
  BY <1>6, ConnectionConstants DEF OrderInv
<1>11. OrderInv' /\ recent' \in Seq(Tenants \cup Callers)
  <2>1. /\ Append(recent, r) \in Seq(Tenants \cup Callers) /\ Once(Append(recent, r))
        /\ Range(Append(recent, r)) = Range(recent) \cup {r}
    BY <1>10, AppendFits DEF CallsFit, Cache!TypeOK, OrderInv
  <2> QED  BY <1>1, <1>7, <1>8, <2>1 DEF OrderInv
<1>12. AsksFit'
  BY <1>5, <1>8 DEF AsksFit, CallsFit
<1>13. \A c \in closers : c.by # r
  BY DEF CallsFit, EvictsFit, Askers
<1>14. EvictsFit'
  <2>1. \A c \in closers' : c \in closers \/ (c = Cache!Closer(r, o) /\ ~Cache!HasRoom)
    BY <1>2
  <2>2. Cache!Closer(r, o).by = r
    BY DEF Cache!Closer
  <2>3. \A c \in closers' : c.by \in Callers => asks'[c.by].at = "evict"
    BY <1>0, <1>5, <1>13, <2>1, <2>2 DEF CallsFit, EvictsFit
  <2>4. \A c, d \in closers' : c.by = d.by /\ c.by \in Callers => c = d
    BY <1>13, <2>1, <2>2 DEF CallsFit, EvictsFit
  <2> QED  BY <2>3, <2>4 DEF EvictsFit
<1>15. CallsFit'
  BY <1>1, <1>5, <1>6, <1>9, <1>11, <1>12, <1>14 DEF CallsFit, Cache!TypeOK, Closings, Cache!Overlapping
<1>16. RacesInv'
  <2> SUFFICES ASSUME NEW u \in Tenants \ raced' PROVE (\A x, y \in Waits(u)' : x = y) /\ Finds(u)'
    BY DEF RacesInv
  <2>1. \A x, y \in Waits(u)' : x = y
    BY <1>1, <1>15, WaitedBefore
  <2>2. ASSUME NEW q \in Callers, asks'[q].tenant = u PROVE cache'[u] = "none"
    <3>1. u \notin raced
      BY <1>1, <1>15, <2>2, WaitedBefore
    <3>2. u \notin Cache!Cached
      <4>1. CASE q = r
        BY <1>1, <1>5, <2>2, <4>1
      <4>2. CASE q # r
        BY <1>5, <2>2, <3>1, <4>2 DEF RacesInv, Finds, Cache!Cached
      <4> QED  BY <4>1, <4>2
    <3> QED  BY <1>6, <1>7, <3>2 DEF Cache!Cached
  <2>3. ASSUME NEW c \in closers', c.tenant = u PROVE cache'[u] = "closing"
    <3>1. u \notin raced
      BY <1>1, <1>15, <2>3, WaitedBefore
    <3>2. CASE c \in closers
      BY <1>2, <1>3, <1>6, <2>3, <3>1, <3>2 DEF RacesInv, Finds
    <3>3. CASE c \notin closers
      BY <1>2, <1>3, <1>6, <2>3, <3>3 DEF Cache!Closer
    <3> QED  BY <3>2, <3>3
  <2> QED  BY <2>1, <2>2, <2>3 DEF Finds
<1>17. Cache!ClosingIsWatched'
  <2> SUFFICES ASSUME NEW u \in Tenants, cache'[u] = "closing" PROVE \E c \in closers' : c.tenant = u
    BY DEF Cache!ClosingIsWatched
  <2>1. CASE cache[u] = "closing"
    BY <1>2, <2>1 DEF Cache!ClosingIsWatched
  <2>2. CASE cache[u] # "closing"
    <3>1. ~Cache!HasRoom /\ u = o
      BY <1>2, <1>6, <2>2
    <3>2. Cache!Closer(r, o) \in closers' /\ Cache!Closer(r, o).tenant = o
      BY <1>2, <3>1 DEF Cache!Closer
    <3> QED  BY <3>1, <3>2
  <2> QED  BY <2>1, <2>2
<1>18. LimitInv'
  <2> SUFFICES ASSUME traffic = "alone" PROVE LimitInv'
    BY DEF LimitInv
  <2>1. Askers' = {r} /\ Cardinality(Cache!Cached) <= MaxCached
    BY <1>8 DEF LimitInv
  <2>2. \A c \in closers : c.by \notin Callers
    BY DEF CallsFit, EvictsFit, Askers
  <2>3. CASE Cache!HasRoom
    <3>1. Cardinality(Cache!Cached \ {t}) < MaxCached
      <4>1. Cardinality(Cache!Cached) < MaxCached
        BY <2>3, CacheCardinality DEF Cache!HasRoom
      <4>2. Cache!Cached \ {t} = Cache!Cached
        BY <1>1
      <4> QED  BY <4>1, <4>2
    <3>2. \A q \in Callers : asks'[q].at = "create" => q = r
      BY <2>1 DEF Askers
    <3>3. closers' = closers
      BY <1>2, <2>3
    <3> QED  BY <1>5, <1>7, <2>1, <2>2, <3>1, <3>2, <3>3 DEF LimitInv
  <2>4. CASE ~Cache!HasRoom
    <3>1. Cardinality(Cache!Cached \ {o}) < MaxCached
      <4>1. IsFiniteSet(Cache!Cached) /\ Cardinality(Cache!Cached) \in Nat
        BY <1>6, CallersAssumption, FS_Subset, FS_CardinalityType
      <4>2. Cardinality(Cache!Cached \ {o}) = Cardinality(Cache!Cached) - 1
        BY <1>3, <2>4, <4>1, FS_RemoveElement
      <4> QED  BY <2>1, <4>1, <4>2, ConnectionConstants
    <3>2. \A q \in Callers : asks'[q].at # "create"
      BY <1>0, <1>5, <2>1, <2>4 DEF Askers
    <3>3. \A c \in closers' : c.by \in Callers => c.tenant = o
      BY <1>2, <2>2, <2>4 DEF Cache!Closer
    <3> QED  BY <1>7, <2>1, <3>1, <3>2, <3>3 DEF LimitInv
  <2> QED  BY <2>3, <2>4
<1> QED  BY <1>11, <1>15, <1>16, <1>17, <1>18

\* A connection is there: it is cached for its tenant, over what is there by now.
LEMMA CreateCache == \A r \in Callers : CacheInv /\ Cache!Create(r) => CacheInv'
<1> SUFFICES ASSUME CacheInv, NEW r \in Callers, Cache!Create(r) PROVE CacheInv'
  OBVIOUS
<1> USE DEF CacheInv
<1> DEFINE t == asks[r].tenant
           w == Cache!Without(recent, t)
<1>1. /\ asks[r].at = "create" /\ cache' = [cache EXCEPT ![t] = "open"]
      /\ asks' = [asks EXCEPT ![r] = Cache!Idle] /\ raced' = Cache!Overlapping(asks', closers')
      /\ UNCHANGED <<closers, failed, stopping, traffic>>
      /\ recent' = [i \in 1 .. Len(w) |-> IF w[i] = r THEN t ELSE w[i]]
      /\ lost' = IF cache[t] = "open" THEN lost \cup ({t} \ raced) ELSE lost
  BY DEF Cache!Create, Cache!Calls, Cache!Lose
<1>2. r \in Askers /\ t \in Tenants
  BY <1>1 DEF Askers, CallsFit, AsksFit
<1>3. w \in Seq(Tenants \cup Callers) /\ Once(w) /\ Range(w) = Range(recent) \ {t}
  BY WithoutFits DEF CallsFit, Cache!TypeOK, OrderInv
<1> HIDE DEF w
<1>4. Tenants \cap Callers = {} /\ None \notin Tenants
  BY ConnectionConstants
<1>5. /\ recent' \in Seq(Tenants \cup Callers) /\ Once(recent')
      /\ Range(recent') = (Range(w) \ {r}) \cup {t}
  <2>1. r \in Range(w) /\ t \notin Range(w)
    BY <1>2, <1>3, <1>4 DEF OrderInv
  <2> HIDE DEF t
  <2>2. t \in Tenants \cup Callers
    BY <1>2
  <2>3. recent' = [i \in 1 .. Len(w) |-> IF w[i] = r THEN t ELSE w[i]]
    BY <1>1
  <2> QED  BY <1>3, <2>1, <2>2, <2>3, ReplaceFits
<1> HIDE DEF t
<1>6. /\ asks' \in [Callers -> Cache!Ask] /\ asks'[r] = Cache!Idle
      /\ \A q \in Callers \ {r} : asks'[q] = asks[q]
  <2>1. Cache!Idle \in Cache!Ask
    BY ConnectionConstants DEF Cache!Idle, Cache!Ask
  <2> QED  BY <1>1, <2>1 DEF CallsFit, Cache!TypeOK
<1>7. /\ cache' \in [Tenants -> {"none", "open", "closing"}] /\ cache'[t] = "open"
      /\ \A u \in Tenants \ {t} : cache'[u] = cache[u]
  BY <1>1, <1>2 DEF CallsFit, Cache!TypeOK
<1>8. Askers' = Askers \ {r} /\ Cache!Cached' = Cache!Cached \cup {t} /\ Cache!Cached \subseteq Tenants
  BY <1>2, <1>6, <1>7 DEF Askers, Cache!Cached, Cache!Idle
<1>9. OrderInv'
  <2>1. Once(recent)' /\ Range(recent)' = (Range(w) \ {r}) \cup {t}
    BY <1>5 DEF Once, Range
  <2>2. r \notin Cache!Cached /\ t \notin Askers
    BY <1>2, <1>4, <1>8 DEF Askers
  <2> QED  BY <1>2, <1>3, <1>4, <1>8, <2>1, <2>2 DEF OrderInv
<1>10. t \in raced \/ cache[t] = "none"
  BY <1>2 DEF RacesInv, Finds, t
<1>11. lost' = {}
  BY <1>1, <1>10 DEF RacesInv
<1>12. AsksFit' /\ EvictsFit'
  <2>1. AsksFit'
    BY <1>6, <1>8 DEF CallsFit, AsksFit, Askers, Cache!Idle
  <2>2. \A c \in closers : c.by # r
    BY <1>1 DEF CallsFit, EvictsFit
  <2> QED  BY <1>1, <1>6, <2>1, <2>2 DEF CallsFit, EvictsFit
<1>13. CallsFit'
  BY <1>1, <1>5, <1>6, <1>7, <1>11, <1>12 DEF CallsFit, Cache!TypeOK, Cache!Overlapping
<1>14. RacesInv'
  <2> SUFFICES ASSUME NEW u \in Tenants \ raced' PROVE (\A x, y \in Waits(u)' : x = y) /\ Finds(u)'
    BY <1>11 DEF RacesInv
  <2>1. \A x, y \in Waits(u)' : x = y
    BY <1>1, <1>13, WaitedBefore
  <2>2. ASSUME NEW q \in Callers, asks'[q].tenant = u PROVE cache'[u] = "none"
    <3>1. u \notin raced /\ q # r
      BY <1>1, <1>4, <1>6, <1>13, <2>2, WaitedBefore DEF Cache!Idle
    <3>2. asks[q].tenant = u /\ u # t
      BY <1>6, <2>2, <3>1, OneWaits DEF t
    <3> QED  BY <1>7, <3>1, <3>2 DEF RacesInv, Finds
  <2>3. ASSUME NEW c \in closers', c.tenant = u PROVE cache'[u] = "closing"
    <3>1. u \notin raced
      BY <1>1, <1>13, <2>3, WaitedBefore
    <3>2. c \in closers /\ u # t
      BY <1>1, <2>3, <3>1, OneWaits DEF t
    <3> QED  BY <1>7, <2>3, <3>1, <3>2 DEF RacesInv, Finds
  <2> QED  BY <2>1, <2>2, <2>3 DEF Finds
<1>15. Cache!ClosingIsWatched'
  BY <1>1, <1>2, <1>7 DEF Cache!ClosingIsWatched
<1>16. LimitInv'
  <2> SUFFICES ASSUME traffic = "alone" PROVE LimitInv'
    BY <1>1 DEF LimitInv
  <2>1. Askers' = {}
    BY <1>2, <1>8 DEF LimitInv
  <2>2. Cardinality(Cache!Cached \ {t}) < MaxCached
    BY <1>1 DEF LimitInv, t
  <2>3. Cardinality(Cache!Cached') <= MaxCached
    <3>1. IsFiniteSet(Cache!Cached \ {t}) /\ Cardinality(Cache!Cached \ {t}) \in Nat
      BY <1>8, CallersAssumption, FS_Subset, FS_CardinalityType
    <3>2. Cache!Cached' = (Cache!Cached \ {t}) \cup {t}
      BY <1>8
    <3>3. Cardinality(Cache!Cached') = Cardinality(Cache!Cached \ {t}) + 1
      BY <3>1, <3>2, FS_AddElement
    <3> QED  BY <2>2, <3>1, <3>3, ConnectionConstants
  <2>4. \A q \in Callers : asks'[q].at # "create"
    BY <2>1 DEF Askers
  <2>5. \A c \in closers' : c.by \notin Callers
    BY <1>13, <2>1 DEF CallsFit, EvictsFit, Askers
  <2> QED  BY <2>1, <2>3, <2>4, <2>5 DEF LimitInv
<1> QED  BY <1>9, <1>13, <1>14, <1>15, <1>16

\* A connection is not there: the request tries once more, or gives up.
LEMMA CreateFailsCache == \A r \in Callers : CacheInv /\ Cache!CreateFails(r) => CacheInv'
<1> SUFFICES ASSUME CacheInv, NEW r \in Callers, Cache!CreateFails(r) PROVE CacheInv'
  OBVIOUS
<1> USE DEF CacheInv
<1> DEFINE ask == Cache!Retried(asks[r])
<1>1. /\ asks[r].at = "create" /\ asks' = [asks EXCEPT ![r] = ask]
      /\ recent' = (IF ask = Cache!Idle THEN Cache!Without(recent, r) ELSE recent)
      /\ raced' = Cache!Overlapping(asks', closers')
      /\ UNCHANGED <<cache, closers, lost, failed, stopping, traffic>>
  BY DEF Cache!CreateFails, Cache!Calls, CallsFit, Cache!TypeOK
<1>2. r \in Askers /\ asks[r].tenant \in Tenants /\ asks[r] \in Cache!Ask /\ Retries \in Nat
  BY <1>1, ConnectionConstants DEF Askers, CallsFit, AsksFit, Cache!TypeOK
<1>3. \/ ask = Cache!Idle
      \/ ask # Cache!Idle /\ ask.tenant = asks[r].tenant /\ ask.at = "create" /\ ask \in Cache!Ask
  <2>1. CASE asks[r].attempt + 1 < Retries
    <3>1. ask = [asks[r] EXCEPT !.attempt = @ + 1]
      BY <2>1 DEF Cache!Retried
    <3>2. ask.tenant = asks[r].tenant /\ ask.at = "create" /\ ask \in Cache!Ask
      BY <1>1, <1>2, <2>1, <3>1 DEF Cache!Ask
    <3> QED  BY <3>2 DEF Cache!Idle
  <2>2. CASE ~(asks[r].attempt + 1 < Retries)
    BY <2>2 DEF Cache!Retried
  <2> QED  BY <2>1, <2>2
<1> HIDE DEF ask
<1>4. Cache!Idle \in Cache!Ask /\ Cache!Idle.at = "idle" /\ Cache!Idle.tenant = None
  BY ConnectionConstants DEF Cache!Idle, Cache!Ask
<1>5. /\ asks' \in [Callers -> Cache!Ask] /\ asks'[r] = ask
      /\ \A q \in Callers \ {r} : asks'[q] = asks[q]
  BY <1>1, <1>3, <1>4 DEF CallsFit, Cache!TypeOK
<1>6. Askers' = IF ask = Cache!Idle THEN Askers \ {r} ELSE Askers
  BY <1>2, <1>3, <1>4, <1>5 DEF Askers
<1>7. Cache!Cached' = Cache!Cached /\ Cache!Cached \cap Callers = {}
  BY <1>1, ConnectionConstants DEF Cache!Cached
<1>8. OrderInv' /\ recent' \in Seq(Tenants \cup Callers)
  <2> DEFINE w == Cache!Without(recent, r)
  <2>1. w \in Seq(Tenants \cup Callers) /\ Once(w) /\ Range(w) = Range(recent) \ {r}
    BY WithoutFits DEF CallsFit, Cache!TypeOK, OrderInv
  <2>2. CASE ask = Cache!Idle
    <3>1. recent' = w
      BY <1>1, <2>2
    <3> HIDE DEF w
    <3>2. Once(recent)' /\ Range(recent)' = Range(recent) \ {r}
      BY <2>1, <3>1 DEF Once, Range
    <3> QED  BY <1>2, <1>6, <1>7, <2>1, <2>2, <3>1, <3>2 DEF OrderInv
  <2>3. CASE ask # Cache!Idle
    BY <1>1, <1>6, <1>7, <2>3 DEF OrderInv, Once, Range, CallsFit, Cache!TypeOK
  <2> QED  BY <2>2, <2>3
<1>9. AsksFit' /\ EvictsFit'
  <2>1. AsksFit'
    BY <1>2, <1>3, <1>4, <1>5, <1>6 DEF CallsFit, AsksFit
  <2>2. \A c \in closers : c.by # r
    BY <1>1 DEF CallsFit, EvictsFit
  <2> QED  BY <1>1, <1>5, <2>1, <2>2 DEF CallsFit, EvictsFit
<1>10. CallsFit'
  BY <1>1, <1>5, <1>8, <1>9 DEF CallsFit, Cache!TypeOK, Cache!Overlapping
<1>11. \A q \in Callers : asks'[q].tenant \in {None, asks[q].tenant}
  BY <1>3, <1>4, <1>5
<1>12. RacesInv'
  <2>1. \A t \in Tenants \ raced' : \A x, y \in Waits(t)' : x = y
    BY <1>1, <1>10, WaitedBefore
  <2>2. ASSUME NEW t \in Tenants \ raced', NEW q \in Callers, asks'[q].tenant = t PROVE cache'[t] = "none"
    <3>1. t \notin raced
      BY <1>1, <1>10, <2>2, WaitedBefore
    <3> QED  BY <1>1, <1>11, <2>2, <3>1, ConnectionConstants DEF RacesInv, Finds
  <2>3. ASSUME NEW t \in Tenants \ raced', NEW c \in closers', c.tenant = t PROVE cache'[t] = "closing"
    BY <1>1, <1>10, <2>3, WaitedBefore DEF RacesInv, Finds
  <2> QED  BY <1>1, <2>1, <2>2, <2>3 DEF RacesInv, Finds
<1>13. LimitInv'
  <2>1. \A q \in Callers : asks'[q].at = "create" => asks[q].at = "create" /\ asks'[q].tenant = asks[q].tenant
    BY <1>1, <1>3, <1>4, <1>5
  <2>2. Askers' \subseteq Askers
    BY <1>6
  <2> QED  BY <1>1, <1>7, <2>1, <2>2 DEF LimitInv
<1> QED  BY <1>1, <1>8, <1>10, <1>12, <1>13 DEF Cache!ClosingIsWatched

\* A connection is closed: its tenant is cached no more, and who waited for the
\* place goes on.
LEMMA ClosedCache == \A c \in closers : CacheInv /\ Cache!Closed(c) => CacheInv'
<1> SUFFICES ASSUME CacheInv, NEW c \in closers, Cache!Closed(c) PROVE CacheInv'
  OBVIOUS
<1> USE DEF CacheInv
<1> DEFINE t == c.tenant
<1>1. /\ cache' = [cache EXCEPT ![t] = "none"] /\ recent' = Cache!Without(recent, t)
      /\ lost' = (IF cache[t] = "open" THEN lost \cup ({t} \ raced) ELSE lost)
      /\ closers' = closers \ {c} /\ raced' = Cache!Overlapping(asks', closers')
      /\ asks' = (IF c.by \in Callers THEN [asks EXCEPT ![c.by].at = "create"] ELSE asks)
      /\ failed' \in BOOLEAN /\ UNCHANGED <<stopping, traffic>>
  <2>1. failed \in BOOLEAN
    BY DEF CallsFit, Cache!TypeOK
  <2> QED  BY <2>1 DEF Cache!Closed, Cache!Removed, Cache!Lose, Cache!Calls
<1>2. t \in Tenants
  BY DEF CallsFit, Cache!TypeOK
<1> HIDE DEF t
<1>3. /\ asks \in [Callers -> Cache!Ask] /\ asks' \in [Callers -> Cache!Ask]
      /\ \A q \in Callers : /\ asks'[q].tenant = asks[q].tenant
                            /\ asks'[q].at = IF q = c.by THEN "create" ELSE asks[q].at
  <2>1. asks \in [Callers -> Cache!Ask]
    BY DEF CallsFit, Cache!TypeOK
  <2>2. CASE c.by \in Callers
    <3>1. asks' = [asks EXCEPT ![c.by] = [asks[c.by] EXCEPT !.at = "create"]]
      BY <1>1, <2>2
    <3>2. [asks[c.by] EXCEPT !.at = "create"] \in Cache!Ask
      BY <2>1, <2>2 DEF Cache!Ask
    <3>3. asks' \in [Callers -> Cache!Ask]
      BY <2>1, <3>1, <3>2
    <3>4. \A q \in Callers : asks'[q] = IF q = c.by THEN [asks[q] EXCEPT !.at = "create"] ELSE asks[q]
      BY <2>1, <3>1
    <3>5. \A q \in Callers : asks[q] \in Cache!Ask
      BY <2>1
    <3>6. \A a \in Cache!Ask : [a EXCEPT !.at = "create"].tenant = a.tenant /\ [a EXCEPT !.at = "create"].at = "create"
      BY DEF Cache!Ask
    <3> QED  BY <2>1, <3>3, <3>4, <3>5, <3>6
  <2>3. CASE c.by \notin Callers
    BY <1>1, <2>1, <2>3
  <2> QED  BY <2>2, <2>3
<1>4. c.by \in Callers => asks[c.by].at = "evict"
  BY DEF CallsFit, EvictsFit
<1>5. Askers' = Askers
  BY <1>3, <1>4 DEF Askers
<1>6. /\ cache' \in [Tenants -> {"none", "open", "closing"}] /\ cache'[t] = "none"
      /\ \A u \in Tenants \ {t} : cache'[u] = cache[u]
  BY <1>1, <1>2 DEF CallsFit, Cache!TypeOK
<1>7. Cache!Cached' = Cache!Cached \ {t} /\ Cache!Cached \subseteq Tenants
  BY <1>6 DEF Cache!Cached
<1>8. OrderInv' /\ recent' \in Seq(Tenants \cup Callers)
  <2> DEFINE w == Cache!Without(recent, t)
  <2>1. w \in Seq(Tenants \cup Callers) /\ Once(w) /\ Range(w) = Range(recent) \ {t}
    BY WithoutFits DEF CallsFit, Cache!TypeOK, OrderInv
  <2>2. recent' = w
    BY <1>1
  <2> HIDE DEF w
  <2>3. Once(recent)' /\ Range(recent)' = Range(recent) \ {t}
    BY <2>1, <2>2 DEF Once, Range
  <2>4. t \notin Askers
    BY <1>2, ConnectionConstants DEF Askers
  <2> QED  BY <1>5, <1>7, <2>1, <2>2, <2>3, <2>4 DEF OrderInv
<1>9. lost' = {}
  <2>1. t \in raced \/ cache[t] = "closing"
    BY <1>2 DEF RacesInv, Finds, t
  <2> QED  BY <1>1, <2>1 DEF RacesInv
<1>10. EvictsFit'
  <2>1. \A d \in closers' : d \in closers /\ (d.by \in Callers => d.by # c.by)
    BY <1>1 DEF CallsFit, EvictsFit
  <2> QED  BY <1>3, <2>1 DEF CallsFit, EvictsFit
<1>11. CallsFit'
  <2>1. AsksFit'
    BY <1>3, <1>5 DEF CallsFit, AsksFit
  <2> QED  BY <1>1, <1>3, <1>6, <1>8, <1>9, <1>10, <2>1 DEF CallsFit, Cache!TypeOK, Cache!Overlapping
<1>12. RacesInv'
  <2>1. \A u \in Tenants \ raced' : \A x, y \in Waits(u)' : x = y
    BY <1>1, <1>11, WaitedBefore
  <2>2. ASSUME NEW u \in Tenants \ raced', NEW q \in Callers, asks'[q].tenant = u PROVE cache'[u] = "none"
    <3>1. u \notin raced
      BY <1>1, <1>11, <2>2, WaitedBefore
    <3> QED  BY <1>3, <1>6, <2>2, <3>1 DEF RacesInv, Finds
  <2>3. ASSUME NEW u \in Tenants \ raced', NEW d \in closers', d.tenant = u PROVE cache'[u] = "closing"
    <3>1. u \notin raced
      BY <1>1, <1>11, <2>3, WaitedBefore
    <3>2. d \in closers /\ u # t
      BY <1>1, <2>3, <3>1, OneWaits DEF t
    <3> QED  BY <1>6, <2>3, <3>1, <3>2 DEF RacesInv, Finds
  <2> QED  BY <1>9, <2>1, <2>2, <2>3 DEF RacesInv, Finds
<1>13. Cache!ClosingIsWatched'
  <2> SUFFICES ASSUME NEW u \in Tenants, cache'[u] = "closing" PROVE \E d \in closers' : d.tenant = u
    BY DEF Cache!ClosingIsWatched
  <2>1. u # t /\ cache[u] = "closing"
    BY <1>6
  <2>2. PICK d \in closers : d.tenant = u
    BY <2>1 DEF Cache!ClosingIsWatched
  <2> QED  BY <1>1, <2>1, <2>2 DEF t
<1>14. LimitInv'
  <2> SUFFICES ASSUME traffic = "alone" PROVE LimitInv'
    BY <1>1 DEF LimitInv
  <2>1. Cardinality(Cache!Cached') <= MaxCached
    <3>1. /\ Cardinality(Cache!Cached') \in Nat /\ Cardinality(Cache!Cached) \in Nat
          /\ Cardinality(Cache!Cached') <= Cardinality(Cache!Cached)
      BY <1>7, FewerFit
    <3> QED  BY <3>1, ConnectionConstants DEF LimitInv
  <2>2. ASSUME NEW u \in Tenants, Cardinality(Cache!Cached \ {u}) < MaxCached
        PROVE  Cardinality(Cache!Cached' \ {u}) < MaxCached
    <3>1. /\ Cardinality(Cache!Cached' \ {u}) \in Nat /\ Cardinality(Cache!Cached \ {u}) \in Nat
          /\ Cardinality(Cache!Cached' \ {u}) <= Cardinality(Cache!Cached \ {u})
      BY <1>7, FewerFit
    <3> QED  BY <2>2, <3>1, ConnectionConstants
  <2>3. ASSUME NEW q \in Callers, asks'[q].at = "create"
        PROVE  Cardinality(Cache!Cached' \ {asks'[q].tenant}) < MaxCached
    <3>1. q \in Askers /\ asks[q].tenant \in Tenants
      BY <1>5, <2>3 DEF Askers, CallsFit, AsksFit
    <3>2. CASE q # c.by
      BY <1>3, <2>2, <2>3, <3>1, <3>2 DEF LimitInv
    <3>3. CASE q = c.by
      <4>1. Cardinality(Cache!Cached \ {t}) < MaxCached
        BY <3>3 DEF LimitInv, t
      <4>2. /\ Cardinality(Cache!Cached' \ {asks'[q].tenant}) \in Nat /\ Cardinality(Cache!Cached \ {t}) \in Nat
            /\ Cardinality(Cache!Cached' \ {asks'[q].tenant}) <= Cardinality(Cache!Cached \ {t})
        BY <1>7, FewerFit
      <4> QED  BY <4>1, <4>2, ConnectionConstants
    <3> QED  BY <3>2, <3>3
  <2>4. \A d \in closers' : d.by \in Callers => Cardinality(Cache!Cached' \ {d.tenant}) < MaxCached
    <3>1. \A d \in closers : d.tenant \in Tenants
      BY DEF CallsFit, Cache!TypeOK
    <3> QED  BY <1>1, <2>2, <3>1 DEF LimitInv
  <2> QED  BY <1>5, <2>1, <2>3, <2>4 DEF LimitInv
<1> QED  BY <1>8, <1>11, <1>12, <1>13, <1>14

\* The cleanup, or the shutdown, begins to close connections that are there.
LEMMA CloseSome ==
    ASSUME CacheInv, NEW by \in {Timer, Owner}, NEW some \in SUBSET Cache!Cached,
           cache' = [u \in Tenants |-> IF u \in some THEN "closing" ELSE cache[u]],
           closers' = closers \cup {Cache!Closer(by, u) : u \in some}, Cache!Calls,
           UNCHANGED <<recent, asks, lost, failed, stopping, traffic>>
    PROVE  CacheInv'
<1> USE DEF CacheInv
<1>1. Cache!Cached' = Cache!Cached /\ Askers' = Askers /\ raced' = Cache!Overlapping(asks', closers')
  BY DEF Cache!Cached, Askers, Cache!Calls
<1>2. OrderInv'
  BY <1>1 DEF OrderInv, Once, Range
<1>3. /\ cache' \in [Tenants -> {"none", "open", "closing"}]
      /\ closers' \subseteq [by : Cache!Closers, tenant : Tenants]
  BY DEF CallsFit, Cache!TypeOK, Cache!Closer, Cache!Closers, Cache!Cached
<1>4. \A c \in closers' : c \in closers \/ (c.by \notin Callers /\ c.tenant \in some)
  BY ConnectionConstants DEF Cache!Closer
<1>5. CallsFit'
  BY <1>1, <1>3, <1>4 DEF CallsFit, Cache!TypeOK, AsksFit, EvictsFit, Cache!Overlapping
<1>6. RacesInv'
  <2>1. \A u \in Tenants \ raced' : \A x, y \in Waits(u)' : x = y
    BY <1>1, <1>5, WaitedBefore
  <2>2. ASSUME NEW u \in Tenants \ raced', NEW q \in Callers, asks'[q].tenant = u PROVE cache'[u] = "none"
    <3>1. u \notin raced
      BY <1>1, <1>5, <2>2, WaitedBefore
    <3> QED  BY <2>2, <3>1 DEF RacesInv, Finds, Cache!Cached
  <2>3. ASSUME NEW u \in Tenants \ raced', NEW c \in closers', c.tenant = u PROVE cache'[u] = "closing"
    <3>1. u \notin raced
      BY <1>1, <1>5, <2>3, WaitedBefore
    <3> QED  BY <1>4, <2>3, <3>1 DEF RacesInv, Finds
  <2> QED  BY <2>1, <2>2, <2>3 DEF RacesInv, Finds
<1>7. Cache!ClosingIsWatched'
  <2> SUFFICES ASSUME NEW u \in Tenants, cache'[u] = "closing" PROVE \E c \in closers' : c.tenant = u
    BY DEF Cache!ClosingIsWatched
  <2>1. CASE u \in some
    <3>1. Cache!Closer(by, u) \in closers' /\ Cache!Closer(by, u).tenant = u
      BY <2>1 DEF Cache!Closer
    <3> QED  BY <3>1
  <2>2. CASE u \notin some
    BY <2>2 DEF Cache!ClosingIsWatched
  <2> QED  BY <2>1, <2>2
<1>8. LimitInv'
  BY <1>1, <1>4 DEF LimitInv
<1> QED  BY <1>2, <1>5, <1>6, <1>7, <1>8

LEMMA CleanupCache == CacheInv /\ Cache!CleanupConnections => CacheInv'
<1> SUFFICES ASSUME CacheInv, Cache!CleanupConnections PROVE CacheInv'
  OBVIOUS
<1>1. PICK n \in 1 .. Len(recent) :
        LET idle == {recent[i] : i \in 1 .. n} \cap Cache!Cached IN
           /\ cache' = [u \in Tenants |-> IF u \in idle THEN "closing" ELSE cache[u]]
           /\ closers' = closers \cup {Cache!Closer(Timer, u) : u \in idle}
  BY DEF Cache!CleanupConnections
<1> DEFINE idle == {recent[i] : i \in 1 .. n} \cap Cache!Cached
<1>2. /\ cache' = [u \in Tenants |-> IF u \in idle THEN "closing" ELSE cache[u]]
      /\ closers' = closers \cup {Cache!Closer(Timer, u) : u \in idle}
  BY <1>1
<1>3. idle \in SUBSET Cache!Cached
  OBVIOUS
<1> HIDE DEF idle
<1>4. Cache!Calls /\ UNCHANGED <<recent, asks, lost, failed, stopping, traffic>>
  BY DEF Cache!CleanupConnections
<1>5. Timer \in {Timer, Owner}
  OBVIOUS
<1> QED  BY <1>2, <1>3, <1>4, <1>5, CloseSome

LEMMA DestroyCache == CacheInv /\ Cache!DestroyNext => CacheInv'
<1> SUFFICES ASSUME CacheInv, Cache!DestroyNext PROVE CacheInv'
  OBVIOUS
<1>1. PICK t \in Cache!Cached : /\ cache' = [cache EXCEPT ![t] = "closing"]
                                /\ closers' = closers \cup {Cache!Closer(Owner, t)}
  BY DEF Cache!DestroyNext, Cache!NextToClose
<1>2. cache \in [Tenants -> {"none", "open", "closing"}]
  BY DEF CacheInv, CallsFit, Cache!TypeOK
<1>3. cache' = [u \in Tenants |-> IF u \in {t} THEN "closing" ELSE cache[u]]
  BY <1>1, <1>2
<1>4. closers' = closers \cup {Cache!Closer(Owner, u) : u \in {t}}
  BY <1>1
<1>5. Cache!Calls /\ UNCHANGED <<recent, asks, lost, failed, stopping, traffic>>
  BY DEF Cache!DestroyNext
<1>6. Owner \in {Timer, Owner} /\ {t} \in SUBSET Cache!Cached
  BY <1>1
<1> QED  BY <1>3, <1>4, <1>5, <1>6, CloseSome

\* A step of another part, or the beginning of the shutdown.
LEMMA SameCache ==
    CacheInv /\ stopping' \in BOOLEAN
    /\ UNCHANGED <<cache, recent, asks, closers, raced, lost, failed, traffic>> => CacheInv'
<1> SUFFICES ASSUME CacheInv, stopping' \in BOOLEAN,
                    UNCHANGED <<cache, recent, asks, closers, raced, lost, failed, traffic>>
             PROVE  CacheInv'
  OBVIOUS
<1> USE DEF CacheInv
<1>1. Cache!Cached' = Cache!Cached /\ Askers' = Askers
  BY DEF Cache!Cached, Askers
<1>2. CallsFit'
  BY <1>1 DEF CallsFit, Cache!TypeOK, AsksFit, EvictsFit
<1>3. OrderInv'
  BY <1>1 DEF OrderInv, Once, Range
<1>4. RacesInv'
  BY DEF RacesInv, Finds, Waits, Cache!Under
<1>5. LimitInv' /\ Cache!ClosingIsWatched'
  BY <1>1 DEF LimitInv, Cache!ClosingIsWatched
<1> QED  BY <1>2, <1>3, <1>4, <1>5

LEMMA NextCache == CacheInv /\ Cache!Next => CacheInv'
<1> SUFFICES ASSUME CacheInv, Cache!Next PROVE CacheInv'
  OBVIOUS
<1>1. ASSUME NEW r \in Callers, Cache!GetTenantConnection(r) PROVE CacheInv'
  <2>1. PICK t \in Tenants : Cache!Hit(r, t) \/ Cache!Miss(r, t)
    BY <1>1 DEF Cache!GetTenantConnection
  <2>2. /\ r \notin Askers /\ (traffic = "alone" => Askers = {})
        /\ UNCHANGED <<lost, failed, stopping, traffic>> /\ Cache!Calls
    BY <1>1 DEF Cache!GetTenantConnection, Cache!Asking, Askers
  <2>3. CASE Cache!Hit(r, t)
    BY <2>2, <2>3, HitCache
  <2>4. CASE Cache!Miss(r, t)
    BY <2>2, <2>4, MissCache
  <2> QED  BY <2>1, <2>3, <2>4
<1>2. ASSUME NEW r \in Callers, Cache!Create(r) PROVE CacheInv'
  BY <1>2, CreateCache
<1>3. ASSUME NEW r \in Callers, Cache!CreateFails(r) PROVE CacheInv'
  BY <1>3, CreateFailsCache
<1>4. ASSUME NEW c \in closers, Cache!Closed(c) PROVE CacheInv'
  BY <1>4, ClosedCache
<1>5. CASE Cache!CleanupConnections
  BY <1>5, CleanupCache
<1>6. CASE Cache!DestroyNext
  BY <1>6, DestroyCache
<1>7. CASE Cache!Shutdown
  <2>1. stopping' \in BOOLEAN /\ UNCHANGED <<cache, recent, asks, closers, raced, lost, failed, traffic>>
    BY <1>7 DEF Cache!Shutdown
  <2> QED  BY <2>1, SameCache
<1> QED  BY <1>1, <1>2, <1>3, <1>4, <1>5, <1>6, <1>7 DEF Cache!Next

\* What the runs check follows.
LEMMA CacheFits == CacheInv => CacheSound
<1> SUFFICES ASSUME CacheInv PROVE CacheSound
  OBVIOUS
<1> USE DEF CacheInv
<1>1. Cache!OrderExact
  <2>1. Cache!IsInjective(recent)
    BY DEF Cache!IsInjective, OrderInv, Once
  <2>2. Cache!Range(recent) = Range(recent)
    BY DEF Cache!Range, Range
  <2>3. {r \in Callers : Cache!Asking(r)} = Askers
    BY DEF Cache!Asking, Askers
  <2> QED  BY <2>1, <2>2, <2>3 DEF Cache!OrderExact, OrderInv
<1>2. Cache!LimitKept
  BY CacheCardinality DEF Cache!LimitKept, LimitInv
<1> QED  BY <1>1, <1>2 DEF CacheSound, Cache!CacheSound, CallsFit, RacesInv, Cache!OnlyRacesLeak

\* The cache of connections keeps its limit when requests come one at a time, loses
\* no connection unless calls for its tenant overlap, leaves no connection that is being
\* closed without somebody who takes it out, and has one time of use per tenant.
THEOREM CacheAlwaysSound == PartSpec => []CacheSound
<1>1. PartInit => CacheInv
  BY InitCache DEF PartInit
<1>2. CacheInv /\ [PartNext]_all => CacheInv'
  <2> SUFFICES ASSUME CacheInv, [PartNext]_all PROVE CacheInv'
    OBVIOUS
  <2>1. CASE CacheStep(Cache!Next)
    BY <2>1, NextCache DEF CacheStep
  <2>2. CASE UNCHANGED cacheVars
    <3>1. stopping' \in BOOLEAN /\ UNCHANGED <<cache, recent, asks, closers, raced, lost, failed, traffic>>
      BY <2>2 DEF cacheVars, CacheInv, CallsFit, Cache!TypeOK
    <3> QED  BY <3>1, SameCache
  <2> QED  BY <2>1, <2>2 DEF PartNext, WarehousesStep, AccountStep, all
<1> QED  BY <1>1, <1>2, CacheFits, PTL DEF PartSpec

=============================================================================
