-------------------------- MODULE Shipments_proofs --------------------------
(***************************************************************************)
(* What holds of Shipments for any number of products, places and requests,*)
(* and for any interleaving of them: the types, and that the status of a   *)
(* shipment follows the addresses. Then the products that shipments carry: *)
(* a product is with one holder, in one shipment under way, between its    *)
(* two ends, and on its way it stays; a merge leaves no product behind.    *)
(* Last, for one request at a time beside the listeners, the flags and the *)
(* copied addresses: flags agree with the shipments under way once the     *)
(* follow-up of every write is over, and a shipment that can be edited has *)
(* the addresses of its ends. Of a member who was given another name or    *)
(* e-mail while flagged nothing is claimed.                                *)
(***************************************************************************)
EXTENDS Shipments, FiniteSetTheorems, TLAPS

-----------------------------------------------------------------------------
\* The values.

LEMMA PlacesContain ==
    /\ Members \subseteq Places /\ Offices \subseteq Places
    /\ Pool \subseteq Places /\ FPWarehouse \in Places
BY DEF Places, Pool

LEMMA StatusTypes ==
    /\ \A x : RestStatus(x) \in ProductStatuses
    /\ \A status : ShippedStatus(status) \in ProductStatuses
    /\ \A sh : StatusFromDetails(sh) \in ShipmentStatuses
BY DEF RestStatus, ShippedStatus, StatusFromDetails, ProductStatuses,
       ShipmentStatuses, MissingData, InTransit, Delivered, Available,
       InPreparation, OnHold

LEMMA ConversionTypes ==
    ASSUME NEW prod \in Product
    PROVE  /\ ToInTransit(prod) \in Product /\ ToMissingData(prod) \in Product
           /\ ToInTransit(prod).holders = prod.holders
           /\ ToMissingData(prod).holders = prod.holders
BY DEF ToInTransit, ToMissingData, Product, ProductStatuses, InTransit, MissingData

LEMMA MoveKindType ==
    ASSUME NEW from \in Places, NEW to \in Places
    PROVE  MoveKind(from, to) \in OperationKinds
BY DEF MoveKind, OperationKinds, Places

LEMMA MovedType ==
    ASSUME products \in [Products -> Product], NEW p \in Products,
           NEW from, NEW to \in Places
    PROVE  Moved(p, from, to) \in SUBSET Places
BY DEF Moved, Product

LEMMA CommittedType ==
    ASSUME products \in [Products -> Product], NEW p \in Products,
           NEW from \in Places, NEW to \in Places, NEW created \in BOOLEAN
    PROVE  Committed(p, from, to, created) \in Product
<1>1. products[p] \in Product  OBVIOUS
<1>2. Moved(p, from, to) \in SUBSET Places  BY MovedType
<1>3. InTransit \in ProductStatuses /\ Available \in ProductStatuses
  BY DEF ProductStatuses
<1>4. CASE MoveKind(from, to) = "assign"
  BY <1>1, <1>4 DEF Committed, Product
<1>5. CASE MoveKind(from, to) = "relocate"
  BY <1>1, <1>5 DEF Committed, Product
<1>6. CASE MoveKind(from, to) = "return"
  BY <1>2, <1>3, <1>6 DEF Committed, Product
<1>7. CASE MoveKind(from, to) = "transfer"
  BY <1>2, <1>3, <1>7 DEF Committed, Product
<1>8. MoveKind(from, to) \in {"assign", "relocate", "return", "transfer"}
  BY DEF MoveKind, Places
<1> QED  BY <1>4, <1>5, <1>6, <1>7, <1>8

LEMMA ChangedType ==
    ASSUME NEW kind, NEW prod \in Product, NEW at
    PROVE  Changed(kind, prod, at) \in Product
<1>1. RestStatus(at) \in ProductStatuses  BY StatusTypes
<1>2. ToInTransit(prod) \in Product  BY ConversionTypes
<1> QED  BY <1>1, <1>2 DEF Changed, Product

LEMMA SavedType ==
    ASSUME NEW kind, NEW now \in Product,
           NEW got \in [at : Places, email : Names, product : Product]
    PROVE  Saved(kind, now, got) \in Product
<1> DEFINE new == Changed(kind, got.product, got.at)
<1>1. new \in Product /\ Changed(kind, now, got.at) \in Product  BY ChangedType
<1> HIDE DEF new
<1>2. got.product \in Product  OBVIOUS
<1> QED  BY <1>1, <1>2 DEF Saved, Product, new

LEMMA CalledType ==
    ASSUME called \in [Members -> Called], NEW x
    PROVE  CalledAt(x) \in Called /\ Unnamed \in Called
<1>1. MaxNames \in Nat  BY ConstantsAssumption DEF ConstantsAssumption
<1>2. Unnamed \in Called  BY <1>1 DEF Unnamed, Called, Names
<1> QED  BY <1>2 DEF CalledAt

LEMMA ReaddressedType ==
    ASSUME called \in [Members -> Called], NEW sh \in Shipment, NEW x,
           NEW isComplete \in BOOLEAN
    PROVE  Readdressed(sh, x, isComplete) \in Shipment
<1>1. CalledAt(x) \in Called  BY CalledType
<1> QED  BY <1>1 DEF Readdressed, Shipment

LEMMA RefreshedType ==
    ASSUME called \in [Members -> Called], NEW sh \in Shipment, NEW x,
           NEW isComplete \in BOOLEAN
    PROVE  Refreshed(sh, x, isComplete) \in Shipment
<1> DEFINE copied == Readdressed(sh, x, isComplete)
<1>1. copied \in Shipment  BY ReaddressedType
<1>2. StatusFromDetails(copied) \in ShipmentStatuses  BY StatusTypes
<1> HIDE DEF copied
<1>3. [copied EXCEPT !.status = StatusFromDetails(copied)] \in Shipment
  BY <1>1, <1>2 DEF Shipment
<1> QED  BY <1>3 DEF Refreshed, copied

\* What the listener leaves alone.
LEMMA RefreshedIs ==
    ASSUME called \in [Members -> Called], NEW sh \in Shipment, NEW x,
           NEW isComplete \in BOOLEAN, NEW new, new = Refreshed(sh, x, isComplete)
    PROVE  /\ new \in Shipment /\ new.status = StatusFromDetails(new)
           /\ new.status \in EditableStatuses
           /\ new.isDeleted = sh.isDeleted /\ new.date = sh.date
           /\ new.origin = sh.origin /\ new.destination = sh.destination
           /\ new.products = sh.products
<1> DEFINE copied == Readdressed(sh, x, isComplete)
           st     == StatusFromDetails(copied)
<1>1. copied \in Shipment  BY ReaddressedType
<1>2. /\ copied.isDeleted = sh.isDeleted /\ copied.date = sh.date
      /\ copied.origin = sh.origin /\ copied.destination = sh.destination
      /\ copied.products = sh.products
  BY DEF Readdressed, Shipment
<1>3. new = [copied EXCEPT !.status = st]  BY DEF Refreshed
<1>4. st = IF copied.originComplete /\ copied.destinationComplete
           THEN InPreparation ELSE OnHold
  BY DEF StatusFromDetails, DetailsComplete
<1>5. new \in Shipment  BY RefreshedType
<1> HIDE DEF copied, st
<1>6. /\ new.status = st /\ new.isDeleted = copied.isDeleted /\ new.date = copied.date
      /\ new.origin = copied.origin /\ new.destination = copied.destination
      /\ new.products = copied.products
      /\ new.originComplete = copied.originComplete
      /\ new.destinationComplete = copied.destinationComplete
  BY <1>1, <1>3 DEF Shipment
<1>7. st \in EditableStatuses  BY <1>4 DEF EditableStatuses
<1> QED  BY <1>2, <1>4, <1>5, <1>6, <1>7 DEF StatusFromDetails, DetailsComplete

LEMMA TaskTypes ==
    ASSUME NEW sh \in Shipment
    PROVE  /\ OfficeTasks(sh) \in Seq(Tasks) /\ MemberTasks(sh) \in Seq(Tasks)
           /\ \A kind \in {"release", "receive", "unlock", "holder", "toInTransit"} :
                 ProductTasks(kind, sh) \in Seq(Tasks)
<1>1. ASSUME NEW x PROVE OfficeTask(x) \in Seq(Tasks)
  <2>1. CASE x \in Offices
    <3>1. [kind |-> "office", on |-> x] \in Tasks  BY <2>1 DEF Tasks
    <3> QED  BY <2>1, <3>1 DEF OfficeTask
  <2>2. CASE x \notin Offices  BY <2>2 DEF OfficeTask
  <2> QED  BY <2>1, <2>2
<1>2. ASSUME NEW x, NEW email \in Names PROVE MemberTask(x, email) \in Seq(Tasks)
  <2>1. CASE x \in Members
    <3>1. [kind |-> "member", on |-> x, email |-> email] \in Tasks
      BY <2>1 DEF Tasks
    <3> QED  BY <2>1, <3>1 DEF MemberTask
  <2>2. CASE x \notin Members  BY <2>2 DEF MemberTask
  <2> QED  BY <2>1, <2>2
<1>3. OfficeTasks(sh) \in Seq(Tasks)  BY <1>1 DEF OfficeTasks
<1>4. MemberTasks(sh) \in Seq(Tasks)
  <2>1. sh.originCalled.email \in Names /\ sh.destinationCalled.email \in Names
    BY DEF Shipment, Called
  <2>2. /\ MemberTask(sh.origin, sh.originCalled.email) \in Seq(Tasks)
        /\ MemberTask(sh.destination, sh.destinationCalled.email) \in Seq(Tasks)
    BY <1>2, <2>1
  <2> QED  BY <2>2 DEF MemberTasks
<1>5. ASSUME NEW kind \in {"release", "receive", "unlock", "holder", "toInTransit"}
      PROVE  ProductTasks(kind, sh) \in Seq(Tasks)
  <2>1. sh.products \in Seq(Products)  BY DEF Shipment
  <2>2. \A p \in Products : [kind |-> kind, on |-> p] \in Tasks  BY DEF Tasks
  <2>3. /\ DOMAIN sh.products = 1 .. Len(sh.products)
        /\ Len(sh.products) \in Nat
        /\ \A i \in DOMAIN sh.products : sh.products[i] \in Products
    BY <2>1
  <2>4. ProductTasks(kind, sh) \in [1 .. Len(sh.products) -> Tasks]
    BY <2>2, <2>3 DEF ProductTasks
  <2> QED  BY <2>3, <2>4
<1> QED  BY <1>3, <1>4, <1>5

-----------------------------------------------------------------------------
\* The requests. Their types alone do not say that a follow-up without tasks
\* has something to settle, nor what kind of reading belongs to which task.

ReadingFits(kind, reading) ==
    IF kind \in {"office", "member", "owner", "unlock"}
    THEN reading \in [some : BOOLEAN]
    ELSE reading \in [at : Places, email : Names, product : Product]

Fitting(s) ==
    s.pc = "followUp" =>
        /\ s.tasks = <<>> => s.settle # <<>>
        /\ s.got # <<>> =>
              /\ s.tasks # <<>>
              /\ ReadingFits(s.tasks[1].kind, s.got[1])

RequestsFit == \A r \in Requests : Fitting(requests[r])

TypeInv == TypeOK /\ RequestsFit

LEMMA PcTypes ==
    ASSUME TypeOK, NEW r \in Requests
    PROVE  /\ requests[r].pc = "prepared"      => requests[r] \in Prepared
           /\ requests[r].pc = "loaded"        => requests[r] \in Loaded
           /\ requests[r].pc = "merging"       => requests[r] \in Merging
           /\ requests[r].pc = "redating"      => requests[r] \in Redating
           /\ requests[r].pc = "merged"        => requests[r] \in Merged
           /\ requests[r].pc = "officeChecked" => requests[r] \in OfficeChecked
           /\ requests[r].pc = "followUp"      => requests[r] \in Following
<1>1. requests[r] \in RequestStates  BY DEF TypeOK
<1> QED  BY <1>1 DEF RequestStates, Idle, Prepared, Loaded, Merging, Redating,
                    Merged, OfficeChecked, Following

LEMMA BecomeType ==
    ASSUME TypeInv, NEW r \in Requests, NEW state \in RequestStates,
           Fitting(state), Become(r, state)
    PROVE  requests' \in [Requests -> RequestStates] /\ RequestsFit'
<1>1. requests' = [requests EXCEPT ![r] = state]  BY DEF Become
<1>2. requests \in [Requests -> RequestStates]  BY DEF TypeInv, TypeOK
<1>3. \A q \in Requests : Fitting(requests[q])  BY DEF TypeInv, RequestsFit
<1>4. requests' \in [Requests -> RequestStates]  BY <1>1, <1>2
<1>5. \A q \in Requests : requests'[q] = IF q = r THEN state ELSE requests[q]
  BY <1>1, <1>2
<1>6. \A q \in Requests : Fitting(requests'[q])  BY <1>3, <1>5
<1> QED  BY <1>4, <1>6 DEF RequestsFit

LEMMA FittingTypes ==
    /\ Idle \in RequestStates /\ Fitting(Idle)
    /\ \A s \in Prepared \cup Loaded \cup Merging \cup Redating \cup Merged
                \cup OfficeChecked : s \in RequestStates /\ Fitting(s)
BY DEF RequestStates, Fitting, Idle, Prepared, Loaded, Merging, Redating, Merged,
       OfficeChecked

LEMMA FollowUpType ==
    ASSUME TypeInv, NEW r \in Requests, NEW op \in OperationKinds,
           NEW tasks \in Seq(Tasks), NEW settle \in Seq(Settlements),
           FollowUp(r, op, tasks, settle)
    PROVE  requests' \in [Requests -> RequestStates] /\ RequestsFit'
<1> DEFINE next == [pc |-> "followUp", op |-> op, tasks |-> tasks,
                    settle |-> settle, got |-> <<>>]
<1>1. next \in Following  BY DEF Following
<1>2. next \in RequestStates  BY <1>1 DEF RequestStates
<1>3. CASE tasks = <<>> /\ settle = <<>>
  <2>1. Become(r, Idle)  BY <1>3 DEF FollowUp
  <2> QED  BY <2>1, BecomeType, FittingTypes
<1>4. CASE ~(tasks = <<>> /\ settle = <<>>)
  <2>1. Become(r, next)  BY <1>4 DEF FollowUp
  <2>2. Fitting(next)  BY <1>4 DEF Fitting
  <2> HIDE DEF next
  <2> QED  BY <1>2, <2>1, <2>2, BecomeType
<1> QED  BY <1>3, <1>4

LEMMA DoneType ==
    ASSUME TypeInv, NEW r \in Requests, requests[r].pc = "followUp",
           requests[r].tasks # <<>>, NEW more \in Seq(Tasks), Done(r, more)
    PROVE  requests' \in [Requests -> RequestStates] /\ RequestsFit'
<1>1. requests[r] \in Following  BY PcTypes DEF TypeInv
<1>2. /\ requests[r].op \in OperationKinds
      /\ requests[r].tasks \in Seq(Tasks)
      /\ requests[r].settle \in Seq(Settlements)
  BY <1>1 DEF Following
<1>3. more \o Tail(requests[r].tasks) \in Seq(Tasks)  BY <1>2
<1>4. FollowUp(r, requests[r].op, more \o Tail(requests[r].tasks), requests[r].settle)
  BY DEF Done
<1> QED  BY <1>2, <1>3, <1>4, FollowUpType

LEMMA GotType ==
    ASSUME TypeInv, NEW r \in Requests, requests[r].pc = "followUp",
           requests[r].tasks # <<>>, NEW reading \in Readings,
           ReadingFits(requests[r].tasks[1].kind, reading), Got(r, reading)
    PROVE  requests' \in [Requests -> RequestStates] /\ RequestsFit'
<1>1. requests[r] \in Following  BY PcTypes DEF TypeInv
<1> DEFINE next == [requests[r] EXCEPT !.got = <<reading>>]
<1>2. <<reading>> \in Seq(Readings) /\ <<reading>>[1] = reading  OBVIOUS
<1>3. /\ next \in Following /\ next.got = <<reading>>
      /\ next.tasks = requests[r].tasks
  BY <1>1, <1>2 DEF Following
<1>4. Become(r, next)  BY DEF Got
<1> HIDE DEF next
<1>5. Fitting(next)  BY <1>2, <1>3 DEF Fitting
<1>6. next \in RequestStates  BY <1>3 DEF RequestStates
<1> QED  BY <1>4, <1>5, <1>6, BecomeType

LEMMA WorkingType ==
    ASSUME TypeInv, NEW r \in Requests, NEW kinds, Working(r, kinds)
    PROVE  /\ requests[r].pc = "followUp" /\ requests[r].tasks # <<>>
           /\ HeadTask(r) = requests[r].tasks[1] /\ HeadTask(r) \in Tasks
           /\ HeadTask(r).kind \in kinds
           /\ requests[r].got # <<>> =>
                 ReadingFits(HeadTask(r).kind, requests[r].got[1])
<1>1. requests[r].pc = "followUp" /\ requests[r].tasks # <<>>
        /\ HeadTask(r).kind \in kinds
  BY DEF Working
<1>2. requests[r].tasks \in Seq(Tasks)  BY <1>1, PcTypes DEF TypeInv, Following
<1>3. requests[r].tasks[1] \in Tasks  BY <1>1, <1>2
<1>4. Fitting(requests[r])  BY DEF TypeInv, RequestsFit
<1> QED  BY <1>1, <1>3, <1>4 DEF HeadTask, Fitting

-----------------------------------------------------------------------------
\* The variables, one at a time.

LEMMA SeqUpdate ==
    ASSUME NEW S, NEW seq \in Seq(S), NEW i, NEW e, i \in DOMAIN seq => e \in S
    PROVE  [seq EXCEPT ![i] = e] \in Seq(S)
<1>1. seq \in [1 .. Len(seq) -> S] /\ Len(seq) \in Nat
        /\ DOMAIN seq = 1 .. Len(seq)
  OBVIOUS
<1>2. [seq EXCEPT ![i] = e] \in [1 .. Len(seq) -> S]  BY <1>1
<1> QED  BY <1>1, <1>2

LEMMA TypeSteps ==
    ASSUME TypeInv,
           shipments' \in Seq(Shipment),
           products' \in [Products -> Product],
           flagged' \in [Members \cup Offices -> BOOLEAN],
           complete' \in [Members \cup Offices -> BOOLEAN],
           called' \in [Members -> Called],
           events' \in Seq(AddressEvents),
           requests' \in [Requests -> RequestStates] /\ RequestsFit',
           renamed' \subseteq Members
    PROVE  TypeInv'
BY DEF TypeInv, TypeOK

LEMMA Types ==
    ASSUME TypeInv
    PROVE  /\ shipments \in Seq(Shipment)
           /\ products \in [Products -> Product]
           /\ flagged \in [Members \cup Offices -> BOOLEAN]
           /\ complete \in [Members \cup Offices -> BOOLEAN]
           /\ called \in [Members -> Called]
           /\ events \in Seq(AddressEvents)
           /\ requests \in [Requests -> RequestStates]
           /\ renamed \subseteq Members
BY DEF TypeInv, TypeOK

LEMMA ProductWrite ==
    ASSUME TypeInv, NEW p \in Products, NEW prod \in Product,
           products' = [products EXCEPT ![p] = prod]
    PROVE  products' \in [Products -> Product]
BY Types

LEMMA RequestsKept ==
    ASSUME TypeInv, requests' = requests
    PROVE  requests' \in [Requests -> RequestStates] /\ RequestsFit'
BY DEF TypeInv, TypeOK, RequestsFit, Fitting, ReadingFits

LEMMA AddressType ==
    ASSUME TypeInv, NEW x \in Places
    PROVE  AddressComplete(x) \in BOOLEAN
BY Types DEF AddressComplete, Places, Pool

LEMMA VisibleType ==
    ASSUME TypeInv, NEW p \in Products
    PROVE  Visible(p) \subseteq Places
<1>1. products[p].holders \subseteq Places  BY Types DEF Product
<1> QED  BY <1>1 DEF Visible

-----------------------------------------------------------------------------
\* One lemma per action: it keeps the types.

LEMMA PrepareType ==
    ASSUME TypeInv, NEW r \in Requests, Prepare(r)
    PROVE  TypeInv'
<1>1. PICK p \in Products, to \in Places, date \in Dates :
        \E from \in Visible(p) \ {to} :
          Become(r, [pc |-> "prepared", product |-> p, from |-> from,
                     to |-> to, date |-> date, seen |-> products[p],
                     fromCalled |-> CalledAt(from), toCalled |-> CalledAt(to),
                     fromComplete |-> AddressComplete(from),
                     toComplete |-> AddressComplete(to),
                     toFlagged |-> to \in Members /\ flagged[to]])
  BY DEF Prepare
<1>2. PICK from \in Visible(p) :
          Become(r, [pc |-> "prepared", product |-> p, from |-> from,
                     to |-> to, date |-> date, seen |-> products[p],
                     fromCalled |-> CalledAt(from), toCalled |-> CalledAt(to),
                     fromComplete |-> AddressComplete(from),
                     toComplete |-> AddressComplete(to),
                     toFlagged |-> to \in Members /\ flagged[to]])
  BY <1>1
<1> DEFINE up   == to \in Members /\ flagged[to]
           next == [pc |-> "prepared", product |-> p, from |-> from,
                    to |-> to, date |-> date, seen |-> products[p],
                    fromCalled |-> CalledAt(from), toCalled |-> CalledAt(to),
                    fromComplete |-> AddressComplete(from),
                    toComplete |-> AddressComplete(to), toFlagged |-> up]
<1>3. from \in Places /\ products[p] \in Product  BY VisibleType, Types
<1>4. AddressComplete(from) \in BOOLEAN /\ AddressComplete(to) \in BOOLEAN
  BY <1>3, AddressType
<1>5. Become(r, next)  BY <1>2
<1>6. up \in BOOLEAN  OBVIOUS
<1> HIDE DEF up
<1>7. CalledAt(from) \in Called /\ CalledAt(to) \in Called  BY CalledType, Types
<1>8. next \in Prepared  BY <1>3, <1>4, <1>6, <1>7 DEF Prepared
<1> HIDE DEF next
<1>9. next \in RequestStates /\ Fitting(next)  BY <1>8, FittingTypes
<1>10. requests' \in [Requests -> RequestStates] /\ RequestsFit'
  BY <1>5, <1>9, BecomeType
<1>11. UNCHANGED <<shipments, products, flagged, complete, called, events, renamed>>
  BY DEF Prepare
<1> QED  BY <1>10, <1>11, Types, TypeSteps

LEMMA MoveType ==
    ASSUME TypeInv, NEW r \in Requests, Move(r)
    PROVE  TypeInv'
<1>1. PICK p \in Products, to \in Places :
        \E from \in Visible(p) \ {to} :
          products' = [products EXCEPT ![p] =
              [holders |-> Moved(p, from, to), status |-> RestStatus(to),
               activeShipment |-> FALSE, fp_shipment |-> FALSE]]
  BY DEF Move
<1>2. PICK from \in Visible(p) :
          products' = [products EXCEPT ![p] =
              [holders |-> Moved(p, from, to), status |-> RestStatus(to),
               activeShipment |-> FALSE, fp_shipment |-> FALSE]]
  BY <1>1
<1>3. Moved(p, from, to) \in SUBSET Places  BY MovedType, Types
<1>4. RestStatus(to) \in ProductStatuses  BY StatusTypes
<1>5. [holders |-> Moved(p, from, to), status |-> RestStatus(to),
       activeShipment |-> FALSE, fp_shipment |-> FALSE] \in Product
  BY <1>3, <1>4 DEF Product
<1>6. products' \in [Products -> Product]  BY <1>2, <1>5, ProductWrite
<1>7. UNCHANGED <<shipments, flagged, complete, called, events,
                requests, renamed>>  BY DEF Move
<1> QED  BY <1>6, <1>7, Types, TypeSteps, RequestsKept

LEMMA LoadType ==
    ASSUME TypeInv, NEW r \in Requests, Load(r)
    PROVE  TypeInv'
<1>1. PICK op \in {"cancel", "setStatus", "reschedule"}, s \in DOMAIN shipments :
        Become(r, [pc |-> "loaded", op |-> op, shipment |-> s,
                   seen |-> shipments[s]])
  BY DEF Load
<1> DEFINE next == [pc |-> "loaded", op |-> op, shipment |-> s,
                    seen |-> shipments[s]]
<1>2. s \in Nat /\ shipments[s] \in Shipment  BY Types
<1>3. next \in Loaded  BY <1>2 DEF Loaded
<1> HIDE DEF next
<1>4. next \in RequestStates /\ Fitting(next)  BY <1>3, FittingTypes
<1>5. Become(r, next)  BY <1>1 DEF next
<1>6. requests' \in [Requests -> RequestStates] /\ RequestsFit'
  BY <1>4, <1>5, BecomeType
<1>7. UNCHANGED <<shipments, products, flagged, complete, called, events, renamed>>  BY DEF Load
<1> QED  BY <1>6, <1>7, Types, TypeSteps

LEMMA PatchType ==
    ASSUME TypeInv, NEW r \in Requests, Patch(r)
    PROVE  TypeInv'
<1>1. PICK s \in DOMAIN shipments, new \in SetStatuses :
        shipments' = [shipments EXCEPT ![s].status = new]
  BY DEF Patch
<1> DEFINE ship == [shipments[s] EXCEPT !.status = new]
<1>2. shipments[s] \in Shipment  BY Types
<1>3. ship \in Shipment
  BY <1>2, ConstantsAssumption DEF Shipment, ConstantsAssumption
<1>4. shipments' = [shipments EXCEPT ![s] = ship]  BY <1>1
<1> HIDE DEF ship
<1>5. /\ shipments' \in Seq(Shipment)
      /\ DOMAIN shipments' = DOMAIN shipments
  BY <1>3, <1>4, Types
<1>6. UNCHANGED <<products, flagged, complete, called, events,
                requests, renamed>>  BY DEF Patch
<1> QED  BY <1>5, <1>6, Types, TypeSteps, RequestsKept

LEMMA UpdateMemberType ==
    ASSUME TypeInv, NEW r \in Requests, UpdateMember(r)
    PROVE  TypeInv'
<1>1. PICK m \in Members, new \in Called, isComplete \in BOOLEAN :
        /\ called' = [called EXCEPT ![m] = new]
        /\ complete' = [complete EXCEPT ![m] = isComplete]
        /\ events' = IF ShouldEmit(m, new, isComplete)
                     THEN Append(events, [member |-> m, email |-> new.email])
                     ELSE events
        /\ renamed' = IF flagged[m] /\ new # called[m] THEN renamed \cup {m}
                                                       ELSE renamed
  BY DEF UpdateMember
<1>2. complete' \in [Members \cup Offices -> BOOLEAN]  BY <1>1, Types
<1>3. called' \in [Members -> Called]  BY <1>1, Types
<1>4. renamed' \subseteq Members  BY <1>1, Types
<1>5. [member |-> m, email |-> new.email] \in AddressEvents
  BY DEF AddressEvents, Called
<1>6. events' \in Seq(AddressEvents)  BY <1>1, <1>5, Types
<1>7. UNCHANGED <<shipments, products, flagged, requests>>  BY DEF UpdateMember
<1> QED  BY <1>2, <1>3, <1>4, <1>6, <1>7, Types, TypeSteps, RequestsKept

LEMMA CheckOfficeType ==
    ASSUME TypeInv, NEW r \in Requests, CheckOffice(r)
    PROVE  TypeInv'
<1>1. PICK o \in Offices : Become(r, [pc |-> "officeChecked", office |-> o])
  BY DEF CheckOffice
<1> DEFINE next == [pc |-> "officeChecked", office |-> o]
<1>2. next \in OfficeChecked  BY DEF OfficeChecked
<1> HIDE DEF next
<1>3. next \in RequestStates /\ Fitting(next)  BY <1>2, FittingTypes
<1>4. Become(r, next)  BY <1>1 DEF next
<1>5. requests' \in [Requests -> RequestStates] /\ RequestsFit'
  BY <1>3, <1>4, BecomeType
<1>6. UNCHANGED <<shipments, products, flagged, complete, called, events, renamed>>
  BY DEF CheckOffice
<1> QED  BY <1>5, <1>6, Types, TypeSteps

LEMMA UpdateOfficeType ==
    ASSUME TypeInv, NEW r \in Requests, UpdateOffice(r)
    PROVE  TypeInv'
<1> DEFINE o == requests[r].office
<1>1. requests[r].pc = "officeChecked"  BY DEF UpdateOffice
<1>2. o \in Offices  BY <1>1, PcTypes DEF TypeInv, OfficeChecked
<1>3. /\ complete' = [complete EXCEPT ![o] = ~@]
      /\ events' = Append(events, [office |-> o, complete |-> complete'[o]])
      /\ Become(r, Idle)
      /\ UNCHANGED <<shipments, products, flagged, called, renamed>>
  BY DEF UpdateOffice
<1> HIDE DEF o
<1>4. complete' \in [Members \cup Offices -> BOOLEAN]  BY <1>3, Types
<1>5. [office |-> o, complete |-> complete'[o]] \in AddressEvents
  BY <1>2, <1>4 DEF AddressEvents
<1>6. events' \in Seq(AddressEvents)  BY <1>3, <1>5, Types
<1>7. requests' \in [Requests -> RequestStates] /\ RequestsFit'
  BY <1>3, BecomeType, FittingTypes
<1> QED  BY <1>3, <1>4, <1>6, <1>7, Types, TypeSteps

LEMMA UpdateDefaultOfficeType ==
    ASSUME TypeInv, NEW r \in Requests, UpdateDefaultOffice(r)
    PROVE  TypeInv'
<1>1. PICK o \in Offices :
        /\ complete' = [complete EXCEPT ![o] = ~@]
        /\ events' = Append(events, [office |-> o, complete |-> complete'[o]])
  BY DEF UpdateDefaultOffice
<1>2. complete' \in [Members \cup Offices -> BOOLEAN]  BY <1>1, Types
<1>3. [office |-> o, complete |-> complete'[o]] \in AddressEvents
  BY <1>2 DEF AddressEvents
<1>4. events' \in Seq(AddressEvents)  BY <1>1, <1>3, Types
<1>5. UNCHANGED <<shipments, products, flagged, called, requests, renamed>>
  BY DEF UpdateDefaultOffice
<1> QED  BY <1>2, <1>4, <1>5, Types, TypeSteps, RequestsKept

LEMMA StopType ==
    ASSUME TypeInv, NEW r \in Requests, Abort(r) \/ Crash(r)
    PROVE  TypeInv'
<1>1. /\ Become(r, Idle)
      /\ UNCHANGED <<shipments, products, flagged, complete, called, events, renamed>>
  BY DEF Abort, Crash
<1>2. requests' \in [Requests -> RequestStates] /\ RequestsFit'
  BY <1>1, BecomeType, FittingTypes
<1> QED  BY <1>1, <1>2, Types, TypeSteps

LEMMA SettlementType ==
    ASSUME NEW s \in Prepared, NEW status
    PROVE  Settlement(s, status) \in Seq(Settlements)
<1>1. ShippedStatus(status) \in ProductStatuses  BY StatusTypes
<1>2. [product |-> s.product, from |-> s.from, to |-> s.to,
       status |-> ShippedStatus(status), toFlagged |-> s.toFlagged] \in Settlements
  BY <1>1 DEF Prepared, Settlements
<1> QED  BY <1>2 DEF Settlement

LEMMA ConsolidateType ==
    ASSUME TypeInv, NEW r \in Requests, Consolidate(r)
    PROVE  TypeInv'
<1> DEFINE s == requests[r]
<1>1. s \in Prepared  BY PcTypes DEF TypeInv, Consolidate
<1>2. PICK t \in Consolidatable(s.from, s.fromCalled, s.to, s.toCalled, s.date) :
         LET joins == s.product \notin Carried(shipments[t])
             prod  == Committed(s.product, s.from, s.to, FALSE)
         IN  /\ shipments' = [shipments EXCEPT ![t].products =
                    IF joins THEN Append(@, s.product) ELSE @]
             /\ products' = [products EXCEPT ![s.product] =
                    IF joins /\ shipments[t].status = InPreparation
                    THEN ToInTransit(prod) ELSE prod]
             /\ FollowUp(r, MoveKind(s.from, s.to), <<>>,
                         Settlement(s, shipments[t].status))
  BY DEF Consolidate
<1>3. UNCHANGED <<flagged, complete, called, events, renamed>>  BY DEF Consolidate
<1> DEFINE joins == s.product \notin Carried(shipments[t])
           prod  == Committed(s.product, s.from, s.to, FALSE)
           row   == IF joins THEN Append(shipments[t].products, s.product)
                             ELSE shipments[t].products
           ship  == [shipments[t] EXCEPT !.products = row]
           new   == IF joins /\ shipments[t].status = InPreparation
                    THEN ToInTransit(prod) ELSE prod
<1>4. t \in DOMAIN shipments  BY DEF Consolidatable
<1>5. shipments[t] \in Shipment  BY <1>4, Types
<1>6. s.product \in Products /\ s.from \in Places /\ s.to \in Places
  BY <1>1 DEF Prepared
<1>7. /\ shipments' = [shipments EXCEPT ![t] = ship]
      /\ products' = [products EXCEPT ![s.product] = new]
      /\ FollowUp(r, MoveKind(s.from, s.to), <<>>,
                  Settlement(s, shipments[t].status))
  BY <1>2
<1> HIDE DEF s, joins
<1>8. shipments[t].products \in Seq(Products)  BY <1>5 DEF Shipment
<1>9. row \in Seq(Products)  BY <1>6, <1>8
<1> HIDE DEF row
<1>10. ship \in Shipment  BY <1>5, <1>9 DEF Shipment
<1> HIDE DEF ship
<1>11. shipments' \in Seq(Shipment)  BY <1>7, <1>10, SeqUpdate, Types
<1>12. prod \in Product  BY <1>6, CommittedType, Types
<1> HIDE DEF prod
<1>13. new \in Product  BY <1>12, ConversionTypes
<1> HIDE DEF new
<1>14. products' \in [Products -> Product]  BY <1>6, <1>7, <1>13, ProductWrite
<1>15. MoveKind(s.from, s.to) \in OperationKinds  BY <1>6, MoveKindType
<1>16. Settlement(s, shipments[t].status) \in Seq(Settlements)
  BY <1>1, SettlementType DEF s
<1>17. <<>> \in Seq(Tasks)  OBVIOUS
<1>18. requests' \in [Requests -> RequestStates] /\ RequestsFit'
  BY <1>7, <1>15, <1>16, <1>17, FollowUpType
<1> QED  BY <1>3, <1>11, <1>14, <1>18, Types, TypeSteps

LEMMA CreateType ==
    ASSUME TypeInv, NEW r \in Requests, Create(r)
    PROVE  TypeInv'
<1> DEFINE s  == requests[r]
           first == IF s.fromComplete /\ s.toComplete THEN InPreparation ELSE OnHold
           sh == [status |-> first, isDeleted |-> FALSE,
                  origin |-> s.from, destination |-> s.to,
                  date |-> s.date, originCalled |-> s.fromCalled,
                  destinationCalled |-> s.toCalled,
                  originComplete |-> s.fromComplete,
                  destinationComplete |-> s.toComplete,
                  products |-> <<s.product>>]
           prod == Committed(s.product, s.from, s.to, TRUE)
           new  == IF sh.status = InPreparation THEN ToInTransit(prod) ELSE prod
<1>1. s \in Prepared  BY PcTypes DEF TypeInv, Create
<1>2. /\ shipments' = Append(shipments, sh)
      /\ products' = [products EXCEPT ![s.product] = new]
      /\ flagged' = [x \in DOMAIN flagged |->
           flagged[x] \/ x \in Ends(sh) \cap Members]
      /\ FollowUp(r, MoveKind(s.from, s.to), OfficeTasks(sh),
                Settlement(s, sh.status))
      /\ UNCHANGED <<complete, called, events, renamed>>
  BY DEF Create
<1>3. /\ s.product \in Products /\ s.from \in Places /\ s.to \in Places
      /\ s.date \in Dates /\ s.fromComplete \in BOOLEAN /\ s.toComplete \in BOOLEAN
      /\ s.fromCalled \in Called /\ s.toCalled \in Called
  BY <1>1 DEF Prepared
<1> HIDE DEF s
<1>4. first \in ShipmentStatuses  BY DEF ShipmentStatuses
<1> HIDE DEF first
<1>5. <<s.product>> \in Seq(Products)  BY <1>3
<1>6. sh \in Shipment  BY <1>3, <1>4, <1>5 DEF Shipment
<1> HIDE DEF sh
<1>7. shipments' \in Seq(Shipment)  BY <1>2, <1>6, Types
<1>8. prod \in Product  BY <1>3, CommittedType, Types
<1> HIDE DEF prod
<1>9. new \in Product  BY <1>8, ConversionTypes
<1> HIDE DEF new
<1>10. products' \in [Products -> Product]  BY <1>2, <1>3, <1>9, ProductWrite
<1>11. flagged' \in [Members \cup Offices -> BOOLEAN]  BY <1>2, Types
<1>12. MoveKind(s.from, s.to) \in OperationKinds  BY <1>3, MoveKindType
<1>13. Settlement(s, sh.status) \in Seq(Settlements)
  BY <1>1, SettlementType DEF s
<1>14. OfficeTasks(sh) \in Seq(Tasks)  BY <1>6, TaskTypes
<1>15. requests' \in [Requests -> RequestStates] /\ RequestsFit'
  BY <1>2, <1>12, <1>13, <1>14, FollowUpType
<1> QED  BY <1>2, <1>7, <1>10, <1>11, <1>15, Types, TypeSteps

LEMMA SettleType ==
    ASSUME TypeInv, NEW r \in Requests, Settle(r)
    PROVE  TypeInv'
<1> DEFINE todo == requests[r].settle[1]
           prod == [holders |-> Moved(todo.product, todo.from, todo.to),
                    status |-> todo.status,
                    activeShipment |-> TRUE, fp_shipment |-> TRUE]
           kept == [products[todo.product] EXCEPT !.status = todo.status]
<1>1. requests[r].pc = "followUp" /\ requests[r].tasks = <<>>  BY DEF Settle
<1>2. requests[r].settle \in Seq(Settlements) /\ requests[r].settle # <<>>
  BY <1>1, PcTypes DEF TypeInv, Following, RequestsFit, Fitting
<1>3. todo \in Settlements  BY <1>2
<1>4. /\ todo.product \in Products /\ todo.from \in Places /\ todo.to \in Places
      /\ todo.status \in ProductStatuses /\ todo.toFlagged \in BOOLEAN
  BY <1>3 DEF Settlements
<1>5. /\ Become(r, Idle) /\ UNCHANGED <<shipments, complete, called, events, renamed>>
      /\ IF Misses(todo) \/ todo.to \in Pool
         THEN /\ products' = IF Misses(todo) THEN products
                             ELSE [products EXCEPT ![todo.product] = kept]
              /\ UNCHANGED flagged
         ELSE /\ products' = [products EXCEPT ![todo.product] = prod]
              /\ flagged' = [flagged EXCEPT ![todo.to] = @ \/ ~todo.toFlagged]
  BY DEF Settle
<1> HIDE DEF todo
<1>6. Moved(todo.product, todo.from, todo.to) \in SUBSET Places
  BY <1>4, MovedType, Types
<1>7. prod \in Product  BY <1>4, <1>6 DEF Product
<1>8. products[todo.product] \in Product  BY <1>4, Types
<1>9. kept \in Product  BY <1>4, <1>8 DEF Product
<1> HIDE DEF prod, kept
<1>10. products' \in [Products -> Product]
  BY <1>4, <1>5, <1>7, <1>9, ProductWrite, Types
<1>11. flagged' \in [Members \cup Offices -> BOOLEAN]  BY <1>4, <1>5, Types
<1>12. requests' \in [Requests -> RequestStates] /\ RequestsFit'
  BY <1>5, BecomeType, FittingTypes
<1> QED  BY <1>5, <1>10, <1>11, <1>12, Types, TypeSteps

LEMMA CancelType ==
    ASSUME TypeInv, NEW r \in Requests, Cancel(r)
    PROVE  TypeInv'
<1> DEFINE s     == requests[r]
           ship  == [shipments[s.shipment] EXCEPT !.status = Cancelled]
           tasks == OfficeTasks(s.seen)
                      \o ProductTasks("release", s.seen)
                      \o MemberTasks(s.seen)
<1>1. s \in Loaded  BY PcTypes DEF TypeInv, Cancel
<1>2. /\ shipments' = [shipments EXCEPT ![s.shipment] = ship]
      /\ FollowUp(r, "cancel", tasks, <<>>)
      /\ UNCHANGED <<products, flagged, complete, called, events, renamed>>
  BY DEF Cancel
<1> HIDE DEF s
<1>3. s.seen \in Shipment  BY <1>1 DEF Loaded, s
<1>4. ASSUME s.shipment \in DOMAIN shipments PROVE ship \in Shipment
  <2>1. shipments[s.shipment] \in Shipment  BY <1>4, Types
  <2> QED  BY <2>1 DEF Shipment, ShipmentStatuses
<1> HIDE DEF ship
<1>5. shipments' \in Seq(Shipment)  BY <1>2, <1>4, SeqUpdate, Types
<1>6. tasks \in Seq(Tasks)
  <2>1. OfficeTasks(s.seen) \in Seq(Tasks)  BY <1>3, TaskTypes
  <2>2. MemberTasks(s.seen) \in Seq(Tasks)  BY <1>3, TaskTypes
  <2>3. ProductTasks("release", s.seen) \in Seq(Tasks)  BY <1>3, TaskTypes
  <2> QED  BY <2>1, <2>2, <2>3
<1> HIDE DEF tasks
<1>7. "cancel" \in OperationKinds  BY DEF OperationKinds
<1>8. requests' \in [Requests -> RequestStates] /\ RequestsFit'
  <2>1. <<>> \in Seq(Settlements)  OBVIOUS
  <2> QED  BY <1>2, <1>6, <1>7, <2>1, FollowUpType
<1> QED  BY <1>2, <1>5, <1>8, Types, TypeSteps

LEMMA SetStatusType ==
    ASSUME TypeInv, NEW r \in Requests, SetStatus(r)
    PROVE  TypeInv'
<1> DEFINE s == requests[r]
<1>1. s \in Loaded  BY PcTypes DEF TypeInv, SetStatus
<1>2. UNCHANGED <<products, flagged, complete, called, events, renamed>>  BY DEF SetStatus
<1>3. PICK new \in SetStatuses :
         /\ shipments' = [shipments EXCEPT ![s.shipment].status =
                IF new # s.seen.status THEN new ELSE @]
         /\ FollowUp(r, "setStatus",
                OfficeTasks(s.seen)
                  \o (IF new \in ActiveStatuses THEN <<>> ELSE
                        ProductTasks(IF new = Received THEN "receive"
                                                       ELSE "release", s.seen)
                          \o MemberTasks(s.seen)), <<>>)
  BY DEF SetStatus
<1> DEFINE status == IF new # s.seen.status THEN new
                     ELSE shipments[s.shipment].status
           ship   == [shipments[s.shipment] EXCEPT !.status = status]
           kind   == IF new = Received THEN "receive" ELSE "release"
           rest   == IF new \in ActiveStatuses THEN <<>> ELSE
                       ProductTasks(kind, s.seen)
                         \o MemberTasks(s.seen)
           tasks  == OfficeTasks(s.seen) \o rest
<1>4. /\ shipments' = [shipments EXCEPT ![s.shipment] = ship]
      /\ FollowUp(r, "setStatus", tasks, <<>>)
  BY <1>3
<1> HIDE DEF s
<1>5. s.seen \in Shipment  BY <1>1 DEF Loaded, s
<1>6. ASSUME s.shipment \in DOMAIN shipments PROVE ship \in Shipment
  <2>1. shipments[s.shipment] \in Shipment  BY <1>6, Types
  <2>2. status \in ShipmentStatuses
    BY <2>1, ConstantsAssumption DEF Shipment, ConstantsAssumption
  <2> HIDE DEF status
  <2> QED  BY <2>1, <2>2 DEF Shipment
<1> HIDE DEF ship
<1>7. shipments' \in Seq(Shipment)  BY <1>4, <1>6, SeqUpdate, Types
<1>8. tasks \in Seq(Tasks)
  <2>1. OfficeTasks(s.seen) \in Seq(Tasks)  BY <1>5, TaskTypes
  <2>2. MemberTasks(s.seen) \in Seq(Tasks)  BY <1>5, TaskTypes
  <2>3. kind \in {"receive", "release"}  OBVIOUS
  <2> HIDE DEF kind
  <2>4. ProductTasks(kind, s.seen) \in Seq(Tasks)  BY <1>5, <2>3, TaskTypes
  <2>5. rest \in Seq(Tasks)  BY <2>2, <2>4
  <2> HIDE DEF rest
  <2> QED  BY <2>1, <2>5
<1> HIDE DEF tasks
<1>9. "setStatus" \in OperationKinds  BY DEF OperationKinds
<1>10. requests' \in [Requests -> RequestStates] /\ RequestsFit'
  <2>1. <<>> \in Seq(Settlements)  OBVIOUS
  <2> QED  BY <1>4, <1>8, <1>9, <2>1, FollowUpType
<1> QED  BY <1>2, <1>7, <1>10, Types, TypeSteps

LEMMA FindTargetType ==
    ASSUME TypeInv, NEW r \in Requests, FindTarget(r)
    PROVE  TypeInv'
<1> DEFINE s == requests[r]
           others(date) ==
             Consolidatable(s.seen.origin, s.seen.originCalled,
                            s.seen.destination, s.seen.destinationCalled, date)
               \ {s.shipment}
           alone(date) == [pc |-> "redating", shipment |-> s.shipment,
                           seen |-> s.seen, date |-> date]
           joined(date, t) ==
             [pc |-> "merging", shipment |-> s.shipment, seen |-> s.seen,
              date |-> date, target |-> t,
              targetProducts |-> shipments[t].products]
<1>1. s \in Loaded  BY PcTypes DEF TypeInv, FindTarget
<1>2. UNCHANGED <<shipments, products, flagged, complete, called, events, renamed>>
  BY DEF FindTarget
<1>3. PICK date \in Dates :
         \/ Become(r, alone(date))
         \/ \E t \in others(date) : Become(r, joined(date, t))
  BY DEF FindTarget
<1> HIDE DEF s
<1>4. s.shipment \in Nat /\ s.seen \in Shipment  BY <1>1 DEF Loaded, s
<1>5. ASSUME Become(r, alone(date))
      PROVE  requests' \in [Requests -> RequestStates] /\ RequestsFit'
  <2>1. alone(date) \in Redating  BY <1>4 DEF Redating
  <2> HIDE DEF alone
  <2>2. alone(date) \in RequestStates /\ Fitting(alone(date))
    BY <2>1, FittingTypes
  <2> QED  BY <1>5, <2>2, BecomeType
<1>6. ASSUME NEW t \in others(date), Become(r, joined(date, t))
      PROVE  requests' \in [Requests -> RequestStates] /\ RequestsFit'
  <2>1. t \in DOMAIN shipments  BY DEF Consolidatable
  <2>2. t \in Nat /\ shipments[t] \in Shipment  BY <2>1, Types
  <2>3. shipments[t].products \in Seq(Products)  BY <2>2 DEF Shipment
  <2>4. joined(date, t) \in Merging  BY <1>4, <2>2, <2>3 DEF Merging
  <2> HIDE DEF joined
  <2>5. joined(date, t) \in RequestStates /\ Fitting(joined(date, t))
    BY <2>4, FittingTypes
  <2> QED  BY <1>6, <2>5, BecomeType
<1>7. requests' \in [Requests -> RequestStates] /\ RequestsFit'
  BY <1>3, <1>5, <1>6
<1> QED  BY <1>2, <1>7, Types, TypeSteps

LEMMA SaveTargetType ==
    ASSUME TypeInv, NEW r \in Requests, SaveTarget(r)
    PROVE  TypeInv'
<1> DEFINE s     == requests[r]
           lacks == Carried(s.seen) \ Range(s.targetProducts)
           next  == [pc |-> "merged", shipment |-> s.shipment, date |-> s.date]
<1>1. s \in Merging  BY PcTypes DEF TypeInv, SaveTarget
<1>2. UNCHANGED <<products, flagged, complete, called, events, renamed>>  BY DEF SaveTarget
<1>3. \/ /\ \E n \in 0 .. Len(s.seen.products) : \E adds \in [1 .. n -> lacks] :
              shipments' = [shipments EXCEPT ![s.target].products = @ \o adds]
         /\ Become(r, next)
      \/ UNCHANGED shipments /\ Become(r, Idle)
  BY DEF SaveTarget
<1> HIDE DEF s
<1>4. /\ s.shipment \in Nat /\ s.seen \in Shipment /\ s.date \in Dates
      /\ s.target \in Nat
  BY <1>1 DEF Merging, s
<1>5. next \in Merged  BY <1>4 DEF Merged
<1> HIDE DEF next
<1>6. next \in RequestStates /\ Fitting(next)  BY <1>5, FittingTypes
<1>7. requests' \in [Requests -> RequestStates] /\ RequestsFit'
  BY <1>3, <1>6, BecomeType, FittingTypes
<1>8. ASSUME NEW n \in 0 .. Len(s.seen.products), NEW adds \in [1 .. n -> lacks],
             shipments' = [shipments EXCEPT ![s.target].products = @ \o adds]
      PROVE  shipments' \in Seq(Shipment)
  <2> DEFINE ship == [shipments[s.target] EXCEPT
                        !.products = shipments[s.target].products \o adds]
  <2>1. s.seen.products \in Seq(Products)  BY <1>4 DEF Shipment
  <2>2. n \in Nat  BY <2>1
  <2>3. lacks \subseteq Products
    BY <2>1 DEF Carried, Range
  <2> HIDE DEF lacks
  <2>4. adds \in Seq(Products)
    <3>1. adds \in [1 .. n -> Products]  BY <2>3
    <3> QED  BY <2>2, <3>1
  <2>5. ASSUME s.target \in DOMAIN shipments PROVE ship \in Shipment
    <3>1. shipments[s.target] \in Shipment  BY <2>5, Types
    <3>2. shipments[s.target].products \in Seq(Products)  BY <3>1 DEF Shipment
    <3>3. shipments[s.target].products \o adds \in Seq(Products)
      BY <2>4, <3>2
    <3> QED  BY <3>1, <3>3 DEF Shipment
  <2>6. shipments' = [shipments EXCEPT ![s.target] = ship]  BY <1>8
  <2> HIDE DEF ship
  <2> QED  BY <2>5, <2>6, SeqUpdate, Types
<1>9. shipments' \in Seq(Shipment)  BY <1>3, <1>8, Types
<1> QED  BY <1>2, <1>7, <1>9, Types, TypeSteps

LEMMA DeleteMergedType ==
    ASSUME TypeInv, NEW r \in Requests, DeleteMerged(r)
    PROVE  TypeInv'
<1> DEFINE s    == requests[r]
           ship == [shipments[s.shipment] EXCEPT !.isDeleted = TRUE,
                                                 !.date = s.date]
<1>1. s \in Merged  BY PcTypes DEF TypeInv, DeleteMerged
<1>2. /\ shipments' = [shipments EXCEPT ![s.shipment] = ship]
      /\ Become(r, Idle)
      /\ UNCHANGED <<products, flagged, complete, called, events, renamed>>
  BY DEF DeleteMerged
<1>3. s.date \in Dates  BY <1>1 DEF Merged
<1> HIDE DEF s
<1>4. ASSUME s.shipment \in DOMAIN shipments PROVE ship \in Shipment
  <2>1. shipments[s.shipment] \in Shipment  BY <1>4, Types
  <2> QED  BY <1>3, <2>1 DEF Shipment
<1> HIDE DEF ship
<1>5. shipments' \in Seq(Shipment)  BY <1>2, <1>4, SeqUpdate, Types
<1>6. requests' \in [Requests -> RequestStates] /\ RequestsFit'
  BY <1>2, BecomeType, FittingTypes
<1> QED  BY <1>2, <1>5, <1>6, Types, TypeSteps

LEMMA RedateType ==
    ASSUME TypeInv, NEW r \in Requests, Redate(r)
    PROVE  TypeInv'
<1> DEFINE s      == requests[r]
           new    == StatusFromDetails(s.seen)
           ship   == [shipments[s.shipment] EXCEPT
                        !.date = s.date,
                        !.status = IF new # s.seen.status THEN new ELSE @]
           rest   == IF new = InPreparation
                     THEN ProductTasks("toInTransit", s.seen) ELSE <<>>
           tasks  == IF new = s.seen.status THEN <<>> ELSE
                       OfficeTasks(s.seen) \o rest
<1>1. s \in Redating  BY PcTypes DEF TypeInv, Redate
<1>2. /\ shipments' = [shipments EXCEPT ![s.shipment] = ship]
      /\ FollowUp(r, "reschedule", tasks, <<>>)
      /\ UNCHANGED <<products, flagged, complete, called, events, renamed>>
  <2>1. shipments' = [shipments EXCEPT ![s.shipment] = ship]  BY DEF Redate
  <2>2. FollowUp(r, "reschedule", tasks, <<>>)  BY DEF Redate
  <2>3. UNCHANGED <<products, flagged, complete, called, events, renamed>>  BY DEF Redate
  <2> QED  BY <2>1, <2>2, <2>3
<1>3. s.date \in Dates /\ s.seen \in Shipment  BY <1>1 DEF Redating
<1> HIDE DEF s
<1>4. new \in ShipmentStatuses  BY StatusTypes
<1> HIDE DEF new
<1>5. ASSUME s.shipment \in DOMAIN shipments PROVE ship \in Shipment
  <2>1. shipments[s.shipment] \in Shipment  BY <1>5, Types
  <2> QED  BY <1>3, <1>4, <2>1 DEF Shipment
<1> HIDE DEF ship
<1>6. shipments' \in Seq(Shipment)  BY <1>2, <1>5, SeqUpdate, Types
<1>7. tasks \in Seq(Tasks)
  <2>1. OfficeTasks(s.seen) \in Seq(Tasks)  BY <1>3, TaskTypes
  <2>2. ProductTasks("toInTransit", s.seen) \in Seq(Tasks)  BY <1>3, TaskTypes
  <2>3. rest \in Seq(Tasks)  BY <2>2
  <2> HIDE DEF rest
  <2> QED  BY <2>1, <2>3
<1> HIDE DEF tasks
<1>8. "reschedule" \in OperationKinds  BY DEF OperationKinds
<1>9. requests' \in [Requests -> RequestStates] /\ RequestsFit'
  <2>1. <<>> \in Seq(Settlements)  OBVIOUS
  <2> QED  BY <1>2, <1>7, <1>8, <2>1, FollowUpType
<1> QED  BY <1>2, <1>6, <1>9, Types, TypeSteps

LEMMA CountType ==
    ASSUME TypeInv, NEW r \in Requests, Count(r)
    PROVE  TypeInv'
<1>1. Working(r, {"office", "member", "owner", "unlock"})  BY DEF Count
<1>2. \/ Got(r, [some |-> TRUE]) \/ Got(r, [some |-> FALSE]) \/ Done(r, <<>>)
  BY <1>1, WorkingType DEF Count
<1>3. UNCHANGED <<shipments, products, flagged, complete, called, events, renamed>>  BY DEF Count
<1>4. requests[r].pc = "followUp" /\ requests[r].tasks # <<>>
        /\ requests[r].tasks[1].kind \in {"office", "member", "owner", "unlock"}
  BY <1>1, WorkingType
<1>5. ASSUME NEW some \in BOOLEAN, Got(r, [some |-> some])
      PROVE  requests' \in [Requests -> RequestStates] /\ RequestsFit'
  <2> DEFINE reading == [some |-> some]
  <2>1. reading \in [some : BOOLEAN]  OBVIOUS
  <2>2. Got(r, reading)  BY <1>5
  <2> HIDE DEF reading
  <2>3. reading \in Readings  BY <2>1 DEF Readings
  <2>4. ReadingFits(requests[r].tasks[1].kind, reading)
    BY <1>4, <2>1 DEF ReadingFits
  <2> QED  BY <1>4, <2>2, <2>3, <2>4, GotType
<1>6. ASSUME Done(r, <<>>)
      PROVE  requests' \in [Requests -> RequestStates] /\ RequestsFit'
  <2>1. <<>> \in Seq(Tasks)  OBVIOUS
  <2> QED  BY <1>4, <1>6, <2>1, DoneType
<1>7. requests' \in [Requests -> RequestStates] /\ RequestsFit'
  BY <1>2, <1>5, <1>6
<1> QED  BY <1>3, <1>7, Types, TypeSteps

LEMMA WriteFlagType ==
    ASSUME TypeInv, NEW r \in Requests, WriteFlag(r)
    PROVE  TypeInv'
<1> DEFINE x    == HeadTask(r).on
           some == IF Reached(HeadTask(r)) THEN requests[r].got[1].some
                                           ELSE flagged[x]
           free == [products[x] EXCEPT !.activeShipment = FALSE]
<1>1. Working(r, {"office", "member", "owner", "unlock"}) /\ requests[r].got # <<>>
  BY DEF WriteFlag
<1>2. /\ requests[r].pc = "followUp" /\ requests[r].tasks # <<>>
      /\ HeadTask(r) \in Tasks
      /\ HeadTask(r).kind \in {"office", "member", "owner", "unlock"}
      /\ ReadingFits(HeadTask(r).kind, requests[r].got[1])
  BY <1>1, WorkingType
<1>3. x \in DOMAIN flagged => some \in BOOLEAN  BY <1>2, Types DEF ReadingFits
<1>4. HeadTask(r).kind = "unlock" => x \in Products  BY <1>2 DEF Tasks
<1>5. /\ \/ /\ HeadTask(r).kind = "unlock"
            /\ products' = [products EXCEPT ![x] = free] /\ UNCHANGED flagged
         \/ flagged' = [flagged EXCEPT ![x] = some] /\ UNCHANGED products
      /\ Done(r, <<>>)
      /\ UNCHANGED <<shipments, complete, called, events, renamed>>
  BY DEF WriteFlag
<1> HIDE DEF x, some
<1>6. ASSUME HeadTask(r).kind = "unlock" PROVE free \in Product
  <2>1. products[x] \in Product  BY <1>4, <1>6, Types
  <2> QED  BY <2>1 DEF Product
<1> HIDE DEF free
<1>7. products' \in [Products -> Product]
  BY <1>4, <1>5, <1>6, ProductWrite, Types
<1>8. flagged' \in [Members \cup Offices -> BOOLEAN]  BY <1>3, <1>5, Types
<1>9. requests' \in [Requests -> RequestStates] /\ RequestsFit'
  <2>1. <<>> \in Seq(Tasks)  OBVIOUS
  <2> QED  BY <1>2, <1>5, <2>1, DoneType
<1> QED  BY <1>5, <1>7, <1>8, <1>9, Types, TypeSteps

LEMMA FindHolderType ==
    ASSUME TypeInv, NEW r \in Requests, FindHolder(r)
    PROVE  TypeInv'
<1>1. Working(r, {"holder"})  BY DEF FindHolder
<1>2. requests[r].pc = "followUp" /\ requests[r].tasks # <<>>
  BY <1>1, WorkingType
<1>3. UNCHANGED <<shipments, products, flagged, complete, called, events, renamed>>
  BY DEF FindHolder
<1>4. \/ Done(r, <<>>)
      \/ \E m \in Members :
            Done(r, <<[kind |-> "owner", on |-> m, email |-> called[m].email]>>)
  BY DEF FindHolder
<1>5. ASSUME NEW m \in Members
      PROVE  <<[kind |-> "owner", on |-> m, email |-> called[m].email]>> \in Seq(Tasks)
  <2>1. called[m].email \in Names  BY Types DEF Called
  <2>2. [kind |-> "owner", on |-> m, email |-> called[m].email] \in Tasks
    BY <2>1 DEF Tasks
  <2> QED  BY <2>2
<1>6. <<>> \in Seq(Tasks)  OBVIOUS
<1>7. requests' \in [Requests -> RequestStates] /\ RequestsFit'
  BY <1>2, <1>4, <1>5, <1>6, DoneType
<1> QED  BY <1>3, <1>7, Types, TypeSteps

LEMMA ReadProductType ==
    ASSUME TypeInv, NEW r \in Requests, ReadProduct(r)
    PROVE  TypeInv'
<1> DEFINE p == HeadTask(r).on
<1>1. Working(r, {"release", "receive", "toInTransit"})  BY DEF ReadProduct
<1>2. /\ requests[r].pc = "followUp" /\ requests[r].tasks # <<>>
      /\ HeadTask(r) = requests[r].tasks[1] /\ HeadTask(r) \in Tasks
      /\ HeadTask(r).kind \in {"release", "receive", "toInTransit"}
  BY <1>1, WorkingType
<1>3. p \in Products  BY <1>2 DEF Tasks
<1>4. UNCHANGED <<shipments, products, flagged, complete, called, events, renamed>>
  BY DEF ReadProduct
<1>5. PICK x \in Visible(p) :
        Got(r, [at |-> x, email |-> CalledAt(x).email, product |-> products[p]])
  BY DEF ReadProduct
<1> HIDE DEF p
<1> DEFINE reading == [at |-> x, email |-> CalledAt(x).email, product |-> products[p]]
<1>6. reading \in [at : Places, email : Names, product : Product]
  <2>1. CalledAt(x).email \in Names  BY CalledType, Types DEF Called
  <2> QED  BY <1>3, <2>1, VisibleType, Types
<1>7. Got(r, reading)  BY <1>5
<1> HIDE DEF reading
<1>8. reading \in Readings  BY <1>6 DEF Readings
<1>9. ReadingFits(requests[r].tasks[1].kind, reading)
  BY <1>2, <1>6 DEF ReadingFits
<1>10. requests' \in [Requests -> RequestStates] /\ RequestsFit'
  BY <1>2, <1>7, <1>8, <1>9, GotType
<1> QED  BY <1>4, <1>10, Types, TypeSteps

LEMMA WriteProductType ==
    ASSUME TypeInv, NEW r \in Requests, WriteProduct(r)
    PROVE  TypeInv'
<1> DEFINE p      == HeadTask(r).on
           kind   == HeadTask(r).kind
           got    == requests[r].got[1]
           next   == IF got.at \in Members
                     THEN [kind |-> "owner", on |-> got.at, email |-> got.email]
                     ELSE [kind |-> "holder", on |-> p]
           unlock == <<[kind |-> "unlock", on |-> p], next>>
           more   == IF kind = "release" THEN unlock ELSE <<>>
           saved  == Saved(kind, products[p], got)
<1>1. Working(r, {"release", "receive", "toInTransit"}) /\ requests[r].got # <<>>
  BY DEF WriteProduct
<1>2. /\ requests[r].pc = "followUp" /\ requests[r].tasks # <<>>
      /\ HeadTask(r) \in Tasks
      /\ HeadTask(r).kind \in {"release", "receive", "toInTransit"}
      /\ ReadingFits(HeadTask(r).kind, requests[r].got[1])
  BY <1>1, WorkingType
<1>3. p \in Products  BY <1>2 DEF Tasks
<1>4. got \in [at : Places, email : Names, product : Product]
  BY <1>2 DEF ReadingFits
<1>5. /\ products' = products \/ products' = [products EXCEPT ![p] = saved]
      /\ Done(r, <<>>) \/ Done(r, more) \/ Become(r, Idle)
      /\ UNCHANGED <<shipments, flagged, complete, called, events, renamed>>
  BY DEF WriteProduct
<1> HIDE DEF p, kind, got
<1>6. saved \in Product  BY <1>3, <1>4, SavedType, Types
<1> HIDE DEF saved
<1>7. products' \in [Products -> Product]
  BY <1>3, <1>5, <1>6, ProductWrite, Types
<1>8. more \in Seq(Tasks)
  <2>1. [kind |-> "unlock", on |-> p] \in Tasks  BY <1>3 DEF Tasks
  <2>2. next \in Tasks  BY <1>3, <1>4 DEF Tasks
  <2> HIDE DEF next
  <2> QED  BY <2>1, <2>2
<1> HIDE DEF more
<1>9. <<>> \in Seq(Tasks)  OBVIOUS
<1>10. requests' \in [Requests -> RequestStates] /\ RequestsFit'
  BY <1>2, <1>5, <1>8, <1>9, DoneType, BecomeType, FittingTypes
<1> QED  BY <1>5, <1>7, <1>10, Types, TypeSteps

LEMMA SubjectType ==
    ASSUME TypeInv, NEW e \in AddressEvents
    PROVE  /\ (IF "member" \in DOMAIN e THEN complete[e.member] ELSE e.complete)
                  \in BOOLEAN
           /\ Subject(e) \in Members \cup Offices
<1>1. CASE e \in [member : Members, email : Names]
  <2>1. e.member \in Members /\ "member" \in DOMAIN e  BY <1>1
  <2>2. complete[e.member] \in BOOLEAN  BY <2>1, Types
  <2> QED  BY <2>1, <2>2 DEF Subject
<1>2. CASE e \in [office : Offices, complete : BOOLEAN]
  <2>1. "member" \notin DOMAIN e /\ e.complete \in BOOLEAN /\ e.office \in Offices
    BY <1>2
  <2> QED  BY <2>1 DEF Subject
<1> QED  BY <1>1, <1>2 DEF AddressEvents

LEMMA HandleEventType ==
    ASSUME TypeInv, HandleEvent
    PROVE  TypeInv'
<1>1. PICK i \in DOMAIN events : HandleEvent!(i)  BY DEF HandleEvent
<1> DEFINE e          == events[i]
           x          == Subject(e)
           isComplete == IF "member" \in DOMAIN e THEN complete[e.member]
                                                  ELSE e.complete
           new(s)     == IF Concerns(e, shipments[s])
                         THEN Refreshed(shipments[s], x, isComplete)
                         ELSE shipments[s]
<1>2. shipments' = [s \in DOMAIN shipments |-> new(s)]  BY <1>1
<1>3. events' = [j \in 1 .. Len(events) - 1 |->
                   events[IF j < i THEN j ELSE j + 1]]
  BY <1>1
<1>4. flagged' \in [DOMAIN flagged -> BOOLEAN]
  <2>1. \A y \in DOMAIN flagged :
           flagged'[y] = HasActiveShipments(y) \/ flagged'[y] = flagged[y]
    BY <1>1
  <2>2. \A y : HasActiveShipments(y) \in BOOLEAN  BY DEF HasActiveShipments
  <2>3. \A y \in DOMAIN flagged : flagged[y] \in BOOLEAN  BY Types
  <2>4. \A y \in DOMAIN flagged : flagged'[y] \in BOOLEAN  BY <2>1, <2>2, <2>3
  <2>5. \E f : flagged' = [y \in DOMAIN flagged |-> f[y]]
    <3>1. flagged' = [y \in DOMAIN flagged |-> flagged'[y]]  BY <1>1
    <3> QED  BY <3>1
  <2> QED  BY <2>4, <2>5
<1>5. products' \in [Products -> Product]
  <2>1. \A p \in Products : products[p] \in Product  BY Types
  <2>2. \A p \in Products :
           \/ products'[p] = products[p]
           \/ products'[p] = ToInTransit(products[p])
           \/ products'[p] = ToMissingData(products[p])
    BY <1>1
  <2>3. \A p \in Products : products'[p] \in Product
    BY <2>1, <2>2, ConversionTypes
  <2>4. \E f : products' = [p \in Products |-> f[p]]
    <3>1. products' = [p \in Products |-> products'[p]]  BY <1>1
    <3> QED  BY <3>1
  <2> QED  BY <2>3, <2>4
<1>6. UNCHANGED <<complete, called, requests, renamed>>  BY <1>1
<1>7. e \in AddressEvents  BY Types
<1>8. isComplete \in BOOLEAN  BY <1>7, SubjectType
<1> HIDE DEF e, x, isComplete
<1>9. shipments \in [1 .. Len(shipments) -> Shipment] /\ Len(shipments) \in Nat
  BY Types
<1>10. \A s \in DOMAIN shipments : new(s) \in Shipment
  BY <1>8, <1>9, RefreshedType, Types
<1> HIDE DEF new
<1>11. shipments' \in Seq(Shipment)
  <2>1. shipments' \in [1 .. Len(shipments) -> Shipment]  BY <1>2, <1>9, <1>10
  <2> QED  BY <1>9, <2>1
<1>12. events' \in Seq(AddressEvents)
  <2> DEFINE n == Len(events)
  <2>1. n \in Nat /\ i \in 1 .. n /\ \A j \in 1 .. n : events[j] \in AddressEvents
    BY Types
  <2> HIDE DEF n
  <2>2. \A j \in 1 .. n - 1 : events[IF j < i THEN j ELSE j + 1] \in AddressEvents
    BY <2>1
  <2>3. events' \in [1 .. n - 1 -> AddressEvents]  BY <1>3, <2>2 DEF n
  <2>4. n - 1 \in Nat  BY <2>1
  <2> QED  BY <2>3, <2>4
<1>13. flagged' \in [Members \cup Offices -> BOOLEAN]  BY <1>4, Types
<1> QED  BY <1>5, <1>6, <1>11, <1>12, <1>13, Types, TypeSteps, RequestsKept

-----------------------------------------------------------------------------
\* Together.

LEMMA InitType == Init => TypeInv
<1> SUFFICES ASSUME Init PROVE TypeInv  OBVIOUS
<1>1. PICK home \in [Products -> Places] :
          products = [p \in Products |->
              [holders |-> {home[p]}, status |-> RestStatus(home[p]),
               activeShipment |-> FALSE, fp_shipment |-> FALSE]]
  BY DEF Init
<1>2. products \in [Products -> Product]  BY <1>1, StatusTypes DEF Product
<1>3. /\ shipments \in Seq(Shipment) /\ events \in Seq(AddressEvents)
      /\ flagged \in [Members \cup Offices -> BOOLEAN]
      /\ complete \in [Members \cup Offices -> BOOLEAN]
      /\ renamed \subseteq Members
  BY DEF Init
<1>5. called \in [Members -> Called]
  BY ConstantsAssumption DEF Init, ConstantsAssumption, Unnamed, Called, Names
<1>4. requests \in [Requests -> RequestStates] /\ RequestsFit
  BY FittingTypes DEF Init, RequestsFit
<1> QED  BY <1>2, <1>3, <1>4, <1>5 DEF TypeInv, TypeOK

LEMMA NextType == TypeInv /\ [Next]_vars => TypeInv'
<1> SUFFICES ASSUME TypeInv, [Next]_vars PROVE TypeInv'  OBVIOUS
<1>1. ASSUME NEW r \in Requests, Arrive(r) PROVE TypeInv'
  BY <1>1, PrepareType, MoveType, LoadType, PatchType, UpdateMemberType,
     CheckOfficeType, UpdateDefaultOfficeType
     DEF Arrive
<1>2. ASSUME NEW r \in Requests, Continue(r) PROVE TypeInv'
  BY <1>2, ConsolidateType, CreateType, SettleType, CancelType, SetStatusType,
     FindTargetType, SaveTargetType, DeleteMergedType, RedateType, CountType,
     WriteFlagType, FindHolderType, ReadProductType, WriteProductType,
     UpdateOfficeType
     DEF Continue
<1>3. ASSUME NEW r \in Requests, Abort(r) \/ Crash(r) PROVE TypeInv'
  BY <1>3, StopType
<1>4. CASE HandleEvent  BY <1>4, HandleEventType
<1>5. CASE UNCHANGED vars  BY <1>5, Types, TypeSteps, RequestsKept DEF vars
<1> QED  BY <1>1, <1>2, <1>3, <1>4, <1>5 DEF Next

\* Every variable keeps its shape, whatever the requests do and however they
\* interleave: no read of a task that has not been read for, no shipment
\* number that is none, no status outside the list.
THEOREM TypeCorrect == Spec => []TypeOK
<1>1. Init => TypeInv  BY InitType
<1>2. TypeInv /\ [Next]_vars => TypeInv'  BY NextType
<1>3. TypeInv => TypeOK  BY DEF TypeInv
<1> QED  BY <1>1, <1>2, <1>3, PTL DEF Spec

-----------------------------------------------------------------------------
\* What the actions do to the shipments.

KeepsStatus(new, old) ==
    /\ new.status = old.status
    /\ new.origin = old.origin /\ new.destination = old.destination
    /\ new.originCalled = old.originCalled
    /\ new.destinationCalled = old.destinationCalled
    /\ new.originComplete = old.originComplete
    /\ new.destinationComplete = old.destinationComplete
    /\ old.isDeleted => new.isDeleted

\* Every shipment keeps its status and its details; one may be new.
StatusesKept ==
    /\ DOMAIN shipments \subseteq DOMAIN shipments'
    /\ \A s \in DOMAIN shipments : KeepsStatus(shipments'[s], shipments[s])

LEMMA Rows ==
    ASSUME TypeInv
    PROVE  /\ shipments \in [1 .. Len(shipments) -> Shipment]
           /\ Len(shipments) \in Nat
           /\ DOMAIN shipments = 1 .. Len(shipments)
           /\ \A s \in DOMAIN shipments : shipments[s] \in Shipment
BY Types

LEMMA ReadersKeep ==
    ASSUME TypeInv, NEW r \in Requests,
           \/ Arrive(r) /\ ~Patch(r)
           \/ Settle(r) \/ FindTarget(r) \/ Count(r) \/ WriteFlag(r)
           \/ FindHolder(r) \/ ReadProduct(r) \/ WriteProduct(r)
           \/ UpdateOffice(r) \/ Abort(r) \/ Crash(r)
    PROVE  UNCHANGED shipments
BY DEF Arrive, Prepare, Move, Load, UpdateMember, CheckOffice,
       UpdateDefaultOffice, Settle, FindTarget, Count, WriteFlag, FindHolder, ReadProduct, WriteProduct, UpdateOffice,
       Abort, Crash

LEMMA ProductsJoin ==
    ASSUME TypeInv, NEW t, NEW row,
           shipments' = [shipments EXCEPT ![t].products = row]
    PROVE  StatusesKept /\ DOMAIN shipments' = DOMAIN shipments
<1>1. DOMAIN shipments' = DOMAIN shipments  OBVIOUS
<1>2. ASSUME NEW s \in DOMAIN shipments
      PROVE  KeepsStatus(shipments'[s], shipments[s])
  <2>1. shipments[s] \in Shipment  BY Rows
  <2>2. shipments'[s] = IF s = t THEN [shipments[s] EXCEPT !.products = row]
                                 ELSE shipments[s]
    OBVIOUS
  <2> QED  BY <2>1, <2>2 DEF KeepsStatus, Shipment
<1> QED  BY <1>1, <1>2 DEF StatusesKept

LEMMA MergersKeep ==
    ASSUME TypeInv, NEW r \in Requests,
           Consolidate(r) \/ SaveTarget(r) \/ DeleteMerged(r)
    PROVE  StatusesKept /\ DOMAIN shipments' = DOMAIN shipments
<1>1. CASE Consolidate(r)
  <2> DEFINE s == requests[r]
  <2>1. PICK t \in Consolidatable(s.from, s.fromCalled, s.to, s.toCalled, s.date) :
           shipments' = [shipments EXCEPT ![t].products =
                IF s.product \notin Carried(shipments[t])
                THEN Append(@, s.product) ELSE @]
    BY <1>1 DEF Consolidate
  <2> DEFINE row == IF s.product \notin Carried(shipments[t])
                    THEN Append(shipments[t].products, s.product)
                    ELSE shipments[t].products
  <2>2. shipments' = [shipments EXCEPT ![t].products = row]  BY <2>1
  <2> HIDE DEF row
  <2> QED  BY <2>2, ProductsJoin
<1>2. CASE SaveTarget(r)
  <2> DEFINE t == requests[r].target
  <2>1. \/ \E adds : shipments' = [shipments EXCEPT ![t].products = @ \o adds]
        \/ UNCHANGED shipments
    BY <1>2 DEF SaveTarget
  <2>2. ASSUME NEW adds, shipments' = [shipments EXCEPT ![t].products = @ \o adds]
        PROVE  StatusesKept /\ DOMAIN shipments' = DOMAIN shipments
    <3> DEFINE row == shipments[t].products \o adds
    <3>1. shipments' = [shipments EXCEPT ![t].products = row]  BY <2>2
    <3> HIDE DEF row
    <3> QED  BY <3>1, ProductsJoin
  <2>3. CASE UNCHANGED shipments  BY <2>3 DEF StatusesKept, KeepsStatus
  <2> QED  BY <2>1, <2>2, <2>3
<1>3. CASE DeleteMerged(r)
  <2> DEFINE t == requests[r].shipment
             d == requests[r].date
  <2>1. shipments' = [shipments EXCEPT ![t].isDeleted = TRUE, ![t].date = d]
    BY <1>3 DEF DeleteMerged
  <2> HIDE DEF t, d
  <2>2. DOMAIN shipments' = DOMAIN shipments  BY <2>1
  <2>3. ASSUME NEW s \in DOMAIN shipments
        PROVE  KeepsStatus(shipments'[s], shipments[s])
    <3>1. shipments[s] \in Shipment  BY Rows
    <3>2. shipments'[s] = IF s = t
             THEN [shipments[s] EXCEPT !.isDeleted = TRUE, !.date = d]
             ELSE shipments[s]
      BY <2>1
    <3> QED  BY <3>1, <3>2 DEF KeepsStatus, Shipment
  <2> QED  BY <2>2, <2>3 DEF StatusesKept
<1> QED  BY <1>1, <1>2, <1>3

LEMMA CreateAppends ==
    ASSUME TypeInv, NEW r \in Requests, Create(r)
    PROVE  /\ StatusesKept
           /\ DOMAIN shipments' = 1 .. Len(shipments) + 1
           /\ LET new == shipments'[Len(shipments) + 1]
              IN  /\ new.status = StatusFromDetails(new)
                  /\ new.status \in EditableStatuses
<1> DEFINE s  == requests[r]
           sh == [status |-> IF s.fromComplete /\ s.toComplete THEN InPreparation
                                                               ELSE OnHold,
                  isDeleted |-> FALSE, origin |-> s.from, destination |-> s.to,
                  date |-> s.date, originCalled |-> s.fromCalled,
                  destinationCalled |-> s.toCalled,
                  originComplete |-> s.fromComplete,
                  destinationComplete |-> s.toComplete,
                  products |-> <<s.product>>]
           n == Len(shipments)
<1>1. shipments' = Append(shipments, sh)  BY DEF Create
<1>2. /\ sh.status = StatusFromDetails(sh)
      /\ sh.status \in EditableStatuses
  BY DEF StatusFromDetails, DetailsComplete, EditableStatuses
<1> HIDE DEF sh
<1>3. /\ DOMAIN shipments' = 1 .. n + 1
      /\ \A i \in 1 .. n : shipments'[i] = shipments[i]
      /\ shipments'[n + 1] = sh
  <2>1. shipments \in Seq(Shipment)  BY Types
  <2> QED  BY <1>1, <2>1
<1>4. StatusesKept  BY <1>3, Rows DEF StatusesKept, KeepsStatus
<1> QED  BY <1>2, <1>3, <1>4

LEMMA EventRefreshes ==
    ASSUME TypeInv, HandleEvent
    PROVE  /\ DOMAIN shipments' = DOMAIN shipments
           /\ \A s \in DOMAIN shipments :
                 \/ shipments'[s] = shipments[s]
                 \/ /\ shipments[s].status \in EditableStatuses
                    /\ shipments'[s] \in Shipment
                    /\ shipments'[s].status = StatusFromDetails(shipments'[s])
                    /\ shipments'[s].status \in EditableStatuses
                    /\ shipments'[s].isDeleted = shipments[s].isDeleted
                    /\ shipments'[s].origin = shipments[s].origin
                    /\ shipments'[s].destination = shipments[s].destination
                    /\ shipments'[s].products = shipments[s].products
<1>1. PICK i \in DOMAIN events : HandleEvent!(i)  BY DEF HandleEvent
<1> DEFINE e          == events[i]
           x          == Subject(e)
           isComplete == IF "member" \in DOMAIN e THEN complete[e.member]
                                                  ELSE e.complete
           new(s)     == IF Concerns(e, shipments[s])
                         THEN Refreshed(shipments[s], x, isComplete)
                         ELSE shipments[s]
<1>2. shipments' = [s \in DOMAIN shipments |-> new(s)]  BY <1>1
<1>3. isComplete \in BOOLEAN  BY SubjectType, Types
<1> HIDE DEF e, x, isComplete
<1>4. ASSUME NEW s \in DOMAIN shipments, Concerns(e, shipments[s])
      PROVE  /\ shipments[s].status \in EditableStatuses
             /\ shipments'[s] = Refreshed(shipments[s], x, isComplete)
  BY <1>2, <1>4 DEF Concerns
<1>5. ASSUME NEW s \in DOMAIN shipments, ~Concerns(e, shipments[s])
      PROVE  shipments'[s] = shipments[s]
  BY <1>2, <1>5
<1>6. \A s \in DOMAIN shipments : shipments[s] \in Shipment  BY Rows
<1> QED  BY <1>2, <1>3, <1>4, <1>5, <1>6, RefreshedIs, Types

\* Cancelling, the superadmin and a new date write the status of the shipment
\* that the request has loaded, and of no other.
LEMMA WritersWriteOne ==
    ASSUME TypeInv, NEW r \in Requests, Cancel(r) \/ SetStatus(r) \/ Redate(r)
    PROVE  /\ DOMAIN shipments' = DOMAIN shipments
           /\ \A s \in DOMAIN shipments :
                 s # requests[r].shipment => shipments'[s] = shipments[s]
<1> DEFINE k == requests[r].shipment
<1>1. CASE Cancel(r)
  <2>1. shipments' = [shipments EXCEPT ![k].status = Cancelled]
    BY <1>1 DEF Cancel
  <2> QED  BY <2>1
<1>2. CASE SetStatus(r)
  <2>1. \E status : shipments' = [shipments EXCEPT ![k].status = status]
    <3>1. PICK new \in SetStatuses :
             shipments' = [shipments EXCEPT ![k].status =
                IF new # requests[r].seen.status THEN new ELSE @]
      BY <1>2 DEF SetStatus
    <3> DEFINE status == IF new # requests[r].seen.status THEN new
                         ELSE shipments[k].status
    <3>2. shipments' = [shipments EXCEPT ![k].status = status]  BY <3>1
    <3> HIDE DEF status
    <3> QED  BY <3>2
  <2> QED  BY <2>1
<1>3. CASE Redate(r)
  <2> DEFINE d   == requests[r].date
             new == StatusFromDetails(requests[r].seen)
  <2>1. shipments' = [shipments EXCEPT ![k].date = d,
           ![k].status = IF new # requests[r].seen.status THEN new ELSE @]
    BY <1>3 DEF Redate
  <2> HIDE DEF k, d, new
  <2> QED  BY <2>1 DEF k
<1> QED  BY <1>1, <1>2, <1>3

-----------------------------------------------------------------------------
\* Where the actions take a request.

Step(r) == Arrive(r) \/ Continue(r) \/ Abort(r) \/ Crash(r)

\* The operations that are over in one step.
Immediate(r) ==
    Move(r) \/ Patch(r) \/ UpdateMember(r) \/ UpdateDefaultOffice(r)

\* Only Load, FindTarget, SaveTarget and CheckOffice lead to a state from
\* which the shipments or an office are written by what was seen before.
LEMMA PcSteps ==
    ASSUME TypeInv, NEW r \in Requests, Step(r)
    PROVE  /\ \A q \in Requests \ {r} : requests'[q] = requests[q]
           /\ \/ Load(r) \/ FindTarget(r) \/ SaveTarget(r) \/ CheckOffice(r)
              \/ requests' = requests /\ Immediate(r)
              \/ requests'[r].pc \in {"idle", "prepared", "followUp"}
<1> DEFINE Others == \A q \in Requests \ {r} : requests'[q] = requests[q]
           Goes   == Others /\ requests'[r].pc \in {"idle", "prepared", "followUp"}
<1>1. ASSUME NEW state, Become(r, state) PROVE Others /\ requests'[r] = state
  BY <1>1, Types DEF Become
<1>2. ASSUME Become(r, Idle) PROVE Goes
  BY <1>1, <1>2 DEF Idle
<1>3. ASSUME NEW op, NEW tasks, NEW settle, FollowUp(r, op, tasks, settle)
      PROVE  Goes
  <2> DEFINE next == [pc |-> "followUp", op |-> op, tasks |-> tasks,
                      settle |-> settle, got |-> <<>>]
  <2>1. Become(r, Idle) \/ Become(r, next)  BY <1>3 DEF FollowUp
  <2>2. next.pc = "followUp"  OBVIOUS
  <2> HIDE DEF next
  <2> QED  BY <1>1, <1>2, <2>1, <2>2
<1>4. ASSUME NEW more, Done(r, more) PROVE Goes
  BY <1>3, <1>4 DEF Done
<1>5. ASSUME NEW reading, NEW kinds, Working(r, kinds), Got(r, reading)
      PROVE  Goes
  <2> DEFINE next == [requests[r] EXCEPT !.got = <<reading>>]
  <2>1. requests[r].pc = "followUp"  BY <1>5, WorkingType
  <2>2. requests[r] \in Following  BY <2>1, PcTypes DEF TypeInv
  <2>3. next.pc = "followUp"  BY <2>1, <2>2 DEF Following
  <2>4. Become(r, next)  BY <1>5 DEF Got
  <2> HIDE DEF next
  <2> QED  BY <1>1, <2>3, <2>4
<1>6. ASSUME Load(r) \/ FindTarget(r) \/ SaveTarget(r) \/ CheckOffice(r)
      PROVE  Others
  <2>1. \E state : Become(r, state)
    BY <1>6 DEF Load, FindTarget, SaveTarget, CheckOffice
  <2> QED  BY <1>1, <2>1
<1>7. CASE Prepare(r)
  <2>1. \E p, from, to, date, from1, to1, up :
           Become(r, [pc |-> "prepared", product |-> p, from |-> from,
                      to |-> to, date |-> date, seen |-> products[p],
                      fromCalled |-> CalledAt(from), toCalled |-> CalledAt(to),
                      fromComplete |-> from1, toComplete |-> to1,
                      toFlagged |-> up])
    BY <1>7 DEF Prepare
  <2>2. PICK state : Become(r, state) /\ state.pc = "prepared"  BY <2>1
  <2> QED  BY <1>1, <2>2
<1>8. CASE Immediate(r)
  <2>1. requests' = requests
    BY <1>8 DEF Immediate, Move, Patch, UpdateMember, UpdateDefaultOffice
  <2> QED  BY <1>8, <2>1
<1>9. CASE Consolidate(r) \/ Create(r) \/ Cancel(r) \/ SetStatus(r) \/ Redate(r)
  <2>1. \E op, tasks, settle : FollowUp(r, op, tasks, settle)
    BY <1>9 DEF Consolidate, Create, Cancel, SetStatus, Redate
  <2> QED  BY <1>3, <2>1
<1>10. CASE \/ Settle(r) \/ DeleteMerged(r) \/ UpdateOffice(r)
            \/ Abort(r) \/ Crash(r)
  <2>1. Become(r, Idle)
    BY <1>10 DEF Settle, DeleteMerged, UpdateOffice, Abort, Crash
  <2> QED  BY <1>2, <2>1
<1>11. CASE Count(r) \/ ReadProduct(r)
  <2>1. \/ \E more : Done(r, more)
        \/ \E kinds, reading : Working(r, kinds) /\ Got(r, reading)
    BY <1>11 DEF Count, ReadProduct
  <2> QED  BY <1>4, <1>5, <2>1
<1>12. CASE WriteFlag(r) \/ FindHolder(r) \/ WriteProduct(r)
  <2>1. (\E more : Done(r, more)) \/ Become(r, Idle)
    BY <1>12 DEF WriteFlag, FindHolder, WriteProduct
  <2> QED  BY <1>2, <1>4, <2>1
<1> QED
  BY <1>6, <1>7, <1>8, <1>9, <1>10, <1>11, <1>12
     DEF Step, Arrive, Continue, Immediate

LEMMA NextSteps ==
    ASSUME [Next]_vars
    PROVE  \/ \E r \in Requests : Step(r)
           \/ HandleEvent /\ UNCHANGED <<complete, called, requests, renamed>>
           \/ UNCHANGED vars
BY DEF Next, Step, HandleEvent

-----------------------------------------------------------------------------
\* The status follows the addresses.

\* No request is on the way to a new date or to a merge.
NoReschedule ==
    \A r \in Requests :
        /\ requests[r].pc \notin {"merging", "redating", "merged"}
        /\ requests[r].pc = "loaded" => requests[r].op # "reschedule"

LEMMA NoRescheduleStep ==
    ASSUME "reschedule" \notin Operations, TypeInv, NoReschedule, [Next]_vars
    PROVE  NoReschedule'
<1>1. ASSUME NEW r \in Requests, Step(r) PROVE NoReschedule'
  <2>1. \A q \in Requests \ {r} : requests'[q] = requests[q]  BY <1>1, PcSteps
  <2>2. CASE Load(r)
    <3>1. PICK op \in {"cancel", "setStatus", "reschedule"}, s \in DOMAIN shipments :
             /\ op \in Operations
             /\ Become(r, [pc |-> "loaded", op |-> op, shipment |-> s,
                           seen |-> shipments[s]])
      BY <2>2 DEF Load, Starts
    <3> DEFINE next == [pc |-> "loaded", op |-> op, shipment |-> s,
                        seen |-> shipments[s]]
    <3>2. next.pc = "loaded" /\ next.op # "reschedule" /\ Become(r, next)
      BY <3>1
    <3> HIDE DEF next
    <3>3. requests'[r] = next  BY <3>2, Types DEF Become
    <3> QED  BY <2>1, <3>2, <3>3 DEF NoReschedule
  <2>3. CASE CheckOffice(r)
    <3>1. PICK o : Become(r, [pc |-> "officeChecked", office |-> o])
      BY <2>3 DEF CheckOffice
    <3>2. requests'[r] = [pc |-> "officeChecked", office |-> o]
      BY <3>1, Types DEF Become
    <3> QED  BY <2>1, <3>2 DEF NoReschedule
  <2>4. CASE FindTarget(r) \/ SaveTarget(r)
    BY <2>4 DEF NoReschedule, FindTarget, SaveTarget
  <2>5. CASE requests' = requests  BY <2>5 DEF NoReschedule
  <2>6. CASE requests'[r].pc \in {"idle", "prepared", "followUp"}
    BY <2>1, <2>6 DEF NoReschedule
  <2> QED  BY <1>1, <2>2, <2>3, <2>4, <2>5, <2>6, PcSteps
<1>2. ASSUME UNCHANGED requests PROVE NoReschedule'
  BY <1>2 DEF NoReschedule
<1> QED  BY <1>1, <1>2, NextSteps DEF vars

\* Every step of a request but a new date, which trusts what it has seen.
LEMMA StatusSteps ==
    ASSUME SetStatuses \cap EditableStatuses = {}, TypeInv, StatusFollowsDetails,
           NEW r \in Requests, Step(r), ~Redate(r)
    PROVE  StatusFollowsDetails'
<1>1. ASSUME StatusesKept, DOMAIN shipments' = DOMAIN shipments
      PROVE  StatusFollowsDetails'
  BY <1>1, Rows DEF StatusFollowsDetails, StatusesKept, KeepsStatus, Editable,
                    StatusFromDetails, DetailsComplete, Shipment
<1>2. ASSUME UNCHANGED shipments PROVE StatusFollowsDetails'
  BY <1>2 DEF StatusFollowsDetails
<1>3. ASSUME Consolidate(r) \/ SaveTarget(r) \/ DeleteMerged(r) PROVE StatusFollowsDetails'
  BY <1>1, <1>3, MergersKeep
<1>4. ASSUME Create(r) PROVE StatusFollowsDetails'
  <2> DEFINE n == Len(shipments)
  <2>1. /\ StatusesKept /\ DOMAIN shipments' = 1 .. n + 1
        /\ shipments'[n + 1].status = StatusFromDetails(shipments'[n + 1])
    BY <1>4, CreateAppends
  <2>2. DOMAIN shipments = 1 .. n /\ n \in Nat  BY Rows
  <2>3. ASSUME NEW s \in DOMAIN shipments', Editable(shipments'[s])
        PROVE  shipments'[s].status = StatusFromDetails(shipments'[s])
    <3>1. CASE s = n + 1  BY <2>1, <3>1
    <3>2. CASE s # n + 1
      <4>1. s \in DOMAIN shipments  BY <2>1, <2>2, <3>2
      <4>2. KeepsStatus(shipments'[s], shipments[s])
        BY <2>1, <4>1 DEF StatusesKept
      <4>3. shipments[s] \in Shipment  BY <4>1, Rows
      <4>4. Editable(shipments[s])
        BY <2>3, <4>2, <4>3 DEF Editable, KeepsStatus, Shipment
      <4> QED  BY <4>1, <4>2, <4>4
               DEF StatusFollowsDetails, KeepsStatus, StatusFromDetails,
                   DetailsComplete
    <3> QED  BY <3>1, <3>2
  <2> QED  BY <2>3 DEF StatusFollowsDetails
<1>5. ASSUME Cancel(r) \/ SetStatus(r)
      PROVE  StatusFollowsDetails'
  <2> DEFINE k == requests[r].shipment
  <2>1. /\ DOMAIN shipments' = DOMAIN shipments
        /\ \A s \in DOMAIN shipments \ {k} : shipments'[s] = shipments[s]
    BY <1>5, WritersWriteOne
  <2>2. ASSUME k \in DOMAIN shipments
        PROVE  \/ shipments'[k].status \notin EditableStatuses
               \/ shipments'[k] = shipments[k]
    <3>1. shipments[k] \in Shipment  BY <2>2, Rows
    <3>2. CASE Cancel(r)
      <4>1. shipments'[k] = [shipments[k] EXCEPT !.status = Cancelled]
        BY <2>2, <3>2 DEF Cancel
      <4> QED  BY <3>1, <4>1
               DEF Shipment, EditableStatuses, Cancelled, OnHold, InPreparation
    <3>3. CASE SetStatus(r)
      <4>1. PICK new \in SetStatuses :
               shipments' = [shipments EXCEPT ![k].status =
                  IF new # requests[r].seen.status THEN new ELSE @]
        BY <3>3 DEF SetStatus
      <4>2. \/ shipments'[k] = [shipments[k] EXCEPT !.status = new]
            \/ shipments'[k] = [shipments[k] EXCEPT !.status = @]
        BY <2>2, <4>1
      <4>3. new \notin EditableStatuses  OBVIOUS
      <4> QED  BY <3>1, <4>2, <4>3 DEF Shipment
    <3> QED  BY <1>5, <3>2, <3>3
  <2> HIDE DEF k
  <2> QED  BY <2>1, <2>2 DEF StatusFollowsDetails, Editable
<1>6. ASSUME Patch(r) PROVE StatusFollowsDetails'
  <2>1. PICK k \in DOMAIN shipments, new \in SetStatuses :
           shipments' = [shipments EXCEPT ![k].status = new]
    BY <1>6 DEF Patch
  <2>2. /\ shipments[k] \in Shipment
        /\ shipments'[k] = [shipments[k] EXCEPT !.status = new]
        /\ DOMAIN shipments' = DOMAIN shipments
        /\ \A s \in DOMAIN shipments \ {k} : shipments'[s] = shipments[s]
    BY <2>1, Rows
  <2>3. shipments'[k].status \notin EditableStatuses  BY <2>2 DEF Shipment
  <2> QED  BY <2>2, <2>3 DEF StatusFollowsDetails, Editable
<1> QED  BY <1>2, <1>3, <1>4, <1>5, <1>6, ReadersKeep DEF Step, Continue

LEMMA StatusStep ==
    ASSUME SetStatuses \cap EditableStatuses = {},
           TypeInv, NoReschedule, StatusFollowsDetails, [Next]_vars
    PROVE  StatusFollowsDetails'
<1>1. ASSUME NEW r \in Requests, Step(r) PROVE StatusFollowsDetails'
  <2>1. ~Redate(r)  BY DEF NoReschedule, Redate
  <2> QED  BY <1>1, <2>1, StatusSteps
<1>2. ASSUME HandleEvent PROVE StatusFollowsDetails'
  BY <1>2, EventRefreshes DEF StatusFollowsDetails
<1>3. ASSUME UNCHANGED vars PROVE StatusFollowsDetails'
  BY <1>3 DEF vars, StatusFollowsDetails
<1> QED  BY <1>1, <1>2, <1>3, NextSteps

\* As long as nobody reschedules and the superadmin does not pick a status of
\* the preparation by hand, a shipment that can be edited is in preparation
\* exactly when both of its addresses are complete: for any number of requests
\* in flight, events in any order, and crashes.
THEOREM StatusFollows ==
    ASSUME "reschedule" \notin Operations, SetStatuses \cap EditableStatuses = {}
    PROVE  Spec => []StatusFollowsDetails
<1> DEFINE Inv == TypeInv /\ NoReschedule /\ StatusFollowsDetails
<1>1. Init => Inv
  <2>1. Init => NoReschedule  BY DEF Init, NoReschedule, Idle
  <2>2. Init => StatusFollowsDetails  BY DEF Init, StatusFollowsDetails
  <2> QED  BY <2>1, <2>2, InitType
<1>2. Inv /\ [Next]_vars => Inv'
  BY NextType, NoRescheduleStep, StatusStep
<1>3. Inv => StatusFollowsDetails  OBVIOUS
<1> QED  BY <1>1, <1>2, <1>3, PTL DEF Spec

-----------------------------------------------------------------------------
\* What the conversions of a product leave alone.

\* One request at a time.
Serial == \A r, q \in Requests : r = q

LEMMA Statuses ==
    /\ EditableStatuses \subseteq ActiveStatuses
    /\ OnTheWay \notin EditableStatuses
    /\ Cancelled \notin ActiveStatuses /\ Received \notin ActiveStatuses
    /\ \A op : Changeable(op) \subseteq ActiveStatuses
    /\ \A sh : StatusFromDetails(sh) \in EditableStatuses
BY DEF EditableStatuses, ActiveStatuses, OnTheWay, InPreparation, OnHold,
       Cancelled, Received, Changeable, StatusFromDetails

KeepsPlace(new, old) ==
    /\ new.holders = old.holders
    /\ new.activeShipment = old.activeShipment /\ new.fp_shipment = old.fp_shipment

LEMMA ConversionsKeep ==
    ASSUME NEW prod \in Product
    PROVE  KeepsPlace(ToInTransit(prod), prod) /\ KeepsPlace(ToMissingData(prod), prod)
BY DEF ToInTransit, ToMissingData, Product, KeepsPlace

LEMMA SavedKeeps ==
    ASSUME NEW kind, NEW now \in Product,
           NEW got \in [at : Places, email : Names, product : Product]
    PROVE  /\ Saved(kind, now, got).holders = now.holders
           /\ kind = "toInTransit" => KeepsPlace(Saved(kind, now, got), now)
<1>1. got.product \in Product  OBVIOUS
<1>2. KeepsPlace(ToInTransit(now), now) /\ KeepsPlace(ToInTransit(got.product), got.product)
  BY <1>1, ConversionsKeep
<1>3. CASE kind = "toInTransit"
  <2>1. /\ Changed(kind, now, got.at) = ToInTransit(now)
        /\ Changed(kind, got.product, got.at) = ToInTransit(got.product)
    BY <1>3 DEF Changed
  <2>2. CASE got.at \in Members  BY <1>2, <2>1, <2>2 DEF Saved, KeepsPlace
  <2>3. CASE got.at \notin Members  BY <1>2, <2>1, <2>3 DEF Saved, KeepsPlace
  <2> QED  BY <1>3, <2>2, <2>3 DEF KeepsPlace
<1>4. CASE kind # "toInTransit"
  <2>1. Changed(kind, now, got.at).holders = now.holders  BY <1>4 DEF Changed, Product
  <2> QED  BY <1>4, <2>1 DEF Saved
<1> QED  BY <1>3, <1>4

LEMMA MoveKinds ==
    ASSUME NEW from \in Places, NEW to \in Places
    PROVE  /\ MoveKind(from, to) \in {"assign", "transfer", "return", "relocate"}
           /\ MoveKind(from, to) = "assign" <=> from \in Pool /\ to \in Members
           /\ MoveKind(from, to) = "transfer" <=> from \in Pool /\ to \in Pool
           /\ MoveKind(from, to) = "return" <=> from \in Members /\ to \in Pool
           /\ MoveKind(from, to) = "relocate" <=> from \in Members /\ to \in Members
           /\ from \in Pool <=> from \notin Members
           /\ to \in Pool <=> to \notin Members
BY ConstantsAssumption DEF MoveKind, Places, ConstantsAssumption

\* What a product is after the first transaction of an assignment.
CommittedFits(p, from, to, created) ==
    /\ Committed(p, from, to, created).holders = IF to \in Members THEN {from} ELSE {to}
    /\ from \in Pool => /\ Committed(p, from, to, created).activeShipment
                       /\ Committed(p, from, to, created).fp_shipment

LEMMA CommittedPlace ==
    ASSUME TypeInv, NEW p \in Products, NEW from \in Places, NEW to \in Places,
           NEW created \in BOOLEAN, products[p].holders = {from}, from # to
    PROVE  CommittedFits(p, from, to, created)
<1>1. products[p] \in Product  BY Types
<1>2. to \in Pool => Moved(p, from, to) = {to}
  BY MoveKinds DEF Moved
<1>3. CASE from \in Pool /\ to \in Members
  <2>1. MoveKind(from, to) = "assign"  BY <1>3, MoveKinds
  <2> QED  BY <1>1, <1>3, <2>1 DEF Committed, Product, CommittedFits
<1>4. CASE from \in Pool /\ to \in Pool
  <2>1. MoveKind(from, to) = "transfer"  BY <1>4, MoveKinds
  <2> QED  BY <1>2, <1>4, <2>1, MoveKinds DEF Committed, CommittedFits
<1>5. CASE from \in Members /\ to \in Pool
  <2>1. MoveKind(from, to) = "return"  BY <1>5, MoveKinds
  <2> QED  BY <1>2, <1>5, <2>1, MoveKinds DEF Committed, CommittedFits
<1>6. CASE from \in Members /\ to \in Members
  <2>1. MoveKind(from, to) = "relocate"  BY <1>6, MoveKinds
  <2> QED  BY <1>1, <1>6, <2>1, MoveKinds DEF Committed, Product, CommittedFits
<1> QED  BY <1>3, <1>4, <1>5, <1>6, MoveKinds

-----------------------------------------------------------------------------
\* One holder. A relocation between employees is the only move whose second
\* transaction does not notice that the product has gone elsewhere.

HolderAssumption == Serial \/ "relocate" \notin Operations

Held(p) == \E x \in Places : products[p].holders = {x}

\* What a request must still be able to rely on when it moves a product.
Relies(s) ==
    /\ s.pc = "prepared" =>
          /\ MoveKind(s.from, s.to) \in Operations /\ s.from # s.to
          /\ s.from \in s.seen.holders
    /\ s.pc = "followUp" => \A i \in DOMAIN s.settle :
          s.settle[i].from \in Members /\ s.settle[i].to \in Members =>
             Serial /\ products[s.settle[i].product].holders = {s.settle[i].from}

HoldersInv ==
    /\ \A p \in Products : Held(p)
    /\ \A r \in Requests : Relies(requests[r])

HoldersKept == \A p \in Products : products'[p].holders = products[p].holders

LEMMA BecomeIs ==
    ASSUME TypeInv, NEW r \in Requests, NEW state, Become(r, state)
    PROVE  requests'[r] = state /\ \A q \in Requests \ {r} : requests'[q] = requests[q]
BY Types DEF Become

LEMMA FollowUpIs ==
    ASSUME TypeInv, NEW r \in Requests, NEW op, NEW tasks, NEW settle,
           FollowUp(r, op, tasks, settle)
    PROVE  \/ requests'[r] = Idle
           \/ /\ requests'[r].pc = "followUp" /\ requests'[r].op = op
              /\ requests'[r].tasks = tasks /\ requests'[r].settle = settle
              /\ requests'[r].got = <<>>
<1> DEFINE next == [pc |-> "followUp", op |-> op, tasks |-> tasks,
                    settle |-> settle, got |-> <<>>]
<1>1. Become(r, Idle) \/ Become(r, next)  BY DEF FollowUp
<1>2. /\ next.pc = "followUp" /\ next.op = op /\ next.tasks = tasks
      /\ next.settle = settle /\ next.got = <<>>
  OBVIOUS
<1> HIDE DEF next
<1> QED  BY <1>1, <1>2, BecomeIs

LEMMA DoneIs ==
    ASSUME TypeInv, NEW r \in Requests, NEW more, Done(r, more)
    PROVE  \/ requests'[r] = Idle
           \/ /\ requests'[r].pc = "followUp" /\ requests'[r].op = requests[r].op
              /\ requests'[r].tasks = more \o Tail(requests[r].tasks)
              /\ requests'[r].settle = requests[r].settle
              /\ requests'[r].got = <<>>
<1> DEFINE op     == requests[r].op
           tasks  == more \o Tail(requests[r].tasks)
           settle == requests[r].settle
<1>1. FollowUp(r, op, tasks, settle)  BY DEF Done
<1> HIDE DEF op, tasks, settle
<1>2. \/ requests'[r] = Idle
      \/ /\ requests'[r].pc = "followUp" /\ requests'[r].op = op
         /\ requests'[r].tasks = tasks /\ requests'[r].settle = settle
         /\ requests'[r].got = <<>>
  BY <1>1, FollowUpIs
<1> QED  BY <1>2 DEF op, tasks, settle

LEMMA GotIs ==
    ASSUME TypeInv, NEW r \in Requests, requests[r].pc = "followUp", NEW reading,
           Got(r, reading)
    PROVE  /\ requests'[r].pc = "followUp" /\ requests'[r].op = requests[r].op
           /\ requests'[r].tasks = requests[r].tasks
           /\ requests'[r].settle = requests[r].settle
           /\ requests'[r].got = <<reading>>
<1>1. requests[r] \in Following  BY PcTypes DEF TypeInv
<1> DEFINE next == [requests[r] EXCEPT !.got = <<reading>>]
<1>2. /\ next.pc = "followUp" /\ next.op = requests[r].op
      /\ next.tasks = requests[r].tasks /\ next.settle = requests[r].settle
      /\ next.got = <<reading>>
  BY <1>1 DEF Following
<1>3. Become(r, next)  BY DEF Got
<1> HIDE DEF next
<1> QED  BY <1>2, <1>3, BecomeIs

\* What a follow-up step makes of the request: it is over, or it goes on with what it
\* had to settle.
GoesOn(r) ==
    \/ requests'[r] = Idle
    \/ /\ requests[r].pc = "followUp" /\ requests'[r].pc = "followUp"
       /\ requests'[r].settle = requests[r].settle

LEMMA FollowersGoOn ==
    ASSUME TypeInv, NEW r \in Requests,
           Count(r) \/ WriteFlag(r) \/ FindHolder(r) \/ ReadProduct(r) \/ WriteProduct(r)
    PROVE  GoesOn(r)
<1>1. requests[r].pc = "followUp"
  BY WorkingType DEF Count, WriteFlag, FindHolder, ReadProduct, WriteProduct
<1>2. ASSUME NEW more, Done(r, more) PROVE GoesOn(r)  BY <1>1, <1>2, DoneIs DEF GoesOn
<1>3. ASSUME NEW reading, Got(r, reading) PROVE GoesOn(r)  BY <1>1, <1>3, GotIs DEF GoesOn
<1>4. ASSUME Become(r, Idle) PROVE GoesOn(r)  BY <1>4, BecomeIs DEF GoesOn
<1>5. \/ \E more : Done(r, more)
      \/ \E reading : Got(r, reading)
      \/ Become(r, Idle)
  BY DEF Count, WriteFlag, FindHolder, ReadProduct, WriteProduct
<1> QED  BY <1>2, <1>3, <1>4, <1>5

LEMMA EventKeepsProducts ==
    ASSUME TypeInv, HandleEvent
    PROVE  requests' = requests /\ \A p \in Products : KeepsPlace(products'[p], products[p])
<1>1. \A p \in Products :
         \/ products'[p] = products[p]
         \/ products'[p] = ToInTransit(products[p])
         \/ products'[p] = ToMissingData(products[p])
  BY DEF HandleEvent
<1>2. \A p \in Products : products[p] \in Product  BY Types
<1> QED  BY <1>1, <1>2, ConversionsKeep DEF HandleEvent, KeepsPlace

LEMMA ProductsWritten ==
    ASSUME TypeInv, NEW r \in Requests, WriteFlag(r) \/ WriteProduct(r)
    PROVE  HoldersKept
<1>1. CASE WriteFlag(r)
  <2> DEFINE x == HeadTask(r).on
             free == [products[x] EXCEPT !.activeShipment = FALSE]
  <2>1. products' = products \/ products' = [products EXCEPT ![x] = free]
    BY <1>1 DEF WriteFlag
  <2>2. x \in Products => free.holders = products[x].holders
    <3>1. x \in Products => products[x] \in Product  BY Types
    <3> QED  BY <3>1 DEF Product
  <2> HIDE DEF x, free
  <2> QED  BY <2>1, <2>2, Types DEF HoldersKept
<1>2. CASE WriteProduct(r)
  <2> DEFINE p     == HeadTask(r).on
             got   == requests[r].got[1]
             saved == Saved(HeadTask(r).kind, products[p], got)
  <2>1. products' = products \/ products' = [products EXCEPT ![p] = saved]
    BY <1>2 DEF WriteProduct
  <2>2. /\ Working(r, {"release", "receive", "toInTransit"}) /\ requests[r].got # <<>>
    BY <1>2 DEF WriteProduct
  <2>3. p \in Products /\ got \in [at : Places, email : Names, product : Product]
    BY <2>2, WorkingType DEF Tasks, ReadingFits
  <2>4. products[p] \in Product  BY <2>3, Types
  <2>5. saved.holders = products[p].holders  BY <2>3, <2>4, SavedKeeps
  <2> HIDE DEF p, got, saved
  <2> QED  BY <2>1, <2>5, Types DEF HoldersKept
<1> QED  BY <1>1, <1>2

\* The steps that move no product.
LEMMA OthersHold ==
    ASSUME TypeInv, NEW r \in Requests, Step(r),
           ~Move(r), ~Consolidate(r), ~Create(r), ~Settle(r)
    PROVE  HoldersKept
<1>1. CASE WriteFlag(r) \/ WriteProduct(r)  BY <1>1, ProductsWritten
<1>2. CASE ~(WriteFlag(r) \/ WriteProduct(r))
  <2>1. UNCHANGED products
    BY <1>2 DEF Step, Arrive, Continue, Prepare, Load, Patch, UpdateMember, CheckOffice,
       UpdateDefaultOffice, Cancel, SetStatus, FindTarget, SaveTarget, DeleteMerged,
       Redate, Count, FindHolder, ReadProduct, UpdateOffice, Abort, Crash
  <2> QED  BY <2>1 DEF HoldersKept
<1> QED  BY <1>1, <1>2

LEMMA VisibleHolds ==
    ASSUME NEW p, NEW x, x \in Visible(p)
    PROVE  x \in products[p].holders
BY DEF Visible

LEMMA PreparedRelies ==
    ASSUME TypeInv, NEW r \in Requests, Prepare(r)
    PROVE  Relies(requests[r])'
<1>0. PICK p \in Products, to \in Places, date \in Dates :
         \E from \in Visible(p) \ {to} :
            /\ Starts(r, MoveKind(from, to))
            /\ Become(r, [pc |-> "prepared", product |-> p, from |-> from,
                          to |-> to, date |-> date, seen |-> products[p],
                          fromCalled |-> CalledAt(from), toCalled |-> CalledAt(to),
                          fromComplete |-> AddressComplete(from),
                          toComplete |-> AddressComplete(to),
                          toFlagged |-> to \in Members /\ flagged[to]])
  BY DEF Prepare
<1>1. PICK from \in Visible(p) \ {to} :
         /\ Starts(r, MoveKind(from, to))
         /\ Become(r, [pc |-> "prepared", product |-> p, from |-> from,
                       to |-> to, date |-> date, seen |-> products[p],
                       fromCalled |-> CalledAt(from), toCalled |-> CalledAt(to),
                       fromComplete |-> AddressComplete(from),
                       toComplete |-> AddressComplete(to),
                       toFlagged |-> to \in Members /\ flagged[to]])
  BY <1>0
<1>2. /\ requests'[r].pc = "prepared" /\ requests'[r].from = from
      /\ requests'[r].to = to /\ requests'[r].seen = products[p]
  BY <1>1, BecomeIs
<1>3. from \in products[p].holders /\ from # to  BY <1>1, VisibleHolds
<1>4. MoveKind(from, to) \in Operations  BY <1>1 DEF Starts
<1> QED  BY <1>2, <1>3, <1>4 DEF Relies

\* A step after which the request is over or has nothing to settle that it had not.
LEMMA OtherRelies ==
    ASSUME TypeInv, HoldersInv, HoldersKept, NEW r \in Requests, Step(r), ~Prepare(r),
           ~Consolidate(r), ~Create(r), ~Move(r)
    PROVE  Relies(requests[r])'
<1>1. Relies(requests[r])  BY DEF HoldersInv
<1>2. ASSUME requests'[r].pc \notin {"prepared", "followUp"} PROVE Relies(requests[r])'
  BY <1>2 DEF Relies
<1>3. ASSUME requests'[r] = Idle PROVE Relies(requests[r])'
  BY <1>2, <1>3 DEF Idle
<1>4. ASSUME NEW op, NEW tasks, FollowUp(r, op, tasks, <<>>) PROVE Relies(requests[r])'
  <2>1. \/ requests'[r] = Idle
        \/ requests'[r].pc = "followUp" /\ requests'[r].settle = <<>>
    BY <1>4, FollowUpIs
  <2> QED  BY <1>3, <2>1 DEF Relies
<1>5. CASE Cancel(r) \/ SetStatus(r) \/ Redate(r)
  <2>1. \E op, tasks : FollowUp(r, op, tasks, <<>>)
    BY <1>5 DEF Cancel, SetStatus, Redate
  <2> QED  BY <1>4, <2>1
<1>6. CASE Count(r) \/ WriteFlag(r) \/ FindHolder(r) \/ ReadProduct(r) \/ WriteProduct(r)
  <2>1. GoesOn(r)  BY <1>6, FollowersGoOn
  <2>2. ASSUME requests[r].pc = "followUp", requests'[r].pc = "followUp",
               requests'[r].settle = requests[r].settle
        PROVE  Relies(requests[r])'
    <3>1. requests[r].settle \in Seq(Settlements)  BY <2>2, PcTypes DEF TypeInv, Following
    <3>2. \A i \in DOMAIN requests[r].settle : requests[r].settle[i].product \in Products
      <4>1. \A i \in DOMAIN requests[r].settle : requests[r].settle[i] \in Settlements
        BY <3>1
      <4> QED  BY <4>1 DEF Settlements
    <3>3. ASSUME NEW i \in DOMAIN requests[r].settle,
                 requests[r].settle[i].from \in Members, requests[r].settle[i].to \in Members
          PROVE  Serial /\ products'[requests[r].settle[i].product].holders
                              = {requests[r].settle[i].from}
      BY <1>1, <2>2, <3>2, <3>3 DEF Relies, HoldersKept
    <3> QED  BY <2>2, <3>3 DEF Relies
  <2> QED  BY <1>3, <2>1, <2>2 DEF GoesOn
<1>7. CASE Settle(r) \/ DeleteMerged(r) \/ UpdateOffice(r) \/ Abort(r) \/ Crash(r)
  <2>1. requests'[r] = Idle
    BY <1>7, BecomeIs DEF Settle, DeleteMerged, UpdateOffice, Abort, Crash
  <2> QED  BY <1>3, <2>1
<1>8. CASE Patch(r) \/ UpdateMember(r) \/ UpdateDefaultOffice(r)
  <2>1. requests'[r] = requests[r] /\ requests[r] = Idle
    BY <1>8 DEF Patch, UpdateMember, UpdateDefaultOffice, Starts
  <2> QED  BY <1>3, <2>1
<1>9. CASE Load(r) \/ FindTarget(r) \/ SaveTarget(r) \/ CheckOffice(r)
  <2>1. \E state : Become(r, state) /\ state.pc \notin {"prepared", "followUp"}
    <3>1. CASE Load(r)
      <4>1. PICK op, s : Become(r, [pc |-> "loaded", op |-> op, shipment |-> s,
                                    seen |-> shipments[s]])
        BY <3>1 DEF Load
      <4> QED  BY <4>1
    <3>2. CASE FindTarget(r)
      <4> DEFINE alone(date) ==
                   [pc |-> "redating", shipment |-> requests[r].shipment,
                    seen |-> requests[r].seen, date |-> date]
                 joined(date, t) ==
                   [pc |-> "merging", shipment |-> requests[r].shipment,
                    seen |-> requests[r].seen, date |-> date, target |-> t,
                    targetProducts |-> shipments[t].products]
      <4>1. \E date \in Dates : \E t :
               Become(r, alone(date)) \/ Become(r, joined(date, t))
        BY <3>2 DEF FindTarget
      <4>2. \A date, t : alone(date).pc = "redating" /\ joined(date, t).pc = "merging"
        OBVIOUS
      <4> HIDE DEF alone, joined
      <4> QED  BY <4>1, <4>2
    <3>3. CASE SaveTarget(r)
      <4>1. \/ Become(r, [pc |-> "merged", shipment |-> requests[r].shipment,
                          date |-> requests[r].date])
            \/ Become(r, Idle)
        BY <3>3 DEF SaveTarget
      <4> QED  BY <4>1 DEF Idle
    <3>4. CASE CheckOffice(r)
      <4>1. PICK o : Become(r, [pc |-> "officeChecked", office |-> o])
        BY <3>4 DEF CheckOffice
      <4> QED  BY <4>1
    <3> QED  BY <1>9, <3>1, <3>2, <3>3, <3>4
  <2> QED  BY <1>2, <2>1, BecomeIs
<1> QED  BY <1>5, <1>6, <1>7, <1>8, <1>9 DEF Step, Arrive, Continue

\* The first transaction of an assignment, in either outcome.
LEMMA CommitMoves ==
    ASSUME TypeInv, HoldersInv, NEW r \in Requests, Consolidate(r) \/ Create(r)
    PROVE  LET s == requests[r]
           IN  /\ s \in Prepared /\ MoveKind(s.from, s.to) \in Operations
               /\ products[s.product] = s.seen
               /\ products[s.product].holders = {s.from} /\ s.from # s.to
               /\ \A p \in Products \ {s.product} : products'[p] = products[p]
               /\ products'[s.product].holders = IF s.to \in Members THEN {s.from} ELSE {s.to}
               /\ s.from \in Pool =>
                     products'[s.product].activeShipment /\ products'[s.product].fp_shipment
<1> DEFINE s == requests[r]
<1>1. s \in Prepared /\ s.pc = "prepared"
  BY PcTypes DEF TypeInv, Consolidate, Create
<1>2. s.product \in Products /\ s.from \in Places /\ s.to \in Places  BY <1>1 DEF Prepared
<1>3. products[s.product] = s.seen  BY DEF Consolidate, Create, NoConflict
<1>4. MoveKind(s.from, s.to) \in Operations /\ s.from # s.to /\ s.from \in s.seen.holders
  BY <1>1 DEF HoldersInv, Relies
<1>5. products[s.product].holders = {s.from}
  <2>1. PICK x \in Places : products[s.product].holders = {x}  BY <1>2 DEF HoldersInv, Held
  <2> QED  BY <1>3, <1>4, <2>1
<1>6. \E created \in BOOLEAN :
         LET prod == Committed(s.product, s.from, s.to, created)
         IN  \/ products' = [products EXCEPT ![s.product] = ToInTransit(prod)]
             \/ products' = [products EXCEPT ![s.product] = prod]
  <2>1. CASE Consolidate(r)
    <3>1. PICK t : products' = [products EXCEPT ![s.product] =
              IF s.product \notin Carried(shipments[t]) /\ shipments[t].status = InPreparation
              THEN ToInTransit(Committed(s.product, s.from, s.to, FALSE))
              ELSE Committed(s.product, s.from, s.to, FALSE)]
      BY <2>1 DEF Consolidate
    <3> QED  BY <3>1
  <2>2. CASE Create(r)
    <3>1. \E ready : products' = [products EXCEPT ![s.product] =
              IF ready THEN ToInTransit(Committed(s.product, s.from, s.to, TRUE))
              ELSE Committed(s.product, s.from, s.to, TRUE)]
      BY <2>2 DEF Create
    <3> QED  BY <3>1
  <2> QED  BY <2>1, <2>2
<1>7. PICK created \in BOOLEAN :
         \/ products' = [products EXCEPT
               ![s.product] = ToInTransit(Committed(s.product, s.from, s.to, created))]
         \/ products' = [products EXCEPT
               ![s.product] = Committed(s.product, s.from, s.to, created)]
  BY <1>6
<1> DEFINE prod == Committed(s.product, s.from, s.to, created)
<1>8. prod \in Product  BY <1>2, CommittedType, Types
<1>9. /\ prod.holders = IF s.to \in Members THEN {s.from} ELSE {s.to}
      /\ s.from \in Pool => prod.activeShipment /\ prod.fp_shipment
  <2> DEFINE p == s.product
             from == s.from
             to == s.to
  <2>1. p \in Products /\ from \in Places /\ to \in Places /\ from # to
          /\ products[p].holders = {from}
    BY <1>2, <1>4, <1>5
  <2>2. prod = Committed(p, from, to, created)  OBVIOUS
  <2> HIDE DEF s, p, from, to, prod
  <2>3. CommittedFits(p, from, to, created)  BY <2>1, CommittedPlace
  <2>4. /\ prod.holders = IF to \in Members THEN {from} ELSE {to}
        /\ from \in Pool => prod.activeShipment /\ prod.fp_shipment
    BY <2>2, <2>3 DEF CommittedFits
  <2> QED  BY <2>4 DEF from, to
<1>10. KeepsPlace(ToInTransit(prod), prod)  BY <1>8, ConversionsKeep
<1>11. \/ products' = [products EXCEPT ![s.product] = ToInTransit(prod)]
       \/ products' = [products EXCEPT ![s.product] = prod]
  BY <1>7
<1> HIDE DEF prod
<1>12. /\ \A p \in Products \ {s.product} : products'[p] = products[p]
       /\ products'[s.product] \in {prod, ToInTransit(prod)}
  BY <1>2, <1>11, Types
<1>13. products'[s.product].holders = prod.holders
        /\ products'[s.product].activeShipment = prod.activeShipment
        /\ products'[s.product].fp_shipment = prod.fp_shipment
  BY <1>10, <1>12 DEF KeepsPlace
<1> QED  BY <1>1, <1>3, <1>4, <1>5, <1>9, <1>12, <1>13

\* The settlement it leaves to the second.
LEMMA CommitOwes ==
    ASSUME TypeInv, NEW r \in Requests, Consolidate(r) \/ Create(r)
    PROVE  \/ requests'[r] = Idle
           \/ /\ requests'[r].pc = "followUp" /\ DOMAIN requests'[r].settle = {1}
              /\ requests'[r].settle[1].product = requests[r].product
              /\ requests'[r].settle[1].from = requests[r].from
              /\ requests'[r].settle[1].to = requests[r].to
<1> DEFINE s == requests[r]
<1>1. \E op, tasks, status : FollowUp(r, op, tasks, Settlement(s, status))
  BY DEF Consolidate, Create
<1>2. PICK op, tasks, status : FollowUp(r, op, tasks, Settlement(s, status))
  BY <1>1
<1> DEFINE settle == Settlement(s, status)
<1>3. /\ DOMAIN settle = {1} /\ settle[1].product = s.product
      /\ settle[1].from = s.from /\ settle[1].to = s.to
  BY DEF Settlement
<1>4. FollowUp(r, op, tasks, settle)  BY <1>2
<1> HIDE DEF settle, s
<1>5. \/ requests'[r] = Idle
      \/ requests'[r].pc = "followUp" /\ requests'[r].settle = settle
  BY <1>4, FollowUpIs
<1> QED  BY <1>3, <1>5 DEF s

\* Where a move or a second transaction leaves the product.
LEMMA MoveMoves ==
    ASSUME TypeInv, HoldersInv, NEW r \in Requests, Move(r)
    PROVE  \E p \in Products, to \in Places :
              /\ ~(products[p].activeShipment /\ products[p].fp_shipment)
              /\ \A q \in Products \ {p} : products'[q] = products[q]
              /\ products'[p].holders = {to}
<1>0. PICK p \in Products, to \in Places :
         \E from \in Visible(p) \ {to} :
            /\ MayChange(p, from) /\ ~products[p].fp_shipment
            /\ products' = [products EXCEPT ![p] =
                  [holders |-> Moved(p, from, to), status |-> RestStatus(to),
                   activeShipment |-> FALSE, fp_shipment |-> FALSE]]
  BY DEF Move
<1>1. PICK from \in Visible(p) \ {to} :
            /\ MayChange(p, from) /\ ~products[p].fp_shipment
            /\ products' = [products EXCEPT ![p] =
                  [holders |-> Moved(p, from, to), status |-> RestStatus(to),
                   activeShipment |-> FALSE, fp_shipment |-> FALSE]]
  BY <1>0
<1>2. PICK x \in Places : products[p].holders = {x}  BY DEF HoldersInv, Held
<1>3. from = x /\ from # to  BY <1>1, <1>2, VisibleHolds
<1>4. Moved(p, from, to) = {to}  BY <1>2, <1>3 DEF Moved
<1>5. /\ \A q \in Products \ {p} : products'[q] = products[q]
      /\ products'[p].holders = Moved(p, from, to)
  BY <1>1, Types
<1> QED  BY <1>1, <1>4, <1>5

LEMMA SettleMoves ==
    ASSUME TypeInv, HoldersInv, NEW r \in Requests, Settle(r)
    PROVE  LET todo == requests[r].settle[1]
           IN  /\ 1 \in DOMAIN requests[r].settle /\ requests[r].pc = "followUp"
               /\ todo.product \in Products /\ todo.to \in Places
               /\ requests'[r] = Idle
               /\ \A p \in Products \ {todo.product} : products'[p] = products[p]
               /\ \/ KeepsPlace(products'[todo.product], products[todo.product])
                  \/ /\ todo.to \in Members
                     /\ products'[todo.product].holders = {todo.to}
                     /\ products'[todo.product].activeShipment
                     /\ products'[todo.product].fp_shipment
<1> DEFINE todo == requests[r].settle[1]
           p    == todo.product
           kept == [products[p] EXCEPT !.status = todo.status]
           prod == [holders |-> Moved(p, todo.from, todo.to), status |-> todo.status,
                    activeShipment |-> TRUE, fp_shipment |-> TRUE]
<1>1. requests[r].pc = "followUp" /\ requests[r].tasks = <<>>  BY DEF Settle
<1>2. requests[r].settle \in Seq(Settlements) /\ requests[r].settle # <<>>
  BY <1>1, PcTypes DEF TypeInv, Following, RequestsFit, Fitting
<1>3. todo \in Settlements /\ 1 \in DOMAIN requests[r].settle  BY <1>2
<1>4. p \in Products /\ todo.from \in Places /\ todo.to \in Places  BY <1>3 DEF Settlements
<1>5. /\ requests'[r] = Idle
      /\ IF Misses(todo) \/ todo.to \in Pool
         THEN products' = products \/ products' = [products EXCEPT ![p] = kept]
         ELSE products' = [products EXCEPT ![p] = prod]
  BY BecomeIs DEF Settle
<1>6. products[p] \in Product  BY <1>4, Types
<1>7. KeepsPlace(kept, products[p])  BY <1>6 DEF KeepsPlace, Product
<1>8. ASSUME ~Misses(todo), todo.to \notin Pool
      PROVE  Moved(p, todo.from, todo.to) = {todo.to} /\ todo.to \in Members
  <2>1. todo.to \in Members  BY <1>4, <1>8 DEF Places
  <2>2. PICK x \in Places : products[p].holders = {x}  BY <1>4 DEF HoldersInv, Held
  <2>3. CASE todo.from \in Members
    <3>1. products[p].holders = {todo.from}  BY <1>1, <1>3, <2>1, <2>3 DEF HoldersInv, Relies
    <3> QED  BY <2>1, <3>1 DEF Moved
  <2>4. CASE todo.from \notin Members
    <3>1. MoveKind(todo.from, todo.to) # "relocate"  BY <1>4, <2>1, <2>4, MoveKinds
    <3>2. products[p].holders \cap Pool # {}  BY <1>8, <3>1 DEF Misses
    <3> QED  BY <2>1, <2>2, <3>2 DEF Moved
  <2> QED  BY <2>3, <2>4
<1>9. CASE Misses(todo) \/ todo.to \in Pool
  <2>1. products' = products \/ products' = [products EXCEPT ![p] = kept]  BY <1>5, <1>9
  <2>2. KeepsPlace(products[p], products[p])  BY DEF KeepsPlace
  <2> HIDE DEF kept, p
  <2>3. /\ \A q \in Products \ {p} : products'[q] = products[q]
        /\ KeepsPlace(products'[p], products[p])
    BY <1>4, <1>7, <2>1, <2>2, Types
  <2> QED  BY <1>1, <1>3, <1>4, <1>5, <2>3 DEF p
<1>10. CASE ~(Misses(todo) \/ todo.to \in Pool)
  <2>1. products' = [products EXCEPT ![p] = prod]  BY <1>5, <1>10
  <2>2. prod.holders = {todo.to} /\ prod.activeShipment /\ prod.fp_shipment
    BY <1>8, <1>10
  <2> HIDE DEF prod, p
  <2>3. (\A q \in Products \ {p} : products'[q] = products[q]) /\ products'[p] = prod
    BY <1>4, <2>1, Types
  <2> QED  BY <1>1, <1>3, <1>4, <1>5, <1>8, <1>10, <2>2, <2>3 DEF p
<1> QED  BY <1>9, <1>10

LEMMA HoldersStep ==
    ASSUME HolderAssumption, TypeInv, HoldersInv, [Next]_vars
    PROVE  HoldersInv'
<1>1. ASSUME HoldersKept PROVE \A p \in Products : Held(p)'
  BY <1>1 DEF HoldersInv, Held, HoldersKept
<1>2. ASSUME HoldersKept, requests' = requests PROVE HoldersInv'
  <2> SUFFICES ASSUME NEW r \in Requests PROVE Relies(requests[r])'
    BY <1>1, <1>2 DEF HoldersInv
  <2>1. Relies(requests[r])  BY DEF HoldersInv
  <2>2. ASSUME requests[r].pc = "followUp", NEW i \in DOMAIN requests[r].settle
        PROVE  requests[r].settle[i].product \in Products
    <3>1. requests[r].settle \in Seq(Settlements)  BY <2>2, PcTypes DEF TypeInv, Following
    <3>2. requests[r].settle[i] \in Settlements  BY <2>2, <3>1
    <3> QED  BY <3>2 DEF Settlements
  <2> QED  BY <1>2, <2>1, <2>2 DEF Relies, HoldersKept
<1>3. ASSUME NEW r \in Requests, Step(r),
             \A p \in Products : Held(p)', Relies(requests[r])'
      PROVE  HoldersInv'
  <2> SUFFICES ASSUME NEW q \in Requests, q # r PROVE Relies(requests[q])'
    BY <1>3 DEF HoldersInv
  <2>1. requests'[q] = requests[q] /\ ~Serial  BY <1>3, PcSteps DEF Serial
  <2>2. Relies(requests[q])  BY DEF HoldersInv
  <2> QED  BY <2>1, <2>2 DEF Relies
<1>4. ASSUME NEW r \in Requests, Consolidate(r) \/ Create(r) PROVE HoldersInv'
  <2> DEFINE s == requests[r]
  <2>1. /\ s \in Prepared /\ MoveKind(s.from, s.to) \in Operations
        /\ products[s.product].holders = {s.from}
        /\ \A p \in Products \ {s.product} : products'[p] = products[p]
        /\ products'[s.product].holders = IF s.to \in Members THEN {s.from} ELSE {s.to}
    BY <1>4, CommitMoves
  <2>2. s.product \in Products /\ s.from \in Places /\ s.to \in Places
    BY <2>1 DEF Prepared
  <2>3. ASSUME NEW p \in Products PROVE Held(p)'
    BY <2>1, <2>2 DEF HoldersInv, Held
  <2>4. Relies(requests[r])'
    <3>1. ASSUME s.from \in Members, s.to \in Members PROVE Serial
      <4>1. MoveKind(s.from, s.to) = "relocate"  BY <2>2, <3>1, MoveKinds
      <4> QED  BY <2>1, <4>1 DEF HolderAssumption
    <3>2. \/ requests'[r] = Idle
          \/ /\ requests'[r].pc = "followUp" /\ DOMAIN requests'[r].settle = {1}
             /\ requests'[r].settle[1].product = s.product
             /\ requests'[r].settle[1].from = s.from
             /\ requests'[r].settle[1].to = s.to
      BY <1>4, CommitOwes
    <3> QED  BY <2>1, <3>1, <3>2 DEF Relies, Idle
  <2> QED  BY <1>3, <1>4, <2>3, <2>4 DEF Step, Continue
<1>5. ASSUME NEW r \in Requests, Move(r) PROVE HoldersInv'
  <2>1. \A p \in Products : Held(p)'  BY <1>5, MoveMoves DEF HoldersInv, Held
  <2>2. requests' = requests /\ requests[r] = Idle  BY <1>5 DEF Move, Starts
  <2>3. Relies(requests[r])'  BY <2>2 DEF Relies, Idle
  <2> QED  BY <1>3, <1>5, <2>1, <2>3 DEF Step, Arrive
<1>6. ASSUME NEW r \in Requests, Settle(r) PROVE HoldersInv'
  <2>1. ASSUME NEW p \in Products PROVE Held(p)'
    <3> DEFINE todo == requests[r].settle[1]
    <3>1. /\ todo.to \in Places
          /\ \A q \in Products \ {todo.product} : products'[q] = products[q]
          /\ \/ KeepsPlace(products'[todo.product], products[todo.product])
             \/ products'[todo.product].holders = {todo.to}
      BY <1>6, SettleMoves
    <3> HIDE DEF todo
    <3>2. Held(p)  BY DEF HoldersInv
    <3> QED  BY <3>1, <3>2 DEF Held, KeepsPlace
  <2>2. Relies(requests[r])'
    <3>1. requests'[r] = Idle  BY <1>6, SettleMoves
    <3> QED  BY <3>1 DEF Relies, Idle
  <2> QED  BY <1>3, <1>6, <2>1, <2>2 DEF Step, Continue
<1>7. ASSUME NEW r \in Requests, Step(r), ~Move(r), ~Consolidate(r), ~Create(r), ~Settle(r)
      PROVE  HoldersInv'
  <2>1. HoldersKept  BY <1>7, OthersHold
  <2>2. Relies(requests[r])'  BY <1>7, <2>1, PreparedRelies, OtherRelies
  <2> QED  BY <1>1, <1>3, <1>7, <2>1, <2>2
<1>8. CASE HandleEvent
  <2>1. requests' = requests /\ HoldersKept
    BY <1>8, EventKeepsProducts DEF HoldersKept, KeepsPlace
  <2> QED  BY <1>2, <2>1
<1>9. CASE UNCHANGED vars
  BY <1>2, <1>9 DEF vars, HoldersKept
<1> QED  BY <1>4, <1>5, <1>6, <1>7, <1>8, <1>9, NextSteps

LEMMA HoldersInit == Init => HoldersInv
<1> SUFFICES ASSUME Init PROVE HoldersInv  OBVIOUS
<1>1. PICK home \in [Products -> Places] :
          products = [p \in Products |->
              [holders |-> {home[p]}, status |-> RestStatus(home[p]),
               activeShipment |-> FALSE, fp_shipment |-> FALSE]]
  BY DEF Init
<1>2. \A p \in Products : products[p].holders = {home[p]} /\ home[p] \in Places  BY <1>1
<1>3. \A r \in Requests : requests[r].pc = "idle"  BY DEF Init, Idle
<1> QED  BY <1>2, <1>3 DEF HoldersInv, Held, Relies

LEMMA HoldersSpec == ASSUME HolderAssumption PROVE Spec => [](TypeInv /\ HoldersInv)
<1>1. Init => TypeInv /\ HoldersInv  BY InitType, HoldersInit
<1>2. (TypeInv /\ HoldersInv) /\ [Next]_vars => (TypeInv /\ HoldersInv)'
  BY NextType, HoldersStep
<1> QED  BY <1>1, <1>2, PTL DEF Spec

\* A product is in one document, the pool's or one employee's, whatever users, the
\* superadmin and the listeners do and wherever a request dies: for any number of
\* requests if nobody relocates a product from employee to employee with a shipment,
\* and one request at a time if somebody does.
THEOREM OneHolderAlways == HolderAssumption => (Spec => []OneHolder)
<1> SUFFICES ASSUME HolderAssumption PROVE Spec => []OneHolder
  OBVIOUS
<1>1. TypeInv /\ HoldersInv => OneHolder
  BY FS_Singleton DEF HoldersInv, Held, OneHolder
<1>2. Spec => [](TypeInv /\ HoldersInv)  BY HoldersSpec
<1> QED  BY <1>1, <1>2, PTL

-----------------------------------------------------------------------------
\* One shipment. What the guards look at, the two flags of a product, must stay up
\* while the product is in a shipment under way, and a request that takes them down
\* must not meet another one that ships the product in the meantime: cancelling, the
\* superadmin's status and rescheduling are excluded unless requests come one by one.
\* An employee's product may be shipped again before its shipment is on its way, so
\* returns and relocations are excluded; so are a merge that may die half-way, and a
\* patch that revives a shipment.

TravelAssumption ==
    /\ Operations \cap {"return", "relocate"} = {}
    /\ Serial \/ Operations \cap {"cancel", "setStatus", "reschedule"} = {}
    /\ ~({"reschedule", "crash"} \subseteq Operations)
    /\ "patch" \in Operations => SetStatuses \cap ActiveStatuses = {}

Locked(p)      == products[p].activeShipment /\ products[p].fp_shipment
SameEnds(a, b) == a.origin = b.origin /\ a.destination = b.destination

\* The shipment is being merged away, and its products are already in the other one.
InMerge(s) == \E r \in Requests : requests[r].pc = "merged" /\ requests[r].shipment = s

ProductsLocked == \A p \in Products : ActiveShipmentsOf(p) # {} => Locked(p)
OneShipment ==
    \A p \in Products : \A s, t \in ActiveShipmentsOf(p) : s = t \/ InMerge(s) \/ InMerge(t)

PlacesSound == ProductsLocked /\ OneShipment /\ CarriedBetweenEnds

\* Another shipment has taken over what s carries.
TakenOver(s) ==
    \E t \in DOMAIN shipments \ {s} :
        /\ Editable(shipments[t]) /\ SameEnds(shipments[s], shipments[t])
        /\ Carried(shipments[s]) \subseteq Carried(shipments[t])

PreparedSound(s) == s.from \in Pool /\ ~s.seen.activeShipment

\* What was seen of a shipment still holds of it.
SeenSound(s) ==
    /\ Serial /\ s.shipment \in DOMAIN shipments /\ Active(shipments[s.shipment])
    /\ s.seen.status \in ActiveStatuses
    /\ s.seen.products = shipments[s.shipment].products
    /\ SameEnds(s.seen, shipments[s.shipment])

TargetSound(s) ==
    /\ s.target \in DOMAIN shipments \ {s.shipment} /\ Editable(shipments[s.target])
    /\ SameEnds(shipments[s.target], s.seen)

MergedSound(s) == Serial /\ s.shipment \in DOMAIN shipments /\ TakenOver(s.shipment)

\* A task that frees a product finds it in no shipment.
Clears(task) == task.kind \in {"release", "receive", "unlock"}
TaskSound(task) == Clears(task) => Serial /\ ActiveShipmentsOf(task.on) = {}

\* A product that has still to be handed over is locked, and in no shipment but one
\* that goes the same way.
SettleSound(todo) ==
    /\ todo.from \in Pool /\ Locked(todo.product)
    /\ \A t \in ActiveShipmentsOf(todo.product) :
          /\ Editable(shipments[t])
          /\ shipments[t].origin = todo.from /\ shipments[t].destination = todo.to

FollowSound(s) ==
    /\ \A i \in DOMAIN s.tasks : TaskSound(s.tasks[i])
    /\ \A i \in DOMAIN s.tasks : Clears(s.tasks[i]) => s.settle = <<>>
    /\ \A i \in DOMAIN s.settle : SettleSound(s.settle[i])

RequestSound(s) ==
    /\ s.pc = "prepared" => PreparedSound(s)
    /\ s.pc \in {"loaded", "redating", "merging"} => SeenSound(s)
    /\ s.pc = "loaded" => s.op \in Operations
    /\ s.pc = "merging" => TargetSound(s)
    /\ s.pc \in {"merging", "merged"} => "reschedule" \in Operations
    /\ s.pc = "merged" => MergedSound(s)
    /\ s.pc = "followUp" => FollowSound(s)

TravelInv == PlacesSound /\ \A r \in Requests : RequestSound(requests[r])

-----------------------------------------------------------------------------
\* Steps by what they leave alone.

\* No shipment carries more, goes elsewhere or comes back to life.
Lighter ==
    /\ DOMAIN shipments' = DOMAIN shipments
    /\ \A s \in DOMAIN shipments :
          /\ shipments'[s].products = shipments[s].products
          /\ SameEnds(shipments'[s], shipments[s])
          /\ Active(shipments'[s]) => Active(shipments[s])
LocksHeld  == \A p \in Products : ActiveShipmentsOf(p) # {} /\ Locked(p) => Locked(p)'
PlacesHeld ==
    \A p \in Products : \A s \in ActiveShipmentsOf(p) :
        products[p].holders \subseteq Ends(shipments[s])
           => products'[p].holders \subseteq Ends(shipments[s])
LocksKept  == \A p \in Products : Locked(p) => Locked(p)'
MergesKept ==
    \A s \in DOMAIN shipments : InMerge(s) /\ Active(shipments'[s]) => InMerge(s)'
EditableKept ==
    \A s \in DOMAIN shipments :
        Editable(shipments[s]) /\ Active(shipments'[s]) => Editable(shipments'[s])

LEMMA FewerShipments ==
    ASSUME Lighter, NEW p
    PROVE  ActiveShipmentsOf(p)' \subseteq ActiveShipmentsOf(p)
BY DEF Lighter, ActiveShipmentsOf, Carried

LEMMA PlacesKept ==
    ASSUME TypeInv, PlacesSound, Lighter, PlacesHeld, LocksHeld, MergesKept
    PROVE  PlacesSound'
<1>1. \A p \in Products : ActiveShipmentsOf(p)' \subseteq ActiveShipmentsOf(p)
  BY FewerShipments
<1>2. ProductsLocked'
  <2> SUFFICES ASSUME NEW p \in Products, ActiveShipmentsOf(p)' # {} PROVE Locked(p)'
    BY DEF ProductsLocked
  <2>1. ActiveShipmentsOf(p) # {}  BY <1>1
  <2> QED  BY <2>1 DEF PlacesSound, ProductsLocked, LocksHeld
<1>3. OneShipment'
  <2> SUFFICES ASSUME NEW p \in Products, NEW s \in ActiveShipmentsOf(p)',
                      NEW t \in ActiveShipmentsOf(p)'
               PROVE  s = t \/ InMerge(s)' \/ InMerge(t)'
    BY DEF OneShipment
  <2>1. s \in ActiveShipmentsOf(p) /\ t \in ActiveShipmentsOf(p)  BY <1>1
  <2>2. /\ s \in DOMAIN shipments /\ t \in DOMAIN shipments
        /\ Active(shipments'[s]) /\ Active(shipments'[t])
    BY <2>1 DEF ActiveShipmentsOf
  <2>3. s = t \/ InMerge(s) \/ InMerge(t)  BY <2>1 DEF PlacesSound, OneShipment
  <2> QED  BY <2>2, <2>3 DEF MergesKept
<1>4. CarriedBetweenEnds'
  <2> SUFFICES ASSUME NEW s \in DOMAIN shipments', Active(shipments'[s]),
                      NEW p \in Carried(shipments'[s])
               PROVE  products'[p].holders \subseteq Ends(shipments'[s])
    BY DEF CarriedBetweenEnds, Active, Carried, Ends
  <2>1. /\ s \in DOMAIN shipments /\ Active(shipments[s])
        /\ Carried(shipments'[s]) = Carried(shipments[s])
        /\ Ends(shipments'[s]) = Ends(shipments[s])
    BY DEF Lighter, Carried, SameEnds, Ends
  <2>2. p \in Products
    <3>1. shipments[s] \in Shipment  BY <2>1, Rows
    <3>2. shipments[s].products \in Seq(Products)  BY <3>1 DEF Shipment
    <3>3. \E i \in DOMAIN shipments[s].products : p = shipments[s].products[i]
      BY <2>1 DEF Carried, Range
    <3> QED  BY <3>2, <3>3
  <2>3. /\ products[p].holders \subseteq Ends(shipments[s])
        /\ s \in ActiveShipmentsOf(p)
    BY <2>1 DEF PlacesSound, CarriedBetweenEnds, ActiveShipmentsOf, Lighter, Carried
  <2> QED  BY <2>1, <2>2, <2>3 DEF PlacesHeld
<1> QED  BY <1>2, <1>3, <1>4 DEF PlacesSound

\* What another request has still to hand over is as it was.
SettlesKept ==
    \A p \in Products : Locked(p) =>
        /\ Locked(p)'
        /\ \A t \in ActiveShipmentsOf(p)' :
              /\ t \in ActiveShipmentsOf(p) /\ SameEnds(shipments'[t], shipments[t])
              /\ Editable(shipments[t]) => Editable(shipments'[t])

LEMMA LighterSettles ==
    ASSUME TypeInv, Lighter, LocksKept, EditableKept
    PROVE  SettlesKept
<1> SUFFICES ASSUME NEW p \in Products, Locked(p)
             PROVE  /\ Locked(p)'
                    /\ \A t \in ActiveShipmentsOf(p)' :
                          /\ t \in ActiveShipmentsOf(p) /\ SameEnds(shipments'[t], shipments[t])
                          /\ Editable(shipments[t]) => Editable(shipments'[t])
  BY DEF SettlesKept
<1>1. ASSUME NEW t \in ActiveShipmentsOf(p)'
      PROVE  /\ t \in ActiveShipmentsOf(p) /\ SameEnds(shipments'[t], shipments[t])
             /\ Editable(shipments[t]) => Editable(shipments'[t])
  <2>1. t \in ActiveShipmentsOf(p)  BY FewerShipments
  <2>2. t \in DOMAIN shipments /\ Active(shipments'[t])
    BY <2>1 DEF ActiveShipmentsOf
  <2> QED  BY <2>1, <2>2 DEF Lighter, EditableKept
<1> QED  BY <1>1 DEF LocksKept

LEMMA SettleKept ==
    ASSUME SettlesKept, NEW todo \in Settlements, SettleSound(todo)
    PROVE  SettleSound(todo)'
<1>1. todo.product \in Products  BY DEF Settlements
<1>2. /\ Locked(todo.product)'
      /\ \A t \in ActiveShipmentsOf(todo.product)' :
            /\ t \in ActiveShipmentsOf(todo.product) /\ SameEnds(shipments'[t], shipments[t])
            /\ Editable(shipments[t]) => Editable(shipments'[t])
  BY <1>1 DEF SettlesKept, SettleSound
<1>3. \A t \in ActiveShipmentsOf(todo.product)' :
         /\ Editable(shipments'[t])
         /\ shipments'[t].origin = todo.from /\ shipments'[t].destination = todo.to
  BY <1>2 DEF SettleSound, SameEnds
<1> QED  BY <1>2, <1>3 DEF SettleSound

\* Two requests in flight: the other one has checked no shipment and frees no product.
LEMMA OthersSound ==
    ASSUME TypeInv, TravelInv, NEW r \in Requests, Step(r), Serial \/ SettlesKept
    PROVE  \A q \in Requests \ {r} : RequestSound(requests[q])'
<1> SUFFICES ASSUME NEW q \in Requests, q # r PROVE RequestSound(requests[q])'
  OBVIOUS
<1>1. requests'[q] = requests[q] /\ ~Serial /\ SettlesKept  BY PcSteps DEF Serial
<1>2. RequestSound(requests[q])  BY DEF TravelInv
<1>3. requests[q].pc \notin {"loaded", "redating", "merging", "merged"}
  BY <1>1, <1>2 DEF RequestSound, SeenSound, MergedSound
<1>4. ASSUME requests[q].pc = "followUp" PROVE FollowSound(requests[q])'
  <2>1. FollowSound(requests[q])  BY <1>2, <1>4 DEF RequestSound
  <2>2. \A i \in DOMAIN requests[q].tasks : ~Clears(requests[q].tasks[i])
    BY <1>1, <2>1 DEF FollowSound, TaskSound
  <2>3. ASSUME NEW i \in DOMAIN requests[q].settle
        PROVE  SettleSound(requests[q].settle[i])'
    <3> DEFINE todo == requests[q].settle[i]
    <3>1. requests[q].settle \in Seq(Settlements)  BY <1>4, PcTypes DEF TypeInv, Following
    <3>2. todo \in Settlements /\ SettleSound(todo)  BY <2>1, <2>3, <3>1 DEF FollowSound
    <3>3. requests'[q].settle[i] = todo  BY <1>1
    <3> HIDE DEF todo
    <3>4. PICK old : old = todo  OBVIOUS
    <3>5. SettleSound(old)'  BY <1>1, <3>2, <3>4, SettleKept
    <3> QED  BY <3>3, <3>4, <3>5 DEF SettleSound, Locked
  <2> QED  BY <1>1, <2>2, <2>3 DEF FollowSound, TaskSound, Clears
<1> QED  BY <1>1, <1>2, <1>3, <1>4 DEF RequestSound, PreparedSound

\* Only the second save of a merge ends one.
LEMMA MergesGoOn ==
    ASSUME TravelAssumption, TypeInv, TravelInv, NEW r \in Requests, Step(r), ~DeleteMerged(r)
    PROVE  requests[r].pc # "merged" /\ MergesKept
<1>1. requests[r].pc # "merged"
  <2>1. RequestSound(requests[r])  BY DEF TravelInv
  <2>2. ASSUME requests[r].pc = "merged" PROVE ~Crash(r)
    BY <2>1, <2>2 DEF RequestSound, TravelAssumption, Crash
  <2>3. ASSUME requests[r].pc = "merged" PROVE ~Arrive(r)
    <3>1. requests[r] # Idle  BY <2>3 DEF Idle
    <3>2. Arrive(r) => \E op : Starts(r, op)
      BY DEF Arrive, Prepare, Move, Load, Patch, UpdateMember, CheckOffice, UpdateDefaultOffice
    <3> QED  BY <3>1, <3>2 DEF Starts
  <2>4. ASSUME requests[r].pc = "merged" PROVE ~(Continue(r) \/ Abort(r))
    BY <2>4 DEF Continue, Working, Consolidate, Create, Settle, Cancel, SetStatus, FindTarget, SaveTarget,
       DeleteMerged, Redate, Count, WriteFlag, FindHolder, ReadProduct, WriteProduct,
       UpdateOffice, Abort
  <2> QED  BY <2>2, <2>3, <2>4 DEF Step
<1>2. \A q \in Requests \ {r} : requests'[q] = requests[q]  BY PcSteps
<1>3. ASSUME NEW s, InMerge(s) PROVE InMerge(s)'
  BY <1>1, <1>2, <1>3 DEF InMerge
<1> QED  BY <1>1, <1>3 DEF MergesKept

\* Nothing that the invariant is about changes.
Steady ==
    /\ requests' = requests
    /\ DOMAIN shipments' = DOMAIN shipments
    /\ \A s \in DOMAIN shipments :
          /\ shipments'[s].products = shipments[s].products
          /\ SameEnds(shipments'[s], shipments[s])
          /\ Active(shipments'[s]) <=> Active(shipments[s])
          /\ Editable(shipments'[s]) <=> Editable(shipments[s])
    /\ \A p \in Products : KeepsPlace(products'[p], products[p])

LEMMA SteadySound ==
    ASSUME TypeInv, TravelInv, Steady
    PROVE  TravelInv'
<1>1. Lighter /\ PlacesHeld /\ LocksKept /\ LocksHeld /\ EditableKept
  BY DEF Steady, Lighter, PlacesHeld, LocksKept, LocksHeld, EditableKept, KeepsPlace, Locked
<1>2. MergesKept  BY DEF Steady, MergesKept, InMerge
<1>3. PlacesSound'  BY <1>1, <1>2, PlacesKept DEF TravelInv
<1>4. SettlesKept  BY <1>1, LighterSettles
<1> SUFFICES ASSUME NEW r \in Requests PROVE RequestSound(requests[r])'
  BY <1>3 DEF TravelInv
<1>5. requests'[r] = requests[r] /\ RequestSound(requests[r])  BY DEF Steady, TravelInv
<1>6. ASSUME requests[r].pc = "followUp" PROVE FollowSound(requests[r])'
  <2>1. FollowSound(requests[r])  BY <1>5, <1>6 DEF RequestSound
  <2>2. ASSUME NEW i \in DOMAIN requests[r].tasks PROVE TaskSound(requests[r].tasks[i])'
    <3>1. TaskSound(requests[r].tasks[i])  BY <2>1, <2>2 DEF FollowSound
    <3>2. \A p : ActiveShipmentsOf(p)' \subseteq ActiveShipmentsOf(p)
      BY <1>1, FewerShipments
    <3> QED  BY <1>5, <3>1, <3>2 DEF TaskSound, Clears
  <2>3. ASSUME NEW i \in DOMAIN requests[r].settle
        PROVE  SettleSound(requests[r].settle[i])'
    <3>1. requests[r].settle \in Seq(Settlements)  BY <1>6, PcTypes DEF TypeInv, Following
    <3>2. PICK old \in Settlements : old = requests[r].settle[i]  BY <2>3, <3>1
    <3>3. SettleSound(old)  BY <2>1, <2>3, <3>2 DEF FollowSound
    <3>4. SettleSound(old)'  BY <1>4, <3>3, SettleKept
    <3> QED  BY <1>5, <3>2, <3>4 DEF SettleSound, Locked
  <2> QED  BY <1>5, <2>1, <2>2, <2>3 DEF FollowSound, Clears
<1>7. ASSUME requests[r].pc \in {"loaded", "redating", "merging"} PROVE SeenSound(requests[r])'
  BY <1>5, <1>7 DEF RequestSound, SeenSound, Steady, SameEnds
<1>8. ASSUME requests[r].pc = "merging" PROVE TargetSound(requests[r])'
  BY <1>5, <1>8 DEF RequestSound, TargetSound, Steady, SameEnds
<1>9. ASSUME requests[r].pc = "merged" PROVE MergedSound(requests[r])'
  <2> DEFINE k == requests[r].shipment
  <2>1. MergedSound(requests[r])  BY <1>5, <1>9 DEF RequestSound
  <2>2. PICK t \in DOMAIN shipments \ {k} :
           /\ Editable(shipments[t]) /\ SameEnds(shipments[k], shipments[t])
           /\ Carried(shipments[k]) \subseteq Carried(shipments[t])
    BY <2>1 DEF MergedSound, TakenOver
  <2>3. k \in DOMAIN shipments  BY <2>1 DEF MergedSound
  <2>4. /\ Editable(shipments'[t]) /\ SameEnds(shipments'[k], shipments'[t])
        /\ Carried(shipments'[k]) \subseteq Carried(shipments'[t])
        /\ t \in DOMAIN shipments' \ {k} /\ k \in DOMAIN shipments'
    BY <2>2, <2>3 DEF Steady, SameEnds, Carried
  <2> QED  BY <1>5, <2>1, <2>4 DEF MergedSound, TakenOver, Editable, Carried, SameEnds
<1> QED  BY <1>5, <1>6, <1>7, <1>8, <1>9 DEF RequestSound, PreparedSound

LEMMA EventSteady ==
    ASSUME TypeInv, HandleEvent
    PROVE  /\ Steady
           /\ \A s \in DOMAIN shipments : shipments'[s].isDeleted = shipments[s].isDeleted
<1>1. DOMAIN shipments' = DOMAIN shipments  BY EventRefreshes
<1>2. ASSUME NEW s \in DOMAIN shipments
      PROVE  /\ shipments'[s].products = shipments[s].products
             /\ SameEnds(shipments'[s], shipments[s])
             /\ shipments'[s].isDeleted = shipments[s].isDeleted
             /\ Active(shipments'[s]) <=> Active(shipments[s])
             /\ Editable(shipments'[s]) <=> Editable(shipments[s])
  BY EventRefreshes, Statuses DEF Active, Editable, SameEnds
<1> QED  BY <1>1, <1>2, EventKeepsProducts DEF Steady

\* Steps after which no shipment carries more and no product is less locked.
LEMMA LighterSound ==
    ASSUME TravelAssumption, TypeInv, TravelInv, NEW r \in Requests, Step(r), ~DeleteMerged(r),
           Lighter, PlacesHeld, LocksKept, EditableKept, RequestSound(requests[r])'
    PROVE  TravelInv'
<1>1. LocksHeld  BY DEF LocksKept, LocksHeld
<1>2. MergesKept  BY MergesGoOn
<1>3. PlacesSound'  BY <1>1, <1>2, PlacesKept DEF TravelInv
<1>4. SettlesKept  BY LighterSettles
<1>5. \A q \in Requests \ {r} : RequestSound(requests[q])'  BY <1>4, OthersSound
<1> QED  BY <1>3, <1>5 DEF TravelInv

\* Steps that change neither shipments nor products.
LEMMA StillSound ==
    ASSUME TravelAssumption, TypeInv, TravelInv, NEW r \in Requests, Step(r), ~DeleteMerged(r),
           UNCHANGED <<shipments, products>>, RequestSound(requests[r])'
    PROVE  TravelInv'
<1>1. Lighter /\ PlacesHeld /\ LocksKept /\ EditableKept
  BY DEF Lighter, PlacesHeld, LocksKept, EditableKept, SameEnds, Locked, Active
<1> QED  BY <1>1, LighterSound

\* A state in which a request has nothing to rely on.
LEMMA NothingToRely ==
    ASSUME NEW r, requests'[r].pc \in {"idle", "officeChecked"}
    PROVE  RequestSound(requests[r])'
BY DEF RequestSound

LEMMA PrepareSound ==
    ASSUME TravelAssumption, TypeInv, TravelInv, NEW r \in Requests, Prepare(r)
    PROVE  RequestSound(requests[r])'
<1>0. PICK p \in Products, to \in Places, date \in Dates :
         \E from \in Visible(p) \ {to} :
            /\ Starts(r, MoveKind(from, to)) /\ MayChange(p, from)
            /\ Become(r, [pc |-> "prepared", product |-> p, from |-> from,
                          to |-> to, date |-> date, seen |-> products[p],
                          fromCalled |-> CalledAt(from), toCalled |-> CalledAt(to),
                          fromComplete |-> AddressComplete(from),
                          toComplete |-> AddressComplete(to),
                          toFlagged |-> to \in Members /\ flagged[to]])
  BY DEF Prepare
<1>1. PICK from \in Visible(p) \ {to} :
         /\ Starts(r, MoveKind(from, to)) /\ MayChange(p, from)
         /\ Become(r, [pc |-> "prepared", product |-> p, from |-> from,
                       to |-> to, date |-> date, seen |-> products[p],
                       fromCalled |-> CalledAt(from), toCalled |-> CalledAt(to),
                       fromComplete |-> AddressComplete(from),
                       toComplete |-> AddressComplete(to),
                       toFlagged |-> to \in Members /\ flagged[to]])
  BY <1>0
<1>2. /\ requests'[r].pc = "prepared" /\ requests'[r].from = from
      /\ requests'[r].seen = products[p]
  BY <1>1, BecomeIs
<1>3. from \in Places  BY VisibleType
<1>4. MoveKind(from, to) \notin {"return", "relocate"}
  BY <1>1 DEF Starts, TravelAssumption
<1>5. from \in Pool  BY <1>3, <1>4, MoveKinds DEF Places
<1>6. ~products[p].activeShipment  BY <1>1, <1>5 DEF MayChange, MayLeavePool
<1> QED  BY <1>2, <1>5, <1>6 DEF RequestSound, PreparedSound

LEMMA LoadSound ==
    ASSUME TravelAssumption, TypeInv, TravelInv, NEW r \in Requests, Load(r)
    PROVE  RequestSound(requests[r])'
<1>1. PICK op \in {"cancel", "setStatus", "reschedule"}, s \in DOMAIN shipments :
         /\ op \in Operations /\ ~shipments[s].isDeleted
         /\ shipments[s].status \in Changeable(op)
         /\ Become(r, [pc |-> "loaded", op |-> op, shipment |-> s, seen |-> shipments[s]])
         /\ UNCHANGED shipments
  BY DEF Load, Starts
<1>2. /\ requests'[r].pc = "loaded" /\ requests'[r].op = op
      /\ requests'[r].shipment = s /\ requests'[r].seen = shipments[s]
  BY <1>1, BecomeIs
<1>3. Serial  BY <1>1 DEF TravelAssumption
<1>4. shipments[s].status \in ActiveStatuses  BY <1>1, Statuses
<1> QED  BY <1>1, <1>2, <1>3, <1>4 DEF RequestSound, SeenSound, SameEnds, Active

LEMMA FindTargetSound ==
    ASSUME TypeInv, TravelInv, NEW r \in Requests, FindTarget(r)
    PROVE  RequestSound(requests[r])'
<1> DEFINE s == requests[r]
           others(date) ==
             Consolidatable(s.seen.origin, s.seen.originCalled,
                            s.seen.destination, s.seen.destinationCalled, date)
               \ {s.shipment}
           alone(date) == [pc |-> "redating", shipment |-> s.shipment,
                           seen |-> s.seen, date |-> date]
           joined(date, t) ==
             [pc |-> "merging", shipment |-> s.shipment, seen |-> s.seen,
              date |-> date, target |-> t, targetProducts |-> shipments[t].products]
<1>1. PICK date \in Dates :
         \/ Become(r, alone(date))
         \/ \E t \in others(date) : Become(r, joined(date, t))
  BY DEF FindTarget
<1>2. /\ RequestSound(s) /\ s.pc = "loaded" /\ s.op = "reschedule" /\ UNCHANGED shipments
  BY DEF TravelInv, FindTarget
<1>3. SeenSound(s) /\ "reschedule" \in Operations  BY <1>2 DEF RequestSound
<1>4. CASE Become(r, alone(date))
  <2>1. /\ requests'[r].pc = "redating" /\ requests'[r].shipment = s.shipment
        /\ requests'[r].seen = s.seen
    BY <1>4, BecomeIs
  <2> QED  BY <1>2, <1>3, <2>1 DEF RequestSound, SeenSound, Active, SameEnds
<1>5. ASSUME NEW t \in others(date), Become(r, joined(date, t))
      PROVE  RequestSound(requests[r])'
  <2>1. /\ requests'[r].pc = "merging" /\ requests'[r].shipment = s.shipment
        /\ requests'[r].seen = s.seen /\ requests'[r].target = t
    BY <1>5, BecomeIs
  <2>2. /\ t \in DOMAIN shipments /\ Editable(shipments[t])
        /\ SameEnds(shipments[t], s.seen) /\ t # s.shipment
    BY <1>5 DEF Consolidatable, SameEnds
  <2>3. SeenSound(requests[r])'
    BY <1>2, <1>3, <2>1 DEF SeenSound, Active, SameEnds
  <2>4. TargetSound(requests[r])'
    BY <1>2, <2>1, <2>2 DEF TargetSound, Editable, SameEnds
  <2> QED  BY <1>3, <2>1, <2>3, <2>4 DEF RequestSound
<1> QED  BY <1>1, <1>4, <1>5

-----------------------------------------------------------------------------
\* The lists of tasks.

\* Tasks that free no product outside P.
TasksOver(P) == {task \in Tasks : Clears(task) => task.on \in P}

LEMMA OfficeTasksOver ==
    ASSUME NEW sh, NEW P
    PROVE  OfficeTasks(sh) \in Seq(TasksOver(P))
<1>1. ASSUME NEW x PROVE OfficeTask(x) \in Seq(TasksOver(P))
  <2>1. CASE x \in Offices
    <3>1. [kind |-> "office", on |-> x] \in TasksOver(P)
      BY <2>1 DEF TasksOver, Tasks, Clears
    <3> QED  BY <2>1, <3>1 DEF OfficeTask
  <2>2. CASE x \notin Offices  BY <2>2 DEF OfficeTask
  <2> QED  BY <2>1, <2>2
<1>2. /\ OfficeTask(sh.origin) \in Seq(TasksOver(P))
      /\ OfficeTask(sh.destination) \in Seq(TasksOver(P))
  BY <1>1
<1> QED  BY <1>2 DEF OfficeTasks

LEMMA MemberTasksOver ==
    ASSUME NEW sh \in Shipment, NEW P
    PROVE  MemberTasks(sh) \in Seq(TasksOver(P))
<1>1. ASSUME NEW x, NEW email \in Names
      PROVE  MemberTask(x, email) \in Seq(TasksOver(P))
  <2>1. CASE x \in Members
    <3>1. [kind |-> "member", on |-> x, email |-> email] \in TasksOver(P)
      BY <2>1 DEF TasksOver, Tasks, Clears
    <3> QED  BY <2>1, <3>1 DEF MemberTask
  <2>2. CASE x \notin Members  BY <2>2 DEF MemberTask
  <2> QED  BY <2>1, <2>2
<1>2. sh.originCalled.email \in Names /\ sh.destinationCalled.email \in Names
  BY DEF Shipment, Called
<1>3. /\ MemberTask(sh.origin, sh.originCalled.email) \in Seq(TasksOver(P))
      /\ MemberTask(sh.destination, sh.destinationCalled.email) \in Seq(TasksOver(P))
  BY <1>1, <1>2
<1> QED  BY <1>3 DEF MemberTasks

LEMMA ProductTasksOver ==
    ASSUME NEW kind \in {"release", "receive", "unlock", "holder", "toInTransit"},
           NEW sh \in Shipment, NEW P, kind = "toInTransit" \/ Carried(sh) \subseteq P
    PROVE  ProductTasks(kind, sh) \in Seq(TasksOver(P))
<1>1. sh.products \in Seq(Products)  BY DEF Shipment
<1>2. /\ DOMAIN sh.products = 1 .. Len(sh.products) /\ Len(sh.products) \in Nat
      /\ \A i \in DOMAIN sh.products : sh.products[i] \in Products
  BY <1>1
<1>3. ASSUME NEW i \in DOMAIN sh.products
      PROVE  [kind |-> kind, on |-> sh.products[i]] \in TasksOver(P)
  <2>1. sh.products[i] \in Carried(sh)  BY DEF Carried, Range
  <2>2. [kind |-> kind, on |-> sh.products[i]] \in Tasks  BY <1>2 DEF Tasks
  <2> QED  BY <2>1, <2>2 DEF TasksOver, Clears
<1>4. ProductTasks(kind, sh) \in [1 .. Len(sh.products) -> TasksOver(P)]
  BY <1>2, <1>3 DEF ProductTasks
<1> QED  BY <1>2, <1>4

LEMMA OverSound ==
    ASSUME NEW P, NEW tasks \in Seq(TasksOver(P)), NEW i \in DOMAIN tasks
    PROVE  tasks[i] \in Tasks /\ (Clears(tasks[i]) => tasks[i].on \in P)
<1>1. tasks[i] \in TasksOver(P)  OBVIOUS
<1> QED  BY <1>1 DEF TasksOver

LEMMA FollowFresh ==
    ASSUME TypeInv, NEW r \in Requests, NEW op, NEW tasks, NEW settle,
           FollowUp(r, op, tasks, settle),
           \A i \in DOMAIN tasks : TaskSound(tasks[i])' /\ (Clears(tasks[i]) => settle = <<>>),
           \A i \in DOMAIN settle : SettleSound(settle[i])'
    PROVE  RequestSound(requests[r])'
<1>1. CASE requests'[r] = Idle  BY <1>1 DEF RequestSound, Idle
<1>2. CASE /\ requests'[r].pc = "followUp" /\ requests'[r].tasks = tasks
           /\ requests'[r].settle = settle
  <2>1. FollowSound(requests[r])'
    BY <1>2 DEF FollowSound, TaskSound, Clears, SettleSound, Locked
  <2> QED  BY <1>2, <2>1 DEF RequestSound
<1> QED  BY <1>1, <1>2, FollowUpIs

LEMMA TailElements ==
    ASSUME NEW T, NEW more \in Seq(T), NEW ts \in Seq(T), ts # <<>>,
           NEW i \in DOMAIN (more \o Tail(ts))
    PROVE  \/ \E j \in DOMAIN more : (more \o Tail(ts))[i] = more[j]
           \/ \E j \in DOMAIN ts : (more \o Tail(ts))[i] = ts[j]
<1>1. /\ Len(more) \in Nat /\ DOMAIN more = 1 .. Len(more)
      /\ Len(ts) \in Nat /\ Len(ts) # 0 /\ DOMAIN ts = 1 .. Len(ts)
  OBVIOUS
<1>2. /\ Tail(ts) \in Seq(T) /\ Len(Tail(ts)) = Len(ts) - 1
      /\ \A j \in 1 .. Len(ts) - 1 : Tail(ts)[j] = ts[j + 1]
  BY <1>1
<1>3. DOMAIN (more \o Tail(ts)) = 1 .. Len(more) + (Len(ts) - 1)
  BY <1>1, <1>2
<1>4. CASE i <= Len(more)
  <2>1. i \in DOMAIN more /\ (more \o Tail(ts))[i] = more[i]  BY <1>1, <1>2, <1>3, <1>4
  <2> QED  BY <2>1
<1>5. CASE ~(i <= Len(more))
  <2>1. i - Len(more) \in 1 .. Len(ts) - 1  BY <1>1, <1>3, <1>5
  <2>2. (more \o Tail(ts))[i] = Tail(ts)[i - Len(more)]  BY <1>1, <1>2, <1>3, <1>5, <2>1
  <2>3. i - Len(more) + 1 \in DOMAIN ts  BY <1>1, <2>1
  <2> QED  BY <1>2, <2>1, <2>2, <2>3
<1> QED  BY <1>4, <1>5

\* What is left of a follow-up whose head task is over, or has read.
LEMMA FollowGoes ==
    ASSUME TypeInv, TravelInv, NEW r \in Requests, requests[r].pc = "followUp",
           requests[r].tasks # <<>>, UNCHANGED shipments,
           SettlesKept \/ requests[r].settle = <<>>,
           NEW tasks, requests'[r].pc = "followUp", requests'[r].tasks = tasks,
           requests'[r].settle = requests[r].settle,
           \A i \in DOMAIN tasks :
              \/ \E j \in DOMAIN requests[r].tasks :
                    /\ tasks[i].on = requests[r].tasks[j].on \/ ~Clears(tasks[i])
                    /\ Clears(tasks[i]) => Clears(requests[r].tasks[j])
              \/ ~Clears(tasks[i])
    PROVE  RequestSound(requests[r])'
<1>1. FollowSound(requests[r])  BY DEF TravelInv, RequestSound
<1>2. ASSUME NEW i \in DOMAIN tasks, Clears(tasks[i])
      PROVE  Serial /\ ActiveShipmentsOf(tasks[i].on) = {} /\ requests[r].settle = <<>>
  <2>1. PICK j \in DOMAIN requests[r].tasks :
            tasks[i].on = requests[r].tasks[j].on /\ Clears(requests[r].tasks[j])
    BY <1>2
  <2> QED  BY <1>1, <2>1 DEF FollowSound, TaskSound
<1>3. \A p : ActiveShipmentsOf(p)' = ActiveShipmentsOf(p)
  BY DEF ActiveShipmentsOf, Active, Carried
<1>4. ASSUME NEW i \in DOMAIN requests[r].settle
      PROVE  SettleSound(requests[r].settle[i])'
  <2>1. requests[r].settle \in Seq(Settlements)  BY PcTypes DEF TypeInv, Following
  <2>2. PICK old \in Settlements : old = requests[r].settle[i]  BY <1>4, <2>1
  <2>3. SettleSound(old) /\ SettlesKept  BY <1>1, <1>4, <2>2 DEF FollowSound
  <2>4. SettleSound(old)'  BY <2>3, SettleKept
  <2>5. requests'[r].settle[i] = old  BY <2>2
  <2> QED  BY <2>4, <2>5 DEF SettleSound, Locked
<1>5. FollowSound(requests[r])'
  BY <1>2, <1>3, <1>4 DEF FollowSound, TaskSound, Clears
<1> QED  BY <1>5 DEF RequestSound

LEMMA DoneSound ==
    ASSUME TypeInv, TravelInv, NEW r \in Requests, NEW kinds, Working(r, kinds),
           UNCHANGED shipments, SettlesKept \/ requests[r].settle = <<>>,
           NEW more \in Seq(Tasks), Done(r, more),
           \A i \in DOMAIN more :
              Clears(more[i]) => Clears(HeadTask(r)) /\ more[i].on = HeadTask(r).on
    PROVE  RequestSound(requests[r])'
<1>1. /\ requests[r].pc = "followUp" /\ requests[r].tasks # <<>>
      /\ HeadTask(r) = requests[r].tasks[1]
  BY WorkingType
<1>2. requests[r].tasks \in Seq(Tasks)  BY <1>1, PcTypes DEF TypeInv, Following
<1>3. PICK tasks : tasks = more \o Tail(requests[r].tasks)  OBVIOUS
<1>4. ASSUME NEW i \in DOMAIN tasks
      PROVE  \/ \E j \in DOMAIN requests[r].tasks :
                   /\ tasks[i].on = requests[r].tasks[j].on \/ ~Clears(tasks[i])
                   /\ Clears(tasks[i]) => Clears(requests[r].tasks[j])
             \/ ~Clears(tasks[i])
  <2>1. \/ \E j \in DOMAIN more : tasks[i] = more[j]
        \/ \E j \in DOMAIN requests[r].tasks : tasks[i] = requests[r].tasks[j]
    <3>1. PICK old \in Seq(Tasks) : old = requests[r].tasks  BY <1>2
    <3>2. old # <<>> /\ i \in DOMAIN (more \o Tail(old))  BY <1>1, <1>3, <1>4, <3>1
    <3>3. \/ \E j \in DOMAIN more : (more \o Tail(old))[i] = more[j]
          \/ \E j \in DOMAIN old : (more \o Tail(old))[i] = old[j]
      BY <3>2, TailElements
    <3> QED  BY <1>3, <3>1, <3>3
  <2>2. 1 \in DOMAIN requests[r].tasks  BY <1>1, <1>2
  <2> QED  BY <1>1, <2>1, <2>2
<1>5. CASE requests'[r] = Idle  BY <1>5 DEF RequestSound, Idle
<1>6. CASE /\ requests'[r].pc = "followUp" /\ requests'[r].tasks = tasks
           /\ requests'[r].settle = requests[r].settle
  BY <1>1, <1>4, <1>6, FollowGoes
<1> QED  BY <1>3, <1>5, <1>6, DoneIs

LEMMA GotSound ==
    ASSUME TypeInv, TravelInv, NEW r \in Requests, NEW kinds, Working(r, kinds),
           UNCHANGED <<shipments, products>>, NEW reading, Got(r, reading)
    PROVE  RequestSound(requests[r])'
<1>1. requests[r].pc = "followUp" /\ requests[r].tasks # <<>>  BY WorkingType
<1>2. /\ requests'[r].pc = "followUp" /\ requests'[r].tasks = requests[r].tasks
      /\ requests'[r].settle = requests[r].settle
  BY <1>1, GotIs
<1>3. PICK tasks : tasks = requests[r].tasks  OBVIOUS
<1>4. SettlesKept
  BY DEF SettlesKept, Locked, ActiveShipmentsOf, SameEnds, Editable, Active, Carried
<1> QED  BY <1>1, <1>2, <1>3, <1>4, FollowGoes

-----------------------------------------------------------------------------
\* One lemma per kind of step.

LEMMA UnchangedSettles == ASSUME UNCHANGED <<shipments, products>> PROVE SettlesKept
BY DEF SettlesKept, Locked, ActiveShipmentsOf, SameEnds, Editable, Active, Carried

LEMMA StillSteps ==
    ASSUME TravelAssumption, TypeInv, TravelInv, NEW r \in Requests, ~DeleteMerged(r),
           \/ Prepare(r) \/ Load(r) \/ UpdateMember(r) \/ CheckOffice(r)
           \/ UpdateDefaultOffice(r) \/ FindTarget(r) \/ Count(r) \/ FindHolder(r)
           \/ ReadProduct(r) \/ UpdateOffice(r) \/ Abort(r) \/ Crash(r)
    PROVE  TravelInv'
<1>1. Step(r)  BY DEF Step, Arrive, Continue
<1>2. UNCHANGED <<shipments, products>>
  BY DEF Prepare, Load, UpdateMember, CheckOffice, UpdateDefaultOffice, FindTarget, Count,
     FindHolder, ReadProduct, UpdateOffice, Abort, Crash
<1>3. RequestSound(requests[r])'
  <2>1. CASE Prepare(r)  BY <2>1, PrepareSound
  <2>2. CASE Load(r)  BY <2>2, LoadSound
  <2>3. CASE FindTarget(r)  BY <2>3, FindTargetSound
  <2>4. CASE UpdateMember(r) \/ UpdateDefaultOffice(r)
    <3>1. requests'[r] = Idle
      BY <2>4 DEF UpdateMember, UpdateDefaultOffice, Starts
    <3>2. requests'[r].pc = "idle"  BY <3>1 DEF Idle
    <3> QED  BY <3>2, NothingToRely
  <2>5. CASE CheckOffice(r)
    <3>1. PICK o : Become(r, [pc |-> "officeChecked", office |-> o])
      BY <2>5 DEF CheckOffice
    <3>2. requests'[r].pc = "officeChecked"  BY <3>1, BecomeIs
    <3> QED  BY <3>2, NothingToRely
  <2>6. CASE UpdateOffice(r) \/ Abort(r) \/ Crash(r)
    <3>1. requests'[r].pc = "idle"
      BY <2>6, BecomeIs DEF UpdateOffice, Abort, Crash, Idle
    <3> QED  BY <3>1, NothingToRely
  <2>7. CASE Count(r) \/ ReadProduct(r)
    <3>1. \E kinds : Working(r, kinds)  BY <2>7 DEF Count, ReadProduct
    <3>2. Done(r, <<>>) \/ \E reading : Got(r, reading)
      BY <2>7 DEF Count, ReadProduct
    <3>3. ASSUME Done(r, <<>>) PROVE RequestSound(requests[r])'
      <4>1. <<>> \in Seq(Tasks) /\ DOMAIN <<>> = {}  OBVIOUS
      <4> QED  BY <1>2, <3>1, <3>3, <4>1, DoneSound, UnchangedSettles
    <3> QED  BY <1>2, <3>1, <3>2, <3>3, GotSound
  <2>8. CASE FindHolder(r)
    <3>1. Working(r, {"holder"})  BY <2>8 DEF FindHolder
    <3>2. PICK more \in Seq(Tasks) :
             Done(r, more) /\ \A i \in DOMAIN more : ~Clears(more[i])
      <4>1. CASE Done(r, <<>>)
        <5>1. <<>> \in Seq(Tasks) /\ DOMAIN <<>> = {}  OBVIOUS
        <5> QED  BY <4>1, <5>1
      <4>2. CASE \E m \in Members :
                    Done(r, <<[kind |-> "owner", on |-> m, email |-> called[m].email]>>)
        <5>1. PICK m \in Members :
                 Done(r, <<[kind |-> "owner", on |-> m, email |-> called[m].email]>>)
          BY <4>2
        <5> DEFINE task == [kind |-> "owner", on |-> m, email |-> called[m].email]
        <5>2. called[m].email \in Names  BY Types DEF Called
        <5>3. task \in Tasks /\ task.kind = "owner"  BY <5>2 DEF Tasks
        <5> HIDE DEF task
        <5>4. <<task>> \in Seq(Tasks) /\ \A i \in DOMAIN <<task>> : <<task>>[i].kind = "owner"
          BY <5>3
        <5> QED  BY <5>1, <5>4 DEF Clears, task
      <4> QED  BY <2>8, <4>1, <4>2 DEF FindHolder
    <3> QED  BY <1>2, <3>1, <3>2, DoneSound, UnchangedSettles
  <2> QED  BY <2>1, <2>2, <2>3, <2>4, <2>5, <2>6, <2>7, <2>8
<1> QED  BY <1>1, <1>2, <1>3, StillSound

\* A task that frees a product frees one that is in no shipment.
LEMMA FreedSound ==
    ASSUME TravelAssumption, TypeInv, TravelInv, NEW r \in Requests, ~DeleteMerged(r),
           WriteFlag(r) \/ WriteProduct(r), Serial, NEW x, ActiveShipmentsOf(x) = {},
           \A p \in Products \ {x} : products'[p] = products[p],
           RequestSound(requests[r])'
    PROVE  TravelInv'
<1>1. Step(r)  BY DEF Step, Continue
<1>2. UNCHANGED shipments  BY DEF WriteFlag, WriteProduct
<1>3. Lighter  BY <1>2 DEF Lighter, SameEnds, Active
<1>4. HoldersKept  BY ProductsWritten
<1>5. PlacesHeld  BY <1>4 DEF PlacesHeld, HoldersKept
<1>6. LocksHeld  BY DEF LocksHeld, Locked
<1>7. MergesKept  BY <1>1, MergesGoOn
<1>8. PlacesSound'  BY <1>3, <1>5, <1>6, <1>7, PlacesKept DEF TravelInv
<1> QED  BY <1>1, <1>8, OthersSound DEF TravelInv

\* The head of a list of tasks that frees a product.
LEMMA HeadClears ==
    ASSUME TypeInv, TravelInv, NEW r \in Requests, NEW kinds, Working(r, kinds),
           Clears(HeadTask(r))
    PROVE  /\ Serial /\ ActiveShipmentsOf(HeadTask(r).on) = {}
           /\ requests[r].settle = <<>>
<1>1. /\ requests[r].pc = "followUp" /\ requests[r].tasks # <<>>
      /\ HeadTask(r) = requests[r].tasks[1]
  BY WorkingType
<1>2. requests[r].tasks \in Seq(Tasks)  BY <1>1, PcTypes DEF TypeInv, Following
<1>3. 1 \in DOMAIN requests[r].tasks  BY <1>1, <1>2
<1>4. FollowSound(requests[r])  BY <1>1 DEF TravelInv, RequestSound
<1> QED  BY <1>1, <1>3, <1>4 DEF FollowSound, TaskSound

LEMMA WriteFlagSound ==
    ASSUME TravelAssumption, TypeInv, TravelInv, NEW r \in Requests, ~DeleteMerged(r),
           WriteFlag(r)
    PROVE  TravelInv'
<1> DEFINE x == HeadTask(r).on
<1>1. /\ Working(r, {"office", "member", "owner", "unlock"}) /\ Done(r, <<>>) /\ UNCHANGED shipments
      /\ IF HeadTask(r).kind = "unlock"
         THEN products' = [products EXCEPT ![x].activeShipment = FALSE]
         ELSE UNCHANGED products
  BY DEF WriteFlag
<1>2. <<>> \in Seq(Tasks) /\ DOMAIN <<>> = {}  OBVIOUS
<1>3. CASE HeadTask(r).kind # "unlock"
  <2>1. UNCHANGED products  BY <1>1, <1>3
  <2>2. RequestSound(requests[r])'  BY <1>1, <1>2, <2>1, DoneSound, UnchangedSettles
  <2> QED  BY <1>1, <2>1, <2>2, StillSound DEF Step, Continue
<1>4. CASE HeadTask(r).kind = "unlock"
  <2>1. /\ Serial /\ ActiveShipmentsOf(x) = {} /\ requests[r].settle = <<>>
    BY <1>1, <1>4, HeadClears DEF Clears
  <2>2. RequestSound(requests[r])'  BY <1>1, <1>2, <2>1, DoneSound
  <2>3. products' = [products EXCEPT ![x].activeShipment = FALSE]  BY <1>1, <1>4
  <2> HIDE DEF x
  <2>4. \A p \in Products \ {x} : products'[p] = products[p]  BY <2>3, Types
  <2> QED  BY <2>1, <2>2, <2>4, FreedSound
<1> QED  BY <1>3, <1>4

LEMMA WriteProductSound ==
    ASSUME TravelAssumption, TypeInv, TravelInv, NEW r \in Requests, ~DeleteMerged(r),
           WriteProduct(r)
    PROVE  TravelInv'
<1> DEFINE p     == HeadTask(r).on
           kind  == HeadTask(r).kind
           got   == requests[r].got[1]
           saved == Saved(kind, products[p], got)
           unlock == <<[kind |-> "unlock", on |-> p],
                       IF got.at \in Members
                       THEN [kind |-> "owner", on |-> got.at, email |-> got.email]
                       ELSE [kind |-> "holder", on |-> p]>>
<1>0. products' = products \/ products' = [products EXCEPT ![p] = saved]
  BY DEF WriteProduct
<1>1. /\ Working(r, {"release", "receive", "toInTransit"}) /\ requests[r].got # <<>>
      /\ UNCHANGED shipments
      /\ Become(r, Idle) \/ Done(r, <<>>) \/ (kind = "release" /\ Done(r, unlock))
  BY DEF WriteProduct
<1>2. /\ kind \in {"release", "receive", "toInTransit"}
      /\ p \in Products /\ got \in [at : Places, email : Names, product : Product]
  BY <1>1, WorkingType DEF Tasks, ReadingFits
<1>3. products[p] \in Product  BY <1>2, Types
<1>4. \A q \in Products \ {p} : products'[q] = products[q]
  <2> HIDE DEF saved, p
  <2> QED  BY <1>0, Types
<1>5. ASSUME SettlesKept \/ requests[r].settle = <<>> PROVE RequestSound(requests[r])'
  <2>1. CASE Become(r, Idle)
    <3>1. requests'[r].pc = "idle"  BY <2>1, BecomeIs DEF Idle
    <3> QED  BY <3>1, NothingToRely
  <2>2. CASE Done(r, <<>>)
    <3>1. <<>> \in Seq(Tasks) /\ DOMAIN <<>> = {}  OBVIOUS
    <3> QED  BY <1>1, <1>5, <2>2, <3>1, DoneSound
  <2>3. CASE kind = "release" /\ Done(r, unlock)
    <3> DEFINE next == IF got.at \in Members
                       THEN [kind |-> "owner", on |-> got.at, email |-> got.email]
                       ELSE [kind |-> "holder", on |-> p]
    <3>1. next \in Tasks /\ ~Clears(next)  BY <1>2 DEF Tasks, Clears
    <3>2. [kind |-> "unlock", on |-> p] \in Tasks  BY <1>2 DEF Tasks
    <3>3. unlock = <<[kind |-> "unlock", on |-> p], next>>  OBVIOUS
    <3>4. Clears(HeadTask(r))  BY <2>3 DEF Clears
    <3> HIDE DEF next
    <3>5. /\ unlock \in Seq(Tasks)
          /\ \A i \in DOMAIN unlock : Clears(unlock[i]) =>
                Clears(HeadTask(r)) /\ unlock[i].on = HeadTask(r).on
      BY <3>1, <3>2, <3>3, <3>4
    <3> HIDE DEF unlock
    <3> QED  BY <1>1, <1>5, <2>3, <3>5, DoneSound
  <2> QED  BY <1>1, <2>1, <2>2, <2>3
<1>6. CASE kind = "toInTransit"
  <2>1. KeepsPlace(saved, products[p])  BY <1>2, <1>3, <1>6, SavedKeeps
  <2>2. KeepsPlace(products'[p], products[p])
    <3> HIDE DEF saved, p
    <3> QED  BY <1>0, <1>2, <2>1, Types DEF KeepsPlace
  <2>3. LocksKept /\ PlacesHeld
    <3> HIDE DEF p
    <3> QED  BY <1>2, <1>4, <2>2 DEF LocksKept, PlacesHeld, KeepsPlace, Locked
  <2>4. Lighter /\ EditableKept  BY <1>1 DEF Lighter, SameEnds, Active, EditableKept
  <2>5. SettlesKept  BY <2>3, <2>4, LighterSettles
  <2>6. RequestSound(requests[r])'  BY <1>5, <2>5
  <2> QED  BY <2>3, <2>4, <2>6, LighterSound DEF Step, Continue
<1>7. CASE kind # "toInTransit"
  <2>1. /\ Serial /\ ActiveShipmentsOf(p) = {} /\ requests[r].settle = <<>>
    BY <1>1, <1>2, <1>7, HeadClears DEF Clears
  <2>2. RequestSound(requests[r])'  BY <1>5, <2>1
  <2> HIDE DEF p
  <2> QED  BY <1>4, <2>1, <2>2, FreedSound
<1> QED  BY <1>6, <1>7

\* One shipment is written, and nothing else.
WritesOne(k) ==
    /\ DOMAIN shipments' = DOMAIN shipments /\ UNCHANGED products
    /\ \A s \in DOMAIN shipments \ {k} : shipments'[s] = shipments[s]
    /\ shipments'[k].products = shipments[k].products
    /\ SameEnds(shipments'[k], shipments[k])

LEMMA WrittenFrames ==
    ASSUME NEW k \in DOMAIN shipments, WritesOne(k)
    PROVE  /\ PlacesHeld /\ LocksKept
           /\ Active(shipments[k]) \/ ~Active(shipments'[k]) => Lighter
           /\ ~Active(shipments'[k]) => EditableKept
BY DEF WritesOne, PlacesHeld, LocksKept, Locked, Lighter, EditableKept, SameEnds

LEMMA PatchSound ==
    ASSUME TravelAssumption, TypeInv, TravelInv, NEW r \in Requests, ~DeleteMerged(r),
           Patch(r)
    PROVE  TravelInv'
<1>1. PICK k \in DOMAIN shipments, new \in SetStatuses :
         /\ Starts(r, "patch")
         /\ shipments' = [shipments EXCEPT ![k].status = new]
         /\ UNCHANGED <<products, requests>>
  BY DEF Patch
<1>2. new \notin ActiveStatuses  BY <1>1 DEF Starts, TravelAssumption
<1>3. shipments[k] \in Shipment  BY Rows
<1>4. WritesOne(k) /\ ~Active(shipments'[k])
  <2> DEFINE sh == [shipments[k] EXCEPT !.status = new]
  <2>1. shipments' = [shipments EXCEPT ![k] = sh]  BY <1>1
  <2>2. sh.status = new /\ sh.products = shipments[k].products /\ SameEnds(sh, shipments[k])
    BY <1>3 DEF Shipment, SameEnds
  <2> HIDE DEF sh
  <2> QED  BY <1>1, <1>2, <2>1, <2>2 DEF WritesOne, Active
<1>5. requests'[r] = Idle  BY <1>1 DEF Starts
<1>6. requests'[r].pc = "idle"  BY <1>5 DEF Idle
<1>7. Lighter /\ PlacesHeld /\ LocksKept /\ EditableKept  BY <1>4, WrittenFrames
<1>8. RequestSound(requests[r])'  BY <1>6, NothingToRely
<1> QED  BY <1>7, <1>8, LighterSound DEF Step, Arrive

\* What the end of a shipment says of its products.
LEMMA EndedFrees ==
    ASSUME TypeInv, TravelInv, NEW r \in Requests, requests[r].pc = "loaded", Lighter,
           ~Active(shipments'[requests[r].shipment]), NEW p \in Carried(requests[r].seen)
    PROVE  Serial /\ ActiveShipmentsOf(p)' = {}
<1> DEFINE k == requests[r].shipment
<1>1. SeenSound(requests[r])  BY DEF TravelInv, RequestSound
<1>2. /\ Serial /\ k \in DOMAIN shipments /\ Active(shipments[k])
      /\ p \in Carried(shipments[k])
  BY <1>1 DEF SeenSound, Carried
<1>3. k \in ActiveShipmentsOf(p)  BY <1>2 DEF ActiveShipmentsOf
<1>4. p \in Products
  <2>1. shipments[k] \in Shipment  BY <1>2, Rows
  <2>2. shipments[k].products \in Seq(Products)  BY <2>1 DEF Shipment
  <2>3. \E i \in DOMAIN shipments[k].products : p = shipments[k].products[i]
    BY <1>2 DEF Carried, Range
  <2> QED  BY <2>2, <2>3
<1>5. ASSUME NEW t \in ActiveShipmentsOf(p)' PROVE FALSE
  <2>1. t \in ActiveShipmentsOf(p)  BY FewerShipments
  <2>2. \A s : ~InMerge(s)  BY <1>2 DEF Serial, InMerge
  <2>3. t = k  BY <1>3, <1>4, <2>1, <2>2 DEF TravelInv, PlacesSound, OneShipment
  <2>4. Active(shipments'[t])  BY DEF ActiveShipmentsOf
  <2> QED  BY <2>3, <2>4
<1> QED  BY <1>2, <1>5

\* The requests that write the shipment they have loaded.
LEMMA WriterSound ==
    ASSUME TravelAssumption, TypeInv, TravelInv, NEW r \in Requests, ~DeleteMerged(r),
           Cancel(r) \/ SetStatus(r) \/ Redate(r), WritesOne(requests[r].shipment),
           NEW op, NEW P, NEW tasks \in Seq(TasksOver(P)), FollowUp(r, op, tasks, <<>>),
           \A p \in P : ActiveShipmentsOf(p)' = {}
    PROVE  TravelInv'
<1> DEFINE k == requests[r].shipment
<1>1. SeenSound(requests[r])  BY DEF TravelInv, RequestSound, Cancel, SetStatus, Redate
<1>2. Serial /\ k \in DOMAIN shipments /\ Active(shipments[k])  BY <1>1 DEF SeenSound
<1>3. Lighter /\ PlacesHeld /\ LocksKept  BY <1>2, WrittenFrames
<1>4. Step(r)  BY DEF Step, Continue
<1>5. LocksHeld /\ MergesKept  BY <1>3, <1>4, MergesGoOn DEF LocksHeld, LocksKept
<1>6. PlacesSound'  BY <1>3, <1>5, PlacesKept DEF TravelInv
<1>7. RequestSound(requests[r])'
  <2>1. ASSUME NEW i \in DOMAIN tasks PROVE TaskSound(tasks[i])'
    <3>1. Clears(tasks[i]) => tasks[i].on \in P  BY OverSound
    <3> QED  BY <1>2, <3>1 DEF TaskSound, Clears
  <2>2. \A i \in DOMAIN <<>> : SettleSound(<<>>[i])'  OBVIOUS
  <2> QED  BY <2>1, <2>2, FollowFresh
<1> QED  BY <1>2, <1>4, <1>6, <1>7, OthersSound DEF TravelInv

LEMMA CancelSound ==
    ASSUME TravelAssumption, TypeInv, TravelInv, NEW r \in Requests, ~DeleteMerged(r),
           Cancel(r)
    PROVE  TravelInv'
<1> DEFINE k    == requests[r].shipment
           seen == requests[r].seen
           P    == Carried(seen)
           sh   == [shipments[k] EXCEPT !.status = Cancelled]
           tasks == OfficeTasks(seen) \o ProductTasks("release", seen)
                      \o MemberTasks(seen)
<1>1. /\ requests[r].pc = "loaded" /\ UNCHANGED products
      /\ shipments' = [shipments EXCEPT ![k] = sh] /\ FollowUp(r, "cancel", tasks, <<>>)
  BY DEF Cancel
<1>2. SeenSound(requests[r])  BY <1>1 DEF TravelInv, RequestSound
<1>3. k \in DOMAIN shipments /\ Active(shipments[k])  BY <1>2 DEF SeenSound
<1>4. requests[r] \in Loaded  BY <1>1, PcTypes DEF TypeInv
<1>5. seen \in Shipment  BY <1>4 DEF Loaded
<1>6. shipments[k] \in Shipment  BY <1>3, Rows
<1>7. WritesOne(k) /\ ~Active(shipments'[k])
  <2>1. /\ sh.status = Cancelled /\ sh.products = shipments[k].products
        /\ SameEnds(sh, shipments[k])
    BY <1>6 DEF Shipment, SameEnds
  <2> HIDE DEF sh, k
  <2> QED  BY <1>1, <1>3, <2>1, Statuses DEF WritesOne, Active
<1>8. tasks \in Seq(TasksOver(P))
  <2>1. /\ OfficeTasks(seen) \in Seq(TasksOver(P))
        /\ MemberTasks(seen) \in Seq(TasksOver(P))
    BY <1>5, OfficeTasksOver, MemberTasksOver
  <2>2. ProductTasks("release", seen) \in Seq(TasksOver(P))  BY <1>5, ProductTasksOver
  <2> HIDE DEF P, seen
  <2> QED  BY <2>1, <2>2
<1>9. Lighter  BY <1>3, <1>7, WrittenFrames
<1>10. \A p \in P : ActiveShipmentsOf(p)' = {}  BY <1>1, <1>7, <1>9, EndedFrees
<1> HIDE DEF tasks, P
<1> QED  BY <1>1, <1>7, <1>8, <1>10, WriterSound

LEMMA SetStatusSound ==
    ASSUME TravelAssumption, TypeInv, TravelInv, NEW r \in Requests, ~DeleteMerged(r),
           SetStatus(r)
    PROVE  TravelInv'
<1> DEFINE k    == requests[r].shipment
           seen == requests[r].seen
           kind(new) == IF new = Received THEN "receive" ELSE "release"
           next(new) == IF new # seen.status THEN new ELSE shipments[k].status
           tasks(new) == OfficeTasks(seen)
                      \o (IF new \in ActiveStatuses THEN <<>> ELSE
                            ProductTasks(kind(new), seen)
                              \o MemberTasks(seen))
<1>1. PICK new \in SetStatuses :
         /\ shipments' = [shipments EXCEPT ![k].status = next(new)]
         /\ FollowUp(r, "setStatus", tasks(new), <<>>)
  BY DEF SetStatus
<1>2. requests[r].pc = "loaded" /\ UNCHANGED products  BY DEF SetStatus
<1>3. SeenSound(requests[r])  BY <1>2 DEF TravelInv, RequestSound
<1>4. /\ k \in DOMAIN shipments /\ Active(shipments[k]) /\ seen.status \in ActiveStatuses
  BY <1>3 DEF SeenSound
<1>5. requests[r] \in Loaded  BY <1>2, PcTypes DEF TypeInv
<1>6. seen \in Shipment  BY <1>5 DEF Loaded
<1>7. shipments[k] \in Shipment  BY <1>4, Rows
<1>8. WritesOne(k) /\ shipments'[k].status = next(new)
  <2> DEFINE sh == [shipments[k] EXCEPT !.status = next(new)]
  <2>1. shipments' = [shipments EXCEPT ![k] = sh]  BY <1>1
  <2>2. /\ sh.status = next(new) /\ sh.products = shipments[k].products
        /\ SameEnds(sh, shipments[k])
    BY <1>7 DEF Shipment, SameEnds
  <2> HIDE DEF sh, k
  <2> QED  BY <1>2, <1>4, <2>1, <2>2 DEF WritesOne
<1>9. Lighter  BY <1>4, <1>8, WrittenFrames
<1>10. CASE new \in ActiveStatuses
  <2>1. OfficeTasks(seen) \in Seq(TasksOver({}))  BY OfficeTasksOver
  <2>2. tasks(new) = OfficeTasks(seen) \o <<>>  BY <1>10
  <2>3. tasks(new) \in Seq(TasksOver({}))
    <3> HIDE DEF tasks, seen
    <3> QED  BY <2>1, <2>2
  <2>4. \A p \in {} : ActiveShipmentsOf(p)' = {}  OBVIOUS
  <2> HIDE DEF tasks
  <2> QED  BY <1>1, <1>8, <2>3, <2>4, WriterSound
<1>11. CASE new \notin ActiveStatuses
  <2> DEFINE P == Carried(seen)
  <2>1. next(new) = new /\ ~Active(shipments'[k])  BY <1>4, <1>8, <1>11 DEF Active
  <2>2. /\ OfficeTasks(seen) \in Seq(TasksOver(P))
        /\ MemberTasks(seen) \in Seq(TasksOver(P))
    BY <1>6, OfficeTasksOver, MemberTasksOver
  <2>3. ProductTasks(kind(new), seen) \in Seq(TasksOver(P))  BY <1>6, ProductTasksOver
  <2>4. tasks(new) = OfficeTasks(seen)
                       \o (ProductTasks(kind(new), seen) \o MemberTasks(seen))
    BY <1>11
  <2>5. tasks(new) \in Seq(TasksOver(P))
    <3> HIDE DEF tasks, seen, P, kind
    <3> QED  BY <2>2, <2>3, <2>4
  <2>6. \A p \in P : ActiveShipmentsOf(p)' = {}  BY <1>2, <1>9, <2>1, EndedFrees
  <2> HIDE DEF tasks, P
  <2> QED  BY <1>1, <1>8, <2>5, <2>6, WriterSound
<1> QED  BY <1>10, <1>11

LEMMA RedateSound ==
    ASSUME TravelAssumption, TypeInv, TravelInv, NEW r \in Requests, ~DeleteMerged(r),
           Redate(r)
    PROVE  TravelInv'
<1> DEFINE k    == requests[r].shipment
           seen == requests[r].seen
           new  == StatusFromDetails(seen)
           next == IF new # seen.status THEN new ELSE shipments[k].status
           sh   == [shipments[k] EXCEPT !.date = requests[r].date, !.status = next]
           tasks == IF new = seen.status THEN <<>> ELSE
                      OfficeTasks(seen)
                        \o (IF new = InPreparation THEN ProductTasks("toInTransit", seen)
                                                   ELSE <<>>)
<1>1. /\ requests[r].pc = "redating" /\ UNCHANGED products
      /\ FollowUp(r, "reschedule", tasks, <<>>)
  BY DEF Redate
<1>2. SeenSound(requests[r])  BY <1>1 DEF TravelInv, RequestSound
<1>3. k \in DOMAIN shipments  BY <1>2 DEF SeenSound
<1>4. requests[r] \in Redating  BY <1>1, PcTypes DEF TypeInv
<1>5. seen \in Shipment  BY <1>4 DEF Redating
<1>6. shipments[k] \in Shipment  BY <1>3, Rows
<1>7. shipments' = [shipments EXCEPT ![k] = sh]
  <2>1. shipments' = [shipments EXCEPT ![k].date = requests[r].date,
             ![k].status = IF new # seen.status THEN new ELSE @]
    BY DEF Redate
  <2> HIDE DEF k, new, seen
  <2> QED  BY <1>3, <1>6, <2>1, Rows DEF Shipment
<1>8. WritesOne(k)
  <2>1. sh.products = shipments[k].products /\ SameEnds(sh, shipments[k])
    BY <1>6 DEF Shipment, SameEnds
  <2> HIDE DEF sh, k
  <2> QED  BY <1>1, <1>3, <1>7, <2>1 DEF WritesOne
<1>9. tasks \in Seq(TasksOver({}))
  <2>1. OfficeTasks(seen) \in Seq(TasksOver({}))  BY OfficeTasksOver
  <2>2. ProductTasks("toInTransit", seen) \in Seq(TasksOver({}))
    BY <1>5, ProductTasksOver
  <2>3. <<>> \in Seq(TasksOver({}))  OBVIOUS
  <2> HIDE DEF new, seen
  <2> QED  BY <2>1, <2>2, <2>3
<1>10. \A p \in {} : ActiveShipmentsOf(p)' = {}  OBVIOUS
<1> HIDE DEF tasks
<1> QED  BY <1>1, <1>8, <1>9, <1>10, WriterSound

LEMMA RangeConcatenated ==
    ASSUME NEW S, NEW T, NEW a \in Seq(S), NEW b \in Seq(T)
    PROVE  Range(a \o b) = Range(a) \cup Range(b)
<1>1. /\ Len(a) \in Nat /\ DOMAIN a = 1 .. Len(a) /\ Len(b) \in Nat /\ DOMAIN b = 1 .. Len(b)
  OBVIOUS
<1>2. /\ DOMAIN (a \o b) = 1 .. Len(a) + Len(b)
      /\ \A i \in 1 .. Len(a) : (a \o b)[i] = a[i]
      /\ \A i \in 1 .. Len(b) : (a \o b)[Len(a) + i] = b[i]
  <2>1. a \in Seq(S \cup T) /\ b \in Seq(S \cup T)  OBVIOUS
  <2> QED  BY <1>1, <2>1
<1>3. ASSUME NEW x \in Range(a \o b) PROVE x \in Range(a) \cup Range(b)
  <2>1. PICK i \in 1 .. Len(a) + Len(b) : x = (a \o b)[i]  BY <1>2 DEF Range
  <2>2. CASE i <= Len(a)  BY <1>1, <1>2, <2>1, <2>2 DEF Range
  <2>3. CASE ~(i <= Len(a))
    <3>1. i - Len(a) \in 1 .. Len(b) /\ i = Len(a) + (i - Len(a))  BY <1>1, <2>1, <2>3
    <3> QED  BY <1>1, <1>2, <2>1, <3>1 DEF Range
  <2> QED  BY <2>2, <2>3
<1>4. ASSUME NEW x \in Range(a) PROVE x \in Range(a \o b)
  <2>1. PICK i \in 1 .. Len(a) : x = a[i]  BY <1>1 DEF Range
  <2>2. i \in 1 .. Len(a) + Len(b)  BY <1>1, <2>1
  <2> QED  BY <1>2, <2>1, <2>2 DEF Range
<1>5. ASSUME NEW x \in Range(b) PROVE x \in Range(a \o b)
  <2>1. PICK i \in 1 .. Len(b) : x = b[i]  BY <1>1 DEF Range
  <2>2. Len(a) + i \in 1 .. Len(a) + Len(b)  BY <1>1, <2>1
  <2> QED  BY <1>2, <2>1, <2>2 DEF Range
<1> QED  BY <1>3, <1>4, <1>5

\* A product that is moved without a shipment is in none.
LEMMA MoveSound ==
    ASSUME TravelAssumption, TypeInv, HoldersInv, TravelInv, NEW r \in Requests,
           ~DeleteMerged(r), Move(r)
    PROVE  TravelInv'
<1>1. PICK p \in Products, to \in Places :
          /\ ~(products[p].activeShipment /\ products[p].fp_shipment)
          /\ \A q \in Products \ {p} : products'[q] = products[q]
  BY MoveMoves
<1>2. ~Locked(p) /\ ActiveShipmentsOf(p) = {}
  BY <1>1 DEF Locked, TravelInv, PlacesSound, ProductsLocked
<1>3. LocksKept /\ PlacesHeld  BY <1>1, <1>2 DEF LocksKept, PlacesHeld, Locked
<1>4. UNCHANGED shipments /\ requests'[r] = Idle  BY DEF Move, Starts
<1>5. Lighter /\ EditableKept  BY <1>4 DEF Lighter, SameEnds, Active, EditableKept
<1>6. requests'[r].pc = "idle"  BY <1>4 DEF Idle
<1>7. RequestSound(requests[r])'  BY <1>6, NothingToRely
<1> QED  BY <1>3, <1>5, <1>7, LighterSound DEF Step, Arrive

\* A product that is handed over goes where its shipment goes.
LEMMA SettledSound ==
    ASSUME TravelAssumption, TypeInv, HoldersInv, TravelInv, NEW r \in Requests,
           ~DeleteMerged(r), Settle(r)
    PROVE  TravelInv'
<1> DEFINE todo == requests[r].settle[1]
           p    == todo.product
<1>1. /\ 1 \in DOMAIN requests[r].settle /\ requests[r].pc = "followUp"
      /\ requests'[r] = Idle
      /\ \A q \in Products \ {p} : products'[q] = products[q]
      /\ \/ KeepsPlace(products'[p], products[p])
         \/ /\ products'[p].holders = {todo.to}
            /\ products'[p].activeShipment /\ products'[p].fp_shipment
  BY SettleMoves
<1>2. SettleSound(todo)  BY <1>1 DEF TravelInv, RequestSound, FollowSound
<1>3. \A t \in ActiveShipmentsOf(p) : todo.to \in Ends(shipments[t])
  BY <1>2 DEF SettleSound, Ends
<1> HIDE DEF p, todo
<1>4. PlacesHeld  BY <1>1, <1>3 DEF PlacesHeld, KeepsPlace
<1>5. LocksKept  BY <1>1 DEF LocksKept, Locked, KeepsPlace
<1>6. UNCHANGED shipments  BY DEF Settle
<1>7. Lighter /\ EditableKept  BY <1>6 DEF Lighter, SameEnds, Active, EditableKept
<1>8. requests'[r].pc = "idle"  BY <1>1 DEF Idle
<1>9. RequestSound(requests[r])'  BY <1>8, NothingToRely
<1> QED  BY <1>4, <1>5, <1>7, <1>9, LighterSound DEF Step, Continue

LEMMA DeleteMergedSound ==
    ASSUME TypeInv, TravelInv, NEW r \in Requests, DeleteMerged(r)
    PROVE  TravelInv'
<1> DEFINE k  == requests[r].shipment
           sh == [shipments[k] EXCEPT !.isDeleted = TRUE, !.date = requests[r].date]
<1>1. requests[r].pc = "merged" /\ UNCHANGED products /\ Become(r, Idle)  BY DEF DeleteMerged
<1>2. Serial /\ k \in DOMAIN shipments
  BY <1>1 DEF TravelInv, RequestSound, MergedSound
<1>3. shipments[k] \in Shipment  BY <1>2, Rows
<1>4. shipments' = [shipments EXCEPT ![k] = sh]
  <2>1. shipments' = [shipments EXCEPT ![k].isDeleted = TRUE, ![k].date = requests[r].date]
    BY DEF DeleteMerged
  <2> HIDE DEF k
  <2> QED  BY <1>2, <1>3, <2>1, Rows DEF Shipment
<1>5. WritesOne(k) /\ ~Active(shipments'[k])
  <2>1. sh.products = shipments[k].products /\ SameEnds(sh, shipments[k]) /\ sh.isDeleted
    BY <1>3 DEF Shipment, SameEnds
  <2> HIDE DEF sh, k
  <2> QED  BY <1>1, <1>2, <1>4, <2>1 DEF WritesOne, Active
<1>6. Lighter /\ PlacesHeld /\ LocksKept  BY <1>2, <1>5, WrittenFrames
<1>7. LocksHeld  BY <1>6 DEF LocksHeld, LocksKept
<1>8. MergesKept  BY <1>2, <1>5 DEF MergesKept, InMerge, Serial
<1>9. PlacesSound'  BY <1>6, <1>7, <1>8, PlacesKept DEF TravelInv
<1>10. \A q \in Requests : requests'[q].pc = "idle"
  BY <1>1, <1>2, BecomeIs DEF Idle, Serial
<1> QED  BY <1>9, <1>10 DEF TravelInv, RequestSound

\* The first save of a merge.
LEMMA SaveTargetSound ==
    ASSUME TravelAssumption, TypeInv, TravelInv, NEW r \in Requests, ~DeleteMerged(r),
           SaveTarget(r)
    PROVE  TravelInv'
<1> DEFINE s     == requests[r]
           lacks == Carried(s.seen) \ Range(s.targetProducts)
<1>0. PICK k, t : k = s.shipment /\ t = s.target  OBVIOUS
<1>1. s.pc = "merging" /\ UNCHANGED products  BY DEF SaveTarget
<1>2. /\ SeenSound(s) /\ TargetSound(s) /\ "reschedule" \in Operations
  BY <1>1 DEF TravelInv, RequestSound
<1>3. /\ Serial /\ k \in DOMAIN shipments /\ Active(shipments[k])
      /\ Carried(s.seen) = Carried(shipments[k]) /\ SameEnds(s.seen, shipments[k])
      /\ t \in DOMAIN shipments /\ t # k /\ Editable(shipments[t])
      /\ SameEnds(shipments[t], s.seen)
  BY <1>0, <1>2 DEF SeenSound, TargetSound, Carried
<1>4. shipments[t] \in Shipment /\ shipments[t].products \in Seq(Products)
  BY <1>3, Rows DEF Shipment
<1>5. CASE shipments[t].products # s.targetProducts
  <2>1. UNCHANGED shipments /\ Become(r, Idle)  BY <1>0, <1>5 DEF SaveTarget
  <2>2. requests'[r].pc = "idle"  BY <2>1, BecomeIs DEF Idle
  <2>3. RequestSound(requests[r])'  BY <2>2, NothingToRely
  <2> QED  BY <1>1, <2>1, <2>3, StillSound DEF Step, Continue
<1>6. CASE shipments[t].products = s.targetProducts
  <2>1. PICK n \in 0 .. Len(s.seen.products) : \E adds \in [1 .. n -> lacks] :
           /\ Range(adds) = lacks
           /\ shipments' = [shipments EXCEPT ![t].products = @ \o adds]
    BY <1>0, <1>6 DEF SaveTarget
  <2>2. PICK adds \in [1 .. n -> lacks] :
           /\ Range(adds) = lacks
           /\ shipments' = [shipments EXCEPT ![t].products = @ \o adds]
    BY <2>1
  <2>3. /\ requests'[r].pc = "merged" /\ requests'[r].shipment = k
    <3>1. Become(r, [pc |-> "merged", shipment |-> k, date |-> s.date])
      BY <1>0, <1>6 DEF SaveTarget
    <3> QED  BY <3>1, BecomeIs
  <2> DEFINE old == shipments[t].products
             sh  == [shipments[t] EXCEPT !.products = old \o adds]
  <2>4. shipments' = [shipments EXCEPT ![t] = sh]  BY <2>2
  <2>5. SameEnds(sh, shipments[t]) /\ Editable(sh) /\ Carried(sh) = Range(old \o adds)
    BY <1>3, <1>4 DEF Shipment, SameEnds, Editable, Carried
  <2>6. Range(old \o adds) = Range(old) \cup Range(adds)
    <3>1. n \in Nat  BY <2>1, <1>1, PcTypes DEF TypeInv, Merging, Shipment
    <3>2. adds \in Seq(lacks) /\ Len(adds) = n /\ DOMAIN adds = 1 .. n  BY <2>2, <3>1
    <3>3. old \in Seq(Products)  BY <1>4
    <3> HIDE DEF old, lacks
    <3> QED  BY <3>2, <3>3, RangeConcatenated
  <2>7. Carried(sh) = Carried(shipments[t]) \cup Carried(shipments[k])
    BY <1>3, <1>6, <2>2, <2>5, <2>6 DEF Carried
  <2> HIDE DEF sh
  <2>8. /\ DOMAIN shipments' = DOMAIN shipments /\ shipments'[t] = sh
        /\ \A x \in DOMAIN shipments \ {t} : shipments'[x] = shipments[x]
    BY <1>3, <2>4
  <2> HIDE DEF s
  <2>9. SameEnds(shipments[k], shipments[t])  BY <1>3 DEF SameEnds
  <2>10. TakenOver(k)'
    <3>1. /\ t \in DOMAIN shipments' \ {k} /\ Editable(shipments'[t])
          /\ SameEnds(shipments'[k], shipments'[t])
          /\ Carried(shipments'[k]) \subseteq Carried(shipments'[t])
      BY <1>3, <2>5, <2>7, <2>8, <2>9 DEF SameEnds
    <3> QED  BY <3>1 DEF TakenOver, Editable, Carried, SameEnds
  <2>11. RequestSound(requests[r])'
    BY <1>2, <1>3, <2>3, <2>8, <2>10 DEF RequestSound, MergedSound
  <2>12. InMerge(k)'  BY <2>3 DEF InMerge
  <2>13. ASSUME NEW q \in Products, NEW x \in ActiveShipmentsOf(q)'
         PROVE  \/ x \in ActiveShipmentsOf(q)
                \/ x = t /\ k \in ActiveShipmentsOf(q)
    <3>1. /\ x \in DOMAIN shipments /\ Active(shipments'[x]) /\ q \in Carried(shipments'[x])
      BY <2>8 DEF ActiveShipmentsOf, Active, Carried
    <3>2. CASE x # t  BY <2>8, <3>1, <3>2 DEF ActiveShipmentsOf
    <3>3. CASE x = t
      <4>1. Active(shipments[t])  BY <1>3, Statuses DEF Active, Editable
      <4>2. q \in Carried(shipments[t]) \/ q \in Carried(shipments[k])
        BY <2>7, <2>8, <3>1, <3>3
      <4> QED  BY <1>3, <3>3, <4>1, <4>2 DEF ActiveShipmentsOf
    <3> QED  BY <3>2, <3>3
  <2>14. ProductsLocked'
    BY <1>1, <2>13 DEF TravelInv, PlacesSound, ProductsLocked, Locked
  <2>15. OneShipment'
    <3> SUFFICES ASSUME NEW q \in Products, NEW x \in ActiveShipmentsOf(q)',
                        NEW y \in ActiveShipmentsOf(q)'
                 PROVE  x = y \/ InMerge(x)' \/ InMerge(y)'
      BY DEF OneShipment
    <3>1. \A z : ~InMerge(z)  BY <1>1, <1>3 DEF InMerge, Serial, s
    <3>2. \A a, b \in ActiveShipmentsOf(q) : a = b
      BY <3>1 DEF TravelInv, PlacesSound, OneShipment
    <3>3. x = y \/ x = k \/ y = k  BY <2>13, <3>2
    <3> QED  BY <2>12, <3>3
  <2>16. CarriedBetweenEnds'
    <3> SUFFICES ASSUME NEW x \in DOMAIN shipments', Active(shipments'[x]),
                        NEW q \in Carried(shipments'[x])
                 PROVE  products'[q].holders \subseteq Ends(shipments'[x])
      BY DEF CarriedBetweenEnds, Active, Carried, Ends
    <3>1. CASE x # t
      BY <1>1, <2>8, <3>1 DEF TravelInv, PlacesSound, CarriedBetweenEnds
    <3>2. CASE x = t
      <4>1. /\ Ends(shipments'[x]) = Ends(shipments[t])
            /\ Ends(shipments[t]) = Ends(shipments[k])
        BY <2>5, <2>8, <2>9, <3>2 DEF SameEnds, Ends
      <4>2. Active(shipments[t])  BY <1>3, Statuses DEF Active, Editable
      <4>3. q \in Carried(shipments[t]) \cup Carried(shipments[k])
        BY <2>7, <2>8, <3>2
      <4> QED  BY <1>1, <1>3, <4>1, <4>2, <4>3 DEF TravelInv, PlacesSound, CarriedBetweenEnds
    <3> QED  BY <3>1, <3>2
  <2>17. \A q \in Requests : q = r  BY <1>3 DEF Serial
  <2> QED  BY <2>11, <2>14, <2>15, <2>16, <2>17 DEF TravelInv, PlacesSound
<1> QED  BY <1>5, <1>6

-----------------------------------------------------------------------------
\* A product is shipped: it joins shipment t, or makes one.

Ships(p, from, to, t) ==
    /\ \A q \in Products \ {p} : products'[q] = products[q]
    /\ products'[p].holders \subseteq {from, to}
    /\ products'[p].activeShipment /\ products'[p].fp_shipment
    /\ t \in DOMAIN shipments' /\ Editable(shipments'[t])
    /\ shipments'[t].origin = from /\ shipments'[t].destination = to
    /\ \A x \in DOMAIN shipments' \ {t} :
          x \in DOMAIN shipments /\ shipments'[x] = shipments[x]
    /\ \A q \in Carried(shipments'[t]) :
          \/ q = p
          \/ t \in ActiveShipmentsOf(q) /\ SameEnds(shipments'[t], shipments[t])
                /\ Editable(shipments[t])
    /\ DOMAIN shipments \subseteq DOMAIN shipments'

LEMMA ShipsSound ==
    ASSUME TravelAssumption, TypeInv, TypeInv', TravelInv, NEW r \in Requests, Step(r),
           ~DeleteMerged(r),
           NEW p \in Products, NEW from \in Pool, NEW to, NEW t, Ships(p, from, to, t),
           ~products[p].activeShipment,
           \/ requests'[r] = Idle
           \/ /\ requests'[r].pc = "followUp"
              /\ \A i \in DOMAIN requests'[r].tasks : ~Clears(requests'[r].tasks[i])
              /\ \A i \in DOMAIN requests'[r].settle :
                    /\ requests'[r].settle[i].product = p
                    /\ requests'[r].settle[i].from = from
                    /\ requests'[r].settle[i].to = to
    PROVE  TravelInv'
<1>1. ~Locked(p) /\ ActiveShipmentsOf(p) = {}
  BY DEF Locked, TravelInv, PlacesSound, ProductsLocked
<1>2. Locked(p)'  BY DEF Ships, Locked
<1>3. ASSUME NEW q \in Products \ {p}, NEW x \in ActiveShipmentsOf(q)'
      PROVE  /\ x \in ActiveShipmentsOf(q) /\ SameEnds(shipments'[x], shipments[x])
             /\ Editable(shipments[x]) => Editable(shipments'[x])
  <2>1. x \in DOMAIN shipments' /\ Active(shipments'[x]) /\ q \in Carried(shipments'[x])
    BY DEF ActiveShipmentsOf, Active, Carried
  <2>2. CASE x = t  BY <2>1, <2>2 DEF Ships
  <2>3. CASE x # t
    <3>1. x \in DOMAIN shipments /\ shipments'[x] = shipments[x]  BY <2>1, <2>3 DEF Ships
    <3> QED  BY <2>1, <3>1 DEF ActiveShipmentsOf, SameEnds
  <2> QED  BY <2>2, <2>3
<1>4. ASSUME NEW x \in ActiveShipmentsOf(p)' PROVE x = t
  <2>1. x \in DOMAIN shipments' /\ Active(shipments'[x]) /\ p \in Carried(shipments'[x])
    BY DEF ActiveShipmentsOf, Active, Carried
  <2>2. ASSUME x # t PROVE FALSE
    <3>1. x \in DOMAIN shipments /\ shipments'[x] = shipments[x]  BY <2>1, <2>2 DEF Ships
    <3>2. x \in ActiveShipmentsOf(p)  BY <2>1, <3>1 DEF ActiveShipmentsOf
    <3> QED  BY <1>1, <3>2
  <2> QED  BY <2>2
<1>5. ProductsLocked'
  <2> SUFFICES ASSUME NEW q \in Products, ActiveShipmentsOf(q)' # {} PROVE Locked(q)'
    BY DEF ProductsLocked
  <2>1. CASE q = p  BY <1>2, <2>1
  <2>2. CASE q # p
    <3>1. Locked(q)  BY <1>3, <2>2 DEF TravelInv, PlacesSound, ProductsLocked
    <3> QED  BY <2>2, <3>1 DEF Ships, Locked
  <2> QED  BY <2>1, <2>2
<1>6. OneShipment'
  <2> SUFFICES ASSUME NEW q \in Products, NEW x \in ActiveShipmentsOf(q)',
                      NEW y \in ActiveShipmentsOf(q)'
               PROVE  x = y \/ InMerge(x)' \/ InMerge(y)'
    BY DEF OneShipment
  <2>1. CASE q = p  BY <1>4, <2>1
  <2>2. CASE q # p
    <3>1. x \in ActiveShipmentsOf(q) /\ y \in ActiveShipmentsOf(q)  BY <1>3, <2>2
    <3>2. x = y \/ InMerge(x) \/ InMerge(y)
      BY <3>1 DEF TravelInv, PlacesSound, OneShipment
    <3>3. /\ x \in DOMAIN shipments /\ y \in DOMAIN shipments
          /\ Active(shipments'[x]) /\ Active(shipments'[y])
      BY <3>1 DEF ActiveShipmentsOf
    <3>4. MergesKept  BY MergesGoOn
    <3> QED  BY <3>2, <3>3, <3>4 DEF MergesKept
  <2> QED  BY <2>1, <2>2
<1>7. CarriedBetweenEnds'
  <2> SUFFICES ASSUME NEW x \in DOMAIN shipments', Active(shipments'[x]),
                      NEW q \in Carried(shipments'[x])
               PROVE  products'[q].holders \subseteq Ends(shipments'[x])
    BY DEF CarriedBetweenEnds, Active, Carried, Ends
  <2>1. q \in Products
    <3>1. shipments'[x] \in Shipment  BY DEF TypeInv, TypeOK
    <3>2. shipments'[x].products \in Seq(Products)  BY <3>1 DEF Shipment
    <3>3. \E i \in DOMAIN shipments'[x].products : q = shipments'[x].products[i]
      BY DEF Carried, Range
    <3> QED  BY <3>2, <3>3
  <2>2. x \in ActiveShipmentsOf(q)'
    BY DEF ActiveShipmentsOf, Active, Carried
  <2>3. CASE q = p
    <3>1. x = t  BY <1>4, <2>2, <2>3
    <3> QED  BY <2>3, <3>1 DEF Ships, Ends
  <2>4. CASE q # p
    <3>1. x \in ActiveShipmentsOf(q) /\ SameEnds(shipments'[x], shipments[x])
      BY <1>3, <2>1, <2>2, <2>4
    <3>2. products[q].holders \subseteq Ends(shipments[x])
      BY <3>1 DEF ActiveShipmentsOf, TravelInv, PlacesSound, CarriedBetweenEnds
    <3>3. products'[q] = products[q]  BY <2>1, <2>4 DEF Ships
    <3> QED  BY <3>1, <3>2, <3>3 DEF SameEnds, Ends
  <2> QED  BY <2>3, <2>4
<1>8. SettlesKept
  <2> SUFFICES ASSUME NEW q \in Products, Locked(q)
               PROVE  /\ Locked(q)'
                      /\ \A x \in ActiveShipmentsOf(q)' :
                            /\ x \in ActiveShipmentsOf(q)
                            /\ SameEnds(shipments'[x], shipments[x])
                            /\ Editable(shipments[x]) => Editable(shipments'[x])
    BY DEF SettlesKept
  <2>1. q \in Products \ {p}  BY <1>1
  <2>2. Locked(q)'  BY <2>1 DEF Ships, Locked
  <2> QED  BY <1>3, <2>1, <2>2
<1>9. RequestSound(requests[r])'
  <2>1. CASE requests'[r] = Idle  BY <2>1 DEF RequestSound, Idle
  <2>2. CASE /\ requests'[r].pc = "followUp"
             /\ \A i \in DOMAIN requests'[r].tasks : ~Clears(requests'[r].tasks[i])
             /\ \A i \in DOMAIN requests'[r].settle :
                    /\ requests'[r].settle[i].product = p
                    /\ requests'[r].settle[i].from = from
                    /\ requests'[r].settle[i].to = to
    <3>1. \A x \in ActiveShipmentsOf(p)' :
             /\ Editable(shipments'[x])
             /\ shipments'[x].origin = from /\ shipments'[x].destination = to
      BY <1>4 DEF Ships
    <3>2. ASSUME NEW i \in DOMAIN requests'[r].settle
          PROVE  SettleSound(requests[r].settle[i])'
      BY <1>2, <2>2, <3>1, <3>2 DEF SettleSound
    <3>3. FollowSound(requests[r])'  BY <2>2, <3>2 DEF FollowSound, TaskSound, Clears
    <3> QED  BY <2>2, <3>3 DEF RequestSound
  <2> QED  BY <2>1, <2>2
<1> QED  BY <1>5, <1>6, <1>7, <1>8, <1>9, OthersSound DEF TravelInv, PlacesSound

LEMMA CommitLocks ==
    ASSUME TypeInv, HoldersInv, TravelInv, NEW r \in Requests, Consolidate(r) \/ Create(r),
           NEW p, NEW from, NEW to, p = requests[r].product, from = requests[r].from,
           to = requests[r].to
    PROVE  /\ p \in Products /\ from \in Pool /\ ~products[p].activeShipment
           /\ \A q \in Products \ {p} : products'[q] = products[q]
           /\ products'[p].holders \subseteq {from, to}
           /\ products'[p].activeShipment /\ products'[p].fp_shipment
<1>1. /\ requests[r] \in Prepared /\ products[p] = requests[r].seen
      /\ \A q \in Products \ {p} : products'[q] = products[q]
      /\ products'[p].holders = IF to \in Members THEN {from} ELSE {to}
      /\ from \in Pool => products'[p].activeShipment /\ products'[p].fp_shipment
  BY CommitMoves
<1>2. p \in Products  BY <1>1 DEF Prepared
<1>3. requests[r].pc = "prepared"  BY DEF Consolidate, Create
<1>4. from \in Pool /\ ~requests[r].seen.activeShipment
  BY <1>3 DEF TravelInv, RequestSound, PreparedSound
<1> QED  BY <1>1, <1>2, <1>4

LEMMA CommitFollows ==
    ASSUME TypeInv, NEW r \in Requests, NEW op, NEW status,
           NEW tasks \in Seq(TasksOver({})),
           FollowUp(r, op, tasks, Settlement(requests[r], status))
    PROVE  \/ requests'[r] = Idle
           \/ /\ requests'[r].pc = "followUp"
              /\ \A i \in DOMAIN requests'[r].tasks : ~Clears(requests'[r].tasks[i])
              /\ \A i \in DOMAIN requests'[r].settle :
                    /\ requests'[r].settle[i].product = requests[r].product
                    /\ requests'[r].settle[i].from = requests[r].from
                    /\ requests'[r].settle[i].to = requests[r].to
<1> DEFINE settle == Settlement(requests[r], status)
<1>1. \A i \in DOMAIN settle :
         /\ settle[i].product = requests[r].product
         /\ settle[i].from = requests[r].from
         /\ settle[i].to = requests[r].to
  BY DEF Settlement
<1>2. \A i \in DOMAIN tasks : ~Clears(tasks[i])  BY OverSound
<1>3. FollowUp(r, op, tasks, settle)  OBVIOUS
<1> HIDE DEF settle
<1>4. \/ requests'[r] = Idle
      \/ /\ requests'[r].pc = "followUp" /\ requests'[r].tasks = tasks
         /\ requests'[r].settle = settle
  BY <1>3, FollowUpIs
<1> QED  BY <1>1, <1>2, <1>4

LEMMA ConsolidateSound ==
    ASSUME TravelAssumption, TypeInv, TypeInv', HoldersInv, TravelInv, NEW r \in Requests,
           ~DeleteMerged(r), Consolidate(r)
    PROVE  TravelInv'
<1>0. PICK p, from, to :
         p = requests[r].product /\ from = requests[r].from /\ to = requests[r].to
  OBVIOUS
<1>1. PICK t \in Consolidatable(from, requests[r].fromCalled, to, requests[r].toCalled,
                              requests[r].date) :
         /\ shipments' = [shipments EXCEPT ![t].products =
                IF p \notin Carried(shipments[t]) THEN Append(@, p) ELSE @]
         /\ FollowUp(r, MoveKind(from, to), <<>>,
                     Settlement(requests[r], shipments[t].status))
  BY <1>0 DEF Consolidate
<1>2. /\ p \in Products /\ from \in Pool /\ ~products[p].activeShipment
      /\ \A q \in Products \ {p} : products'[q] = products[q]
      /\ products'[p].holders \subseteq {from, to}
      /\ products'[p].activeShipment /\ products'[p].fp_shipment
  BY <1>0, CommitLocks
<1>3. /\ t \in DOMAIN shipments /\ Editable(shipments[t])
      /\ shipments[t].origin = from /\ shipments[t].destination = to
  BY DEF Consolidatable
<1>4. shipments[t] \in Shipment  BY <1>3, Rows
<1> DEFINE row == IF p \notin Carried(shipments[t]) THEN Append(shipments[t].products, p)
                  ELSE shipments[t].products
           sh  == [shipments[t] EXCEPT !.products = row]
<1>5. /\ sh.origin = from /\ sh.destination = to /\ Editable(sh) /\ Carried(sh) = Range(row)
  BY <1>3, <1>4 DEF Shipment, Editable, Carried
<1>6. shipments' = [shipments EXCEPT ![t] = sh]  BY <1>1
<1>7. Range(row) \subseteq Carried(shipments[t]) \cup {p}
  <2>1. shipments[t].products \in Seq(Products)  BY <1>4 DEF Shipment
  <2>2. Range(<<p>>) = {p} /\ <<p>> \in Seq({p})  BY DEF Range
  <2>3. Append(shipments[t].products, p) = shipments[t].products \o <<p>>  BY <1>2, <2>1
  <2>4. Range(shipments[t].products \o <<p>>) = Range(shipments[t].products) \cup Range(<<p>>)
    <3>1. PICK list \in Seq(Products) : list = shipments[t].products  BY <2>1
    <3>2. PICK one \in Seq({p}) : one = <<p>>  BY <2>2
    <3>3. Range(list \o one) = Range(list) \cup Range(one)  BY RangeConcatenated
    <3> QED  BY <3>1, <3>2, <3>3
  <2>5. Range(Append(shipments[t].products, p)) = Carried(shipments[t]) \cup {p}
    BY <2>2, <2>3, <2>4 DEF Carried
  <2> QED  BY <2>5 DEF Carried
<1> HIDE DEF sh, row
<1>8. Active(shipments[t])  BY <1>3, Statuses DEF Active, Editable
<1>9. /\ DOMAIN shipments' = DOMAIN shipments /\ shipments'[t] = sh
      /\ \A x \in DOMAIN shipments \ {t} : shipments'[x] = shipments[x]
  BY <1>3, <1>6
<1>10. Ships(p, from, to, t)
  BY <1>2, <1>3, <1>5, <1>7, <1>8, <1>9 DEF Ships, ActiveShipmentsOf, SameEnds
<1>11. <<>> \in Seq(TasksOver({}))  OBVIOUS
<1>12. \/ requests'[r] = Idle
       \/ /\ requests'[r].pc = "followUp"
          /\ \A i \in DOMAIN requests'[r].tasks : ~Clears(requests'[r].tasks[i])
          /\ \A i \in DOMAIN requests'[r].settle :
                /\ requests'[r].settle[i].product = p
                /\ requests'[r].settle[i].from = from
                /\ requests'[r].settle[i].to = to
  BY <1>0, <1>1, <1>11, CommitFollows
<1> QED  BY <1>2, <1>10, <1>12, ShipsSound DEF Step, Continue

LEMMA CreateSound ==
    ASSUME TravelAssumption, TypeInv, TypeInv', HoldersInv, TravelInv, NEW r \in Requests,
           ~DeleteMerged(r), Create(r)
    PROVE  TravelInv'
<1>0. PICK p, from, to :
         p = requests[r].product /\ from = requests[r].from /\ to = requests[r].to
  OBVIOUS
<1>1. PICK n : n = Len(shipments) + 1  OBVIOUS
<1> DEFINE s  == requests[r]
           sh == [status |-> IF s.fromComplete /\ s.toComplete THEN InPreparation
                                                               ELSE OnHold,
                  isDeleted |-> FALSE, origin |-> from, destination |-> to,
                  date |-> s.date, originCalled |-> s.fromCalled,
                  destinationCalled |-> s.toCalled,
                  originComplete |-> s.fromComplete,
                  destinationComplete |-> s.toComplete, products |-> <<p>>]
           tasks == OfficeTasks(sh)
<1>2. /\ shipments' = Append(shipments, sh)
      /\ FollowUp(r, MoveKind(from, to), tasks, Settlement(requests[r], sh.status))
  BY <1>0 DEF Create
<1>3. /\ sh.origin = from /\ sh.destination = to /\ Editable(sh) /\ Carried(sh) = {p}
  BY DEF Editable, EditableStatuses, Carried, Range
<1>4. tasks \in Seq(TasksOver({}))  BY OfficeTasksOver
<1>5. \/ requests'[r] = Idle
      \/ /\ requests'[r].pc = "followUp"
         /\ \A i \in DOMAIN requests'[r].tasks : ~Clears(requests'[r].tasks[i])
         /\ \A i \in DOMAIN requests'[r].settle :
                /\ requests'[r].settle[i].product = p
                /\ requests'[r].settle[i].from = from
                /\ requests'[r].settle[i].to = to
  <2> HIDE DEF tasks, sh
  <2> QED  BY <1>0, <1>2, <1>4, CommitFollows
<1> HIDE DEF sh, s
<1>6. /\ p \in Products /\ from \in Pool /\ ~products[p].activeShipment
      /\ \A q \in Products \ {p} : products'[q] = products[q]
      /\ products'[p].holders \subseteq {from, to}
      /\ products'[p].activeShipment /\ products'[p].fp_shipment
  BY <1>0, CommitLocks
<1>7. /\ DOMAIN shipments = 1 .. n - 1 /\ DOMAIN shipments' = 1 .. n /\ n \in Nat \ {0}
      /\ \A i \in 1 .. n - 1 : shipments'[i] = shipments[i]
      /\ shipments'[n] = sh
  <2>1. shipments \in Seq(Shipment)  BY Types
  <2> QED  BY <1>1, <1>2, <2>1
<1>8. /\ n \in DOMAIN shipments' /\ DOMAIN shipments \subseteq DOMAIN shipments'
      /\ \A x \in DOMAIN shipments' \ {n} :
            x \in DOMAIN shipments /\ shipments'[x] = shipments[x]
  BY <1>7
<1>9. Ships(p, from, to, n)  BY <1>3, <1>6, <1>7, <1>8 DEF Ships
<1> QED  BY <1>5, <1>6, <1>9, ShipsSound DEF Step, Continue

-----------------------------------------------------------------------------
\* The invariant.

LEMMA TravelStep ==
    ASSUME TravelAssumption, TypeInv, HoldersInv, TravelInv, [Next]_vars
    PROVE  TravelInv'
<1>1. TypeInv'  BY NextType
<1>2. ASSUME NEW r \in Requests, Step(r), ~DeleteMerged(r) PROVE TravelInv'
  <2>1. CASE Consolidate(r) \/ Create(r)  BY <1>1, <1>2, <2>1, ConsolidateSound, CreateSound
  <2>2. CASE Move(r) \/ Settle(r)  BY <1>2, <2>2, MoveSound, SettledSound
  <2>3. CASE Cancel(r) \/ SetStatus(r) \/ Redate(r) \/ Patch(r) \/ SaveTarget(r)
    BY <1>2, <2>3, CancelSound, SetStatusSound, RedateSound, PatchSound, SaveTargetSound
  <2>4. CASE WriteFlag(r) \/ WriteProduct(r)
    BY <1>2, <2>4, WriteFlagSound, WriteProductSound
  <2>5. CASE \/ Prepare(r) \/ Load(r) \/ UpdateMember(r) \/ CheckOffice(r)
             \/ UpdateDefaultOffice(r) \/ FindTarget(r) \/ Count(r) \/ FindHolder(r)
             \/ ReadProduct(r) \/ UpdateOffice(r) \/ Abort(r) \/ Crash(r)
    BY <1>2, <2>5, StillSteps
  <2> QED  BY <1>2, <2>1, <2>2, <2>3, <2>4, <2>5 DEF Step, Arrive, Continue
<1>3. ASSUME NEW r \in Requests, DeleteMerged(r) PROVE TravelInv'
  BY <1>3, DeleteMergedSound
<1>4. CASE HandleEvent  BY <1>4, EventSteady, SteadySound
<1>5. CASE UNCHANGED vars
  <2>1. Steady  BY <1>5 DEF vars, Steady, SameEnds, KeepsPlace, Active, Editable
  <2> QED  BY <2>1, SteadySound
<1> QED  BY <1>2, <1>3, <1>4, <1>5, NextSteps

LEMMA TravelInit == Init => TravelInv
<1> SUFFICES ASSUME Init PROVE TravelInv  OBVIOUS
<1>1. DOMAIN shipments = {}  BY DEF Init
<1>2. \A r \in Requests : requests[r].pc = "idle"  BY DEF Init, Idle
<1> QED
  BY <1>1, <1>2 DEF TravelInv, RequestSound, PlacesSound, ProductsLocked, OneShipment,
     CarriedBetweenEnds, ActiveShipmentsOf

LEMMA TravelSpec ==
    ASSUME TravelAssumption PROVE Spec => [](TypeInv /\ HoldersInv /\ TravelInv)
<1>0. HolderAssumption  BY DEF TravelAssumption, HolderAssumption
<1>1. Init => TypeInv /\ HoldersInv /\ TravelInv  BY InitType, HoldersInit, TravelInit
<1>2. (TypeInv /\ HoldersInv /\ TravelInv) /\ [Next]_vars
         => (TypeInv /\ HoldersInv /\ TravelInv)'
  BY <1>0, NextType, HoldersStep, TravelStep
<1> QED  BY <1>1, <1>2, PTL DEF Spec

-----------------------------------------------------------------------------
\* The theorems.

\* No product is left in two shipments under way, once everything has settled: what the
\* assignment guards look at, the activeShipment flag, is up while the product is in
\* one, with any number of assignments, transfers and crashes at a time, or with
\* cancellations, merges and the superadmin's changes one by one.
THEOREM OneActiveAlways == TravelAssumption => (Spec => []OneActiveShipmentPerProduct)
<1> SUFFICES ASSUME TravelAssumption PROVE Spec => []OneActiveShipmentPerProduct
  OBVIOUS
<1>1. TravelInv => OneActiveShipmentPerProduct
  <2> SUFFICES ASSUME TravelInv, Quiet, NEW p \in Products
               PROVE  Cardinality(ActiveShipmentsOf(p)) <= 1
    BY DEF OneActiveShipmentPerProduct
  <2>1. \A s : ~InMerge(s)  BY DEF InMerge, Quiet, Idle
  <2>2. \A s, t \in ActiveShipmentsOf(p) : s = t
    BY <2>1 DEF TravelInv, PlacesSound, OneShipment
  <2>3. CASE ActiveShipmentsOf(p) = {}  BY <2>3, FS_EmptySet
  <2>4. CASE ActiveShipmentsOf(p) # {}
    <3>1. PICK s : ActiveShipmentsOf(p) = {s}  BY <2>2, <2>4
    <3> QED  BY <3>1, FS_Singleton
  <2> QED  BY <2>3, <2>4
<1>2. Spec => [](TypeInv /\ HoldersInv /\ TravelInv)  BY TravelSpec
<1> QED  BY <1>1, <1>2, PTL

\* Once its shipment is on its way, a product does not change hands: the guards of a
\* new move see the flag, and an assignment that had still to hand it over is one of a
\* shipment that can still be edited.
LEMMA OnTheWayStep ==
    ASSUME TypeInv, HoldersInv, TravelInv, [Next]_vars, NEW p \in Products,
           NEW s \in ActiveShipmentsOf(p), shipments[s].status = OnTheWay
    PROVE  products'[p].holders = products[p].holders
<1>1. Locked(p)  BY DEF TravelInv, PlacesSound, ProductsLocked
<1>2. CASE HandleEvent  BY <1>2, EventKeepsProducts DEF KeepsPlace
<1>3. CASE UNCHANGED vars  BY <1>3 DEF vars
<1>4. ASSUME NEW r \in Requests, Move(r) PROVE products'[p] = products[p]
  BY <1>1, <1>4, MoveMoves DEF Locked
<1>5. ASSUME NEW r \in Requests, Consolidate(r) \/ Create(r) PROVE products'[p] = products[p]
  <2>1. PICK q, from, to :
           q = requests[r].product /\ from = requests[r].from /\ to = requests[r].to
    OBVIOUS
  <2>2. /\ ~products[q].activeShipment
        /\ \A x \in Products \ {q} : products'[x] = products[x]
    BY <1>5, <2>1, CommitLocks
  <2> QED  BY <1>1, <2>2 DEF Locked
<1>6. ASSUME NEW r \in Requests, Settle(r) PROVE products'[p] = products[p]
  <2> DEFINE todo == requests[r].settle[1]
  <2>1. /\ 1 \in DOMAIN requests[r].settle /\ requests[r].pc = "followUp"
        /\ \A q \in Products \ {todo.product} : products'[q] = products[q]
    BY <1>6, SettleMoves
  <2>2. SettleSound(todo)  BY <2>1 DEF TravelInv, RequestSound, FollowSound
  <2>3. ~Editable(shipments[s])  BY Statuses DEF Editable
  <2>4. p # todo.product  BY <2>2, <2>3 DEF SettleSound
  <2> QED  BY <2>1, <2>4
<1>7. ASSUME NEW r \in Requests, Step(r), ~Move(r), ~Consolidate(r), ~Create(r), ~Settle(r)
      PROVE  products'[p].holders = products[p].holders
  BY <1>7, OthersHold DEF HoldersKept
<1> QED  BY <1>2, <1>3, <1>4, <1>5, <1>6, <1>7, NextSteps

THEOREM OnTheWayAlways == TravelAssumption => (Spec => OnTheWayStays)
<1> SUFFICES ASSUME TravelAssumption PROVE Spec => OnTheWayStays
  OBVIOUS
<1> DEFINE Stays == \A p \in Products :
                       (\E s \in ActiveShipmentsOf(p) : shipments[s].status = OnTheWay)
                          => products'[p].holders = products[p].holders
<1>1. TypeInv /\ HoldersInv /\ TravelInv /\ [Next]_vars => Stays  BY OnTheWayStep
<1>2. Spec => [](TypeInv /\ HoldersInv /\ TravelInv)  BY TravelSpec
<1> QED  BY <1>1, <1>2, PTL DEF Spec, OnTheWayStays

\* Only the second save of a merge deletes a shipment.
LEMMA DeletedKept ==
    ASSUME TypeInv, NEW r \in Requests, Step(r), ~DeleteMerged(r), NEW s \in DOMAIN shipments
    PROVE  shipments'[s].isDeleted = shipments[s].isDeleted
<1>0. shipments[s] \in Shipment  BY Rows
<1>1. CASE UNCHANGED shipments  BY <1>1
<1>2. ASSUME NEW t, NEW row, shipments' = [shipments EXCEPT ![t].products = row]
      PROVE  shipments'[s].isDeleted = shipments[s].isDeleted
  BY <1>0, <1>2 DEF Shipment
<1>3. ASSUME NEW t, NEW st, shipments' = [shipments EXCEPT ![t].status = st]
      PROVE  shipments'[s].isDeleted = shipments[s].isDeleted
  BY <1>0, <1>3 DEF Shipment
<1>4. CASE Consolidate(r)
  <2> DEFINE p == requests[r].product
             row(t) == IF p \notin Carried(shipments[t]) THEN Append(shipments[t].products, p)
                       ELSE shipments[t].products
  <2>1. PICK t : shipments' = [shipments EXCEPT ![t].products = row(t)]
    BY <1>4 DEF Consolidate
  <2> HIDE DEF row
  <2> QED  BY <1>2, <2>1
<1>5. CASE SaveTarget(r)
  <2> DEFINE t == requests[r].target
             row(adds) == shipments[t].products \o adds
  <2>1. \/ \E adds : shipments' = [shipments EXCEPT ![t].products = row(adds)]
        \/ UNCHANGED shipments
    BY <1>5 DEF SaveTarget
  <2> HIDE DEF row, t
  <2> QED  BY <1>1, <1>2, <2>1
<1>6. CASE Create(r)
  <2> DEFINE sh == shipments'[Len(shipments) + 1]
  <2>1. \E sh1 : shipments' = Append(shipments, sh1)  BY <1>6 DEF Create
  <2>2. shipments'[s] = shipments[s]  BY <2>1, Types
  <2> QED  BY <2>2
<1>7. CASE Cancel(r)  BY <1>3, <1>7 DEF Cancel
<1>8. CASE Patch(r)  BY <1>3, <1>8 DEF Patch
<1>9. CASE SetStatus(r)
  <2> DEFINE k == requests[r].shipment
             st(new) == IF new # requests[r].seen.status THEN new ELSE shipments[k].status
  <2>1. PICK new : shipments' = [shipments EXCEPT ![k].status = st(new)]
    BY <1>9 DEF SetStatus
  <2> HIDE DEF st, k
  <2> QED  BY <1>3, <2>1
<1>10. CASE Redate(r)
  <2> DEFINE k  == requests[r].shipment
             d  == requests[r].date
             new == StatusFromDetails(requests[r].seen)
  <2>1. shipments' = [shipments EXCEPT ![k].date = d,
             ![k].status = IF new # requests[r].seen.status THEN new ELSE @]
    BY <1>10 DEF Redate
  <2> HIDE DEF k, d, new
  <2> QED  BY <1>0, <2>1 DEF Shipment
<1> QED
  BY <1>1, <1>4, <1>5, <1>6, <1>7, <1>8, <1>9, <1>10, ReadersKeep DEF Step, Arrive, Continue

\* A merge leaves no product behind: when the shipment goes, another one that can be
\* edited carries all it carried, although the two are saved one after the other and
\* the listener of address events may come between.
THEOREM MergesLoseNothing == TravelAssumption => (Spec => MergeLosesNothing)
<1> SUFFICES ASSUME TravelAssumption PROVE Spec => MergeLosesNothing
  OBVIOUS
<1> DEFINE Loses(s) == \A p \in Carried(shipments[s]) :
                         \E t \in DOMAIN shipments :
                            t # s /\ Editable(shipments'[t]) /\ p \in Carried(shipments'[t])
           Kept == \A s \in DOMAIN shipments :
                      shipments'[s].isDeleted /\ ~shipments[s].isDeleted => Loses(s)
<1>1. ASSUME TypeInv, TravelInv, [Next]_vars PROVE Kept
  <2> SUFFICES ASSUME NEW s \in DOMAIN shipments, shipments'[s].isDeleted,
                      ~shipments[s].isDeleted
               PROVE  Loses(s)
    OBVIOUS
  <2>1. CASE HandleEvent  BY <1>1, <2>1, EventSteady
  <2>2. CASE UNCHANGED vars  BY <2>2 DEF vars
  <2>3. ASSUME NEW r \in Requests, DeleteMerged(r) PROVE Loses(s)
    <3>1. PICK k : k = requests[r].shipment  OBVIOUS
    <3>2. requests[r].pc = "merged"  BY <2>3 DEF DeleteMerged
    <3>3. k \in DOMAIN shipments /\ TakenOver(k)
      BY <1>1, <3>1, <3>2 DEF TravelInv, RequestSound, MergedSound
    <3>4. \A x \in DOMAIN shipments \ {k} : shipments'[x] = shipments[x]
      BY <2>3, <3>1 DEF DeleteMerged
    <3>5. s = k  BY <3>4
    <3> QED  BY <3>3, <3>4, <3>5 DEF TakenOver
  <2>4. ASSUME NEW r \in Requests, Step(r), ~DeleteMerged(r) PROVE Loses(s)
    BY <1>1, <2>4, DeletedKept
  <2> QED  BY <1>1, <2>1, <2>2, <2>3, <2>4, NextSteps
<1>2. Spec => [](TypeInv /\ HoldersInv /\ TravelInv)  BY TravelSpec
<1> QED  BY <1>1, <1>2, PTL DEF Spec, MergeLosesNothing

-----------------------------------------------------------------------------
\* What a request still owes: a new flag of a member or an office, or the release of
\* a product. A crash forgets it, a patch never owes it, and a second request may come
\* between the count and the write.

FlagsAssumption == Serial /\ Operations \cap {"patch", "crash"} = {}

\* The members and offices whose shipments can be found by what is stored in them.
Findable == (Members \ renamed) \cup Offices

\* A count that takes every shipment under way of the member or office into account.
Counts(task) ==
    /\ task.kind \in {"office", "member", "owner"} /\ task.on \in Findable
    /\ Reached(task)
Owes(s, task) == s.pc = "followUp" /\ task \in Range(s.tasks)
CountOf(x) ==
    IF x \in Members THEN [kind |-> "member", on |-> x, email |-> called[x].email]
                     ELSE [kind |-> "office", on |-> x]
Due(x)     == \E r \in Requests : Owes(requests[r], CountOf(x))
Freed(p) ==
    \E r \in Requests, kind \in {"release", "receive", "unlock"} :
        Owes(requests[r], [kind |-> kind, on |-> p])

\* The flags, up to what is owed. A member's flag is never down too early: the
\* listener is called for flagged members only.
EndsFlagged ==
    /\ \A m \in Members \ renamed : HasActiveShipments(m) => flagged[m]
    /\ \A x \in Findable : (flagged[x] <=> HasActiveShipments(x)) \/ Due(x)
ProductsFreed ==
    \A p \in Products :
        products[p].activeShipment => ActiveShipmentsOf(p) # {} \/ Freed(p)

\* What the head task has read still holds.
ReadingHolds(task, got) ==
    /\ Counts(task) => (got.some <=> HasActiveShipments(task.on))
    /\ task.kind \in {"release", "receive", "toInTransit"} =>
          /\ got.at \in products[task.on].holders
          /\ got.product.activeShipment = products[task.on].activeShipment

\* A shipment under way knows its members by their present names and e-mails; so does
\* what a request has seen of it. Other places have no names.
CalledAsNow(x, by) ==
    /\ x \in Members \ renamed => by = called[x]
    /\ x \notin Members => by = Unnamed
PreparedFits(s) ==
    /\ s.from \notin Members => s.fromCalled = Unnamed
    /\ s.to \notin Members => s.toCalled = Unnamed
CalledFits(sh) ==
    /\ CalledAsNow(sh.origin, sh.originCalled)
    /\ CalledAsNow(sh.destination, sh.destinationCalled)
CalledInv ==
    /\ \A s \in DOMAIN shipments : Active(shipments[s]) => CalledFits(shipments[s])
    /\ \A r \in Requests :
          /\ requests[r].pc = "loaded" => CalledFits(requests[r].seen)
          /\ requests[r].pc = "prepared" => PreparedFits(requests[r])

\* The shipment of a product that has still to be handed over is under way.
SettleHolds(todo) ==
    ActiveShipmentsOf(todo.product) # {} /\ HasActiveShipments(todo.to)

RequestHolds(s) ==
    /\ s.pc \in {"loaded", "redating", "merging"} => SeenSound(s)
    /\ s.pc = "merging" => TargetSound(s)
    /\ s.pc = "merged" => MergedSound(s)
    /\ s.pc = "followUp" =>
          /\ s.got # <<>> => ReadingHolds(s.tasks[1], s.got[1])
          /\ \A i \in DOMAIN s.settle : SettleHolds(s.settle[i])

FlagsInv ==
    EndsFlagged /\ ProductsFreed /\ \A r \in Requests : RequestHolds(requests[r])

-----------------------------------------------------------------------------
\* Lists of tasks.

LEMMA NothingOwed ==
    ASSUME Serial, NEW r \in Requests, requests[r].pc # "followUp"
    PROVE  /\ \A x : ~Due(x)
           /\ \A p : ~Freed(p)
<1>1. \A q \in Requests : q = r  BY DEF Serial
<1> QED  BY <1>1 DEF Due, Freed, Owes

LEMMA OfficeTasksOwed ==
    ASSUME NEW sh \in Shipment, NEW x \in Ends(sh) \cap Offices
    PROVE  [kind |-> "office", on |-> x] \in Range(OfficeTasks(sh))
<1>1. ASSUME NEW y PROVE OfficeTask(y) \in Seq(Tasks)
  <2>1. y \in Offices => [kind |-> "office", on |-> y] \in Tasks  BY DEF Tasks
  <2> QED  BY <2>1 DEF OfficeTask
<1>2. PICK a \in Seq(Tasks), b \in Seq(Tasks) :
         a = OfficeTask(sh.origin) /\ b = OfficeTask(sh.destination)
  BY <1>1
<1>3. Range(a \o b) = Range(a) \cup Range(b)  BY RangeConcatenated
<1>4. OfficeTask(x) = <<[kind |-> "office", on |-> x]>>  BY DEF OfficeTask
<1>5. [kind |-> "office", on |-> x] \in Range(OfficeTask(x))  BY <1>4 DEF Range
<1> QED  BY <1>2, <1>3, <1>5 DEF Ends, OfficeTasks

LEMMA MemberTasksOwed ==
    ASSUME NEW sh \in Shipment, CalledFits(sh), NEW m \in Ends(sh) \cap (Members \ renamed)
    PROVE  CountOf(m) \in Range(MemberTasks(sh))
<1>1. ASSUME NEW y, NEW email \in Names PROVE MemberTask(y, email) \in Seq(Tasks)
  <2>1. y \in Members => [kind |-> "member", on |-> y, email |-> email] \in Tasks
    BY DEF Tasks
  <2> QED  BY <2>1 DEF MemberTask
<1>2. sh.originCalled.email \in Names /\ sh.destinationCalled.email \in Names
  BY DEF Shipment, Called
<1>3. PICK a \in Seq(Tasks), b \in Seq(Tasks) :
         /\ a = MemberTask(sh.origin, sh.originCalled.email)
         /\ b = MemberTask(sh.destination, sh.destinationCalled.email)
  BY <1>1, <1>2
<1>4. Range(a \o b) = Range(a) \cup Range(b)  BY RangeConcatenated
<1>5. PICK task : task = CountOf(m)  OBVIOUS
<1>6. MemberTask(m, called[m].email) = <<task>>  BY <1>5 DEF MemberTask, CountOf
<1>7. <<task>> \in {a, b}
  BY <1>3, <1>6 DEF Ends, CalledFits, CalledAsNow
<1>8. task \in Range(<<task>>)  BY DEF Range
<1> QED  BY <1>3, <1>4, <1>5, <1>7, <1>8 DEF MemberTasks

LEMMA ProductTasksOwed ==
    ASSUME NEW kind, NEW sh \in Shipment, NEW p \in Carried(sh)
    PROVE  [kind |-> kind, on |-> p] \in Range(ProductTasks(kind, sh))
<1>1. PICK i \in DOMAIN sh.products : p = sh.products[i]  BY DEF Carried, Range
<1> QED  BY <1>1 DEF ProductTasks, Range

LEMMA FollowUpOwes ==
    ASSUME TypeInv, NEW r \in Requests, NEW op, NEW tasks \in Seq(Tasks), NEW settle,
           FollowUp(r, op, tasks, settle)
    PROVE  \A task \in Range(tasks) : Owes(requests'[r], task)
<1> SUFFICES ASSUME NEW task \in Range(tasks) PROVE Owes(requests'[r], task)
  OBVIOUS
<1> DEFINE next == [pc |-> "followUp", op |-> op, tasks |-> tasks,
                    settle |-> settle, got |-> <<>>]
<1>1. tasks # <<>>  BY DEF Range
<1>2. Become(r, next)  BY <1>1 DEF FollowUp
<1>3. next.pc = "followUp" /\ next.tasks = tasks  OBVIOUS
<1> HIDE DEF next
<1> QED  BY <1>2, <1>3, BecomeIs DEF Owes

LEMMA Concatenated ==
    ASSUME NEW T, NEW a \in Seq(T), NEW b \in Seq(T)
    PROVE  a \o b \in Seq(T)
OBVIOUS

LEMMA HeadAndTail ==
    ASSUME NEW T, NEW ts \in Seq(T), ts # <<>>
    PROVE  Range(ts) = {ts[1]} \cup Range(Tail(ts)) /\ Tail(ts) \in Seq(T)
<1>1. /\ Len(ts) \in Nat /\ Len(ts) # 0 /\ DOMAIN ts = 1 .. Len(ts)
  OBVIOUS
<1>2. /\ Tail(ts) \in Seq(T) /\ DOMAIN Tail(ts) = 1 .. Len(ts) - 1
      /\ \A j \in 1 .. Len(ts) - 1 : Tail(ts)[j] = ts[j + 1]
  BY <1>1
<1>3. ASSUME NEW x \in Range(ts) PROVE x = ts[1] \/ x \in Range(Tail(ts))
  <2>1. PICK i \in 1 .. Len(ts) : x = ts[i]  BY <1>1 DEF Range
  <2>2. CASE i # 1
    <3>1. i - 1 \in 1 .. Len(ts) - 1 /\ (i - 1) + 1 = i  BY <1>1, <2>1, <2>2
    <3> QED  BY <1>2, <2>1, <3>1 DEF Range
  <2> QED  BY <2>1, <2>2
<1>4. ASSUME NEW x \in Range(Tail(ts)) PROVE x \in Range(ts)
  <2>1. PICK i \in 1 .. Len(ts) - 1 : x = ts[i + 1]  BY <1>2 DEF Range
  <2>2. i + 1 \in 1 .. Len(ts)  BY <1>1, <2>1
  <2> QED  BY <1>1, <2>1, <2>2 DEF Range
<1>5. ts[1] \in Range(ts)  BY <1>1 DEF Range
<1> QED  BY <1>2, <1>3, <1>4, <1>5

\* When the head task is over, only that is owed no more.
LEMMA DoneOwes ==
    ASSUME TypeInv, NEW r \in Requests, NEW kinds, Working(r, kinds),
           NEW more \in Seq(Tasks), Done(r, more)
    PROVE  /\ \A task : Owes(requests[r], task) /\ task # HeadTask(r)
                          => Owes(requests'[r], task)
           /\ \A task \in Range(more) : Owes(requests'[r], task)
<1>1. requests[r].pc = "followUp" /\ requests[r].tasks # <<>>  BY WorkingType
<1>2. requests[r].tasks \in Seq(Tasks)  BY <1>1, PcTypes DEF TypeInv, Following
<1>3. PICK ts \in Seq(Tasks) : ts = requests[r].tasks  BY <1>2
<1>4. PICK rest \in Seq(Tasks) : rest = Tail(ts) /\ Range(ts) = {ts[1]} \cup Range(rest)
  <2>1. ts # <<>>  BY <1>1, <1>3
  <2> QED  BY <2>1, HeadAndTail
<1>5. PICK tasks \in Seq(Tasks) : tasks = more \o rest  BY Concatenated
<1>6. Range(tasks) = Range(more) \cup Range(rest)  BY <1>5, RangeConcatenated
<1>7. FollowUp(r, requests[r].op, tasks, requests[r].settle)  BY <1>3, <1>4, <1>5 DEF Done
<1>8. \A task \in Range(tasks) : Owes(requests'[r], task)  BY <1>7, FollowUpOwes
<1>9. HeadTask(r) = ts[1]  BY <1>3 DEF HeadTask
<1> QED  BY <1>3, <1>4, <1>6, <1>8, <1>9 DEF Owes

-----------------------------------------------------------------------------
\* What keeps the parts of the invariant.

SameEndsActive == \A x : HasActiveShipments(x)' = HasActiveShipments(x)
ProductsStayIn == \A p : ActiveShipmentsOf(p) # {} => ActiveShipmentsOf(p)' # {}

LEMMA Together ==
    ASSUME Serial, NEW r \in Requests, EndsFlagged', ProductsFreed',
           RequestHolds(requests[r])'
    PROVE  FlagsInv'
<1>1. \A q \in Requests : q = r  BY DEF Serial
<1> QED  BY <1>1 DEF FlagsInv

LEMMA EndsStay ==
    ASSUME EndsFlagged, UNCHANGED <<flagged, renamed>>, SameEndsActive,
           \A x \in Findable : Due(x) => Due(x)' \/ (flagged[x] <=> HasActiveShipments(x))
    PROVE  EndsFlagged'
BY DEF EndsFlagged, SameEndsActive, Findable

LEMMA ProductsStay ==
    ASSUME ProductsFreed,
           \A p \in Products : products'[p].activeShipment =>
              products[p].activeShipment \/ ActiveShipmentsOf(p)' # {},
           \A p \in Products : ActiveShipmentsOf(p) # {} =>
              ActiveShipmentsOf(p)' # {} \/ Freed(p)',
           \A p \in Products : Freed(p) =>
              \/ Freed(p)' \/ ActiveShipmentsOf(p)' # {}
              \/ ~products'[p].activeShipment
    PROVE  ProductsFreed'
BY DEF ProductsFreed

LEMMA UnchangedActive ==
    ASSUME UNCHANGED shipments
    PROVE  SameEndsActive /\ ProductsStayIn
BY DEF SameEndsActive, ProductsStayIn, HasActiveShipments, ActiveShipmentsOf, Active, Ends,
       Carried

\* Shipments that go on as they are, perhaps with more products.
LEMMA StillActive ==
    ASSUME DOMAIN shipments' = DOMAIN shipments,
           \A s \in DOMAIN shipments :
              /\ Active(shipments'[s]) <=> Active(shipments[s])
              /\ SameEnds(shipments'[s], shipments[s])
              /\ Carried(shipments[s]) \subseteq Carried(shipments'[s])
    PROVE  SameEndsActive /\ ProductsStayIn
<1>1. \A s \in DOMAIN shipments : Ends(shipments'[s]) = Ends(shipments[s])
  BY DEF SameEnds, Ends
<1>2. SameEndsActive  BY <1>1 DEF SameEndsActive, HasActiveShipments
<1>3. ProductsStayIn  BY DEF ProductsStayIn, ActiveShipmentsOf
<1> QED  BY <1>2, <1>3

LEMMA NothingHeld ==
    ASSUME NEW r, requests'[r].pc \in {"idle", "prepared", "officeChecked"}
    PROVE  RequestHolds(requests[r])'
BY DEF RequestHolds

\* A step of a request that owes nothing and writes nothing.
LEMMA QuietStep ==
    ASSUME Serial, FlagsInv, NEW r \in Requests, requests[r].pc # "followUp",
           UNCHANGED <<shipments, products, flagged, renamed>>, RequestHolds(requests[r])'
    PROVE  FlagsInv'
<1>1. SameEndsActive /\ ProductsStayIn  BY UnchangedActive
<1>2. (\A x : ~Due(x)) /\ (\A p : ~Freed(p))  BY NothingOwed
<1>3. EndsFlagged'  BY <1>1, <1>2, EndsStay DEF FlagsInv
<1>4. ProductsFreed'  BY <1>1, <1>2, ProductsStay DEF FlagsInv, ProductsStayIn
<1> QED  BY <1>3, <1>4, Together

\* Only a member's own request changes names.
NamesStay == UNCHANGED <<called, renamed>>

LEMMA NamesStaySteps ==
    ASSUME NEW r \in Requests, Step(r), ~UpdateMember(r)
    PROVE  NamesStay
BY DEF NamesStay, Step, Arrive, Continue, Prepare, Move, Load, Patch, CheckOffice,
   UpdateDefaultOffice, Consolidate, Create, Settle, Cancel, SetStatus, FindTarget,
   SaveTarget, DeleteMerged, Redate, Count, WriteFlag, FindHolder, ReadProduct,
   WriteProduct, UpdateOffice, Abort, Crash

-----------------------------------------------------------------------------
\* Steps that write neither shipments, products nor flags.

LEMMA LoadHolds ==
    ASSUME Serial, TypeInv, NEW r \in Requests, Load(r)
    PROVE  RequestHolds(requests[r])'
<1>1. PICK op \in {"cancel", "setStatus", "reschedule"}, s \in DOMAIN shipments :
         /\ ~shipments[s].isDeleted /\ shipments[s].status \in Changeable(op)
         /\ Become(r, [pc |-> "loaded", op |-> op, shipment |-> s, seen |-> shipments[s]])
         /\ UNCHANGED shipments
  BY DEF Load
<1>2. /\ requests'[r].pc = "loaded" /\ requests'[r].shipment = s
      /\ requests'[r].seen = shipments[s]
  BY <1>1, BecomeIs
<1>3. shipments[s].status \in ActiveStatuses  BY <1>1, Statuses
<1> QED  BY <1>1, <1>2, <1>3 DEF RequestHolds, SeenSound, SameEnds, Active

LEMMA FindTargetHolds ==
    ASSUME TypeInv, FlagsInv, NEW r \in Requests, FindTarget(r)
    PROVE  RequestHolds(requests[r])'
<1> DEFINE s == requests[r]
           others(date) ==
             Consolidatable(s.seen.origin, s.seen.originCalled,
                            s.seen.destination, s.seen.destinationCalled, date)
               \ {s.shipment}
           alone(date) == [pc |-> "redating", shipment |-> s.shipment,
                           seen |-> s.seen, date |-> date]
           joined(date, t) ==
             [pc |-> "merging", shipment |-> s.shipment, seen |-> s.seen,
              date |-> date, target |-> t, targetProducts |-> shipments[t].products]
<1>1. PICK date \in Dates :
         \/ Become(r, alone(date))
         \/ \E t \in others(date) : Become(r, joined(date, t))
  BY DEF FindTarget
<1>2. RequestHolds(s) /\ s.pc = "loaded" /\ UNCHANGED shipments
  BY DEF FlagsInv, FindTarget
<1>3. SeenSound(s)  BY <1>2 DEF RequestHolds
<1>4. CASE Become(r, alone(date))
  <2>1. /\ requests'[r].pc = "redating" /\ requests'[r].shipment = s.shipment
        /\ requests'[r].seen = s.seen
    BY <1>4, BecomeIs
  <2> QED  BY <1>2, <1>3, <2>1 DEF RequestHolds, SeenSound, Active, SameEnds
<1>5. ASSUME NEW t \in others(date), Become(r, joined(date, t))
      PROVE  RequestHolds(requests[r])'
  <2>1. /\ requests'[r].pc = "merging" /\ requests'[r].shipment = s.shipment
        /\ requests'[r].seen = s.seen /\ requests'[r].target = t
    BY <1>5, BecomeIs
  <2>2. /\ t \in DOMAIN shipments /\ Editable(shipments[t])
        /\ SameEnds(shipments[t], s.seen) /\ t # s.shipment
    BY <1>5 DEF Consolidatable, SameEnds
  <2>3. SeenSound(requests[r])'
    BY <1>2, <1>3, <2>1 DEF SeenSound, Active, SameEnds
  <2>4. TargetSound(requests[r])'
    BY <1>2, <2>1, <2>2 DEF TargetSound, Editable, SameEnds
  <2> QED  BY <2>1, <2>3, <2>4 DEF RequestHolds
<1> QED  BY <1>1, <1>4, <1>5

LEMMA QuietSteps ==
    ASSUME FlagsAssumption, TypeInv, FlagsInv, NEW r \in Requests,
           \/ Prepare(r) \/ Load(r) \/ CheckOffice(r) \/ UpdateDefaultOffice(r)
           \/ FindTarget(r) \/ UpdateOffice(r) \/ Abort(r)
    PROVE  FlagsInv'
<1>1. requests[r].pc # "followUp"
  <2>1. CASE FindTarget(r) \/ UpdateOffice(r) \/ Abort(r)
    BY <2>1 DEF FindTarget, UpdateOffice, Abort
  <2>2. CASE ~(FindTarget(r) \/ UpdateOffice(r) \/ Abort(r))
    <3>1. \E op : Starts(r, op)
      BY <2>2 DEF Prepare, Load, CheckOffice, UpdateDefaultOffice
    <3> QED  BY <3>1 DEF Starts, Idle
  <2> QED  BY <2>1, <2>2
<1>2. UNCHANGED <<shipments, products, flagged, renamed>>
  BY DEF Prepare, Load, CheckOffice, UpdateDefaultOffice, FindTarget,
     UpdateOffice, Abort
<1>3. RequestHolds(requests[r])'
  <2>1. CASE Prepare(r)
    <3>1. PICK state : Become(r, state) /\ state.pc = "prepared"  BY <2>1 DEF Prepare
    <3>2. requests'[r].pc = "prepared"  BY <3>1, BecomeIs
    <3> QED  BY <3>2, NothingHeld
  <2>2. CASE Load(r)  BY <2>2, LoadHolds DEF FlagsAssumption
  <2>3. CASE FindTarget(r)  BY <2>3, FindTargetHolds
  <2>4. CASE UpdateDefaultOffice(r)
    <3>1. requests'[r] = Idle  BY <2>4 DEF UpdateDefaultOffice, Starts
    <3>2. requests'[r].pc = "idle"  BY <3>1 DEF Idle
    <3> QED  BY <3>2, NothingHeld
  <2>5. CASE CheckOffice(r)
    <3>1. PICK o : Become(r, [pc |-> "officeChecked", office |-> o])
      BY <2>5 DEF CheckOffice
    <3>2. requests'[r].pc = "officeChecked"  BY <3>1, BecomeIs
    <3> QED  BY <3>2, NothingHeld
  <2>6. CASE UpdateOffice(r) \/ Abort(r)
    <3>1. requests'[r].pc = "idle"  BY <2>6, BecomeIs DEF UpdateOffice, Abort, Idle
    <3> QED  BY <3>1, NothingHeld
  <2> QED  BY <2>1, <2>2, <2>3, <2>4, <2>5, <2>6
<1> QED  BY <1>1, <1>2, <1>3, QuietStep DEF FlagsAssumption

\* A member who takes another name or e-mail while flagged is left to the exceptions.
LEMMA UpdateMemberHolds ==
    ASSUME FlagsAssumption, TypeInv, FlagsInv, NEW r \in Requests, UpdateMember(r)
    PROVE  FlagsInv'
<1>1. /\ requests[r].pc = "idle" /\ requests'[r].pc = "idle"
      /\ UNCHANGED <<shipments, products, flagged>> /\ renamed \subseteq renamed'
  BY DEF UpdateMember, Starts, Idle
<1>2. (\A x : ~Due(x)) /\ (\A p : ~Freed(p))
  BY <1>1, NothingOwed DEF FlagsAssumption
<1>3. SameEndsActive /\ ProductsStayIn  BY <1>1, UnchangedActive
<1>4. EndsFlagged'
  BY <1>1, <1>2, <1>3 DEF FlagsInv, EndsFlagged, SameEndsActive, Findable
<1>5. ProductsFreed'  BY <1>1, <1>2, <1>3, ProductsStay DEF FlagsInv, ProductsStayIn
<1> QED  BY <1>1, <1>4, <1>5, NothingHeld, Together DEF FlagsAssumption

\* A product that is moved without a shipment is unlocked.
LEMMA MoveHolds ==
    ASSUME FlagsAssumption, TypeInv, FlagsInv, NEW r \in Requests, Move(r)
    PROVE  FlagsInv'
<1>1. PICK p \in Products, to \in Places :
         \E from : products' = [products EXCEPT ![p] =
              [holders |-> Moved(p, from, to), status |-> RestStatus(to),
               activeShipment |-> FALSE, fp_shipment |-> FALSE]]
  BY DEF Move
<1>2. /\ requests'[r].pc = "idle" /\ requests[r].pc = "idle"
      /\ UNCHANGED <<shipments, flagged, renamed>>
  BY DEF Move, Starts, Idle
<1>3. ASSUME NEW q \in Products
      PROVE  products'[q].activeShipment => products[q].activeShipment
  BY <1>1, Types
<1>4. SameEndsActive /\ ProductsStayIn  BY <1>2, UnchangedActive
<1>5. (\A x : ~Due(x)) /\ (\A q : ~Freed(q))
  BY <1>2, NothingOwed DEF FlagsAssumption
<1>6. EndsFlagged'  BY <1>2, <1>4, <1>5, EndsStay DEF FlagsInv
<1>7. ProductsFreed'  BY <1>3, <1>4, <1>5, ProductsStay DEF FlagsInv, ProductsStayIn
<1> QED  BY <1>2, <1>6, <1>7, NothingHeld, Together DEF FlagsAssumption

-----------------------------------------------------------------------------
\* The tasks.

LEMMA SettleStays ==
    ASSUME SameEndsActive, ProductsStayIn, NEW todo, SettleHolds(todo)
    PROVE  SettleHolds(todo)'
BY DEF SameEndsActive, ProductsStayIn, SettleHolds

LEMMA SettlesStay ==
    ASSUME FlagsInv, NEW r \in Requests, requests[r].pc = "followUp",
           SameEndsActive, ProductsStayIn, requests'[r].settle = requests[r].settle,
           NEW i \in DOMAIN requests'[r].settle
    PROVE  SettleHolds(requests[r].settle[i])'
<1>1. PICK todo : todo = requests[r].settle[i]  OBVIOUS
<1>2. SettleHolds(todo)  BY <1>1 DEF FlagsInv, RequestHolds
<1>3. SettleHolds(todo)'  BY <1>2, SettleStays
<1>4. requests'[r].settle[i] = todo  BY <1>1
<1> QED  BY <1>3, <1>4 DEF SettleHolds

LEMMA DoneHolds ==
    ASSUME TypeInv, FlagsInv, NEW r \in Requests, requests[r].pc = "followUp",
           SameEndsActive, ProductsStayIn, NEW more, Done(r, more)
    PROVE  RequestHolds(requests[r])'
<1>1. CASE requests'[r] = Idle  BY <1>1 DEF RequestHolds, Idle
<1>2. CASE /\ requests'[r].pc = "followUp" /\ requests'[r].got = <<>>
           /\ requests'[r].settle = requests[r].settle
  <2>1. \A i \in DOMAIN requests'[r].settle : SettleHolds(requests[r].settle[i])'
    BY <1>2, SettlesStay
  <2> QED  BY <1>2, <2>1 DEF RequestHolds
<1> QED  BY <1>1, <1>2, DoneIs

LEMMA GotHolds ==
    ASSUME TypeInv, FlagsInv, NEW r \in Requests, requests[r].pc = "followUp",
           UNCHANGED <<shipments, products>>, NamesStay, NEW reading, Got(r, reading),
           ReadingHolds(HeadTask(r), reading)
    PROVE  RequestHolds(requests[r])'
<1>1. /\ requests'[r].pc = "followUp" /\ requests'[r].got = <<reading>>
      /\ requests'[r].tasks = requests[r].tasks
      /\ requests'[r].settle = requests[r].settle
  BY GotIs
<1>2. SameEndsActive /\ ProductsStayIn  BY UnchangedActive
<1>3. \A i \in DOMAIN requests'[r].settle : SettleHolds(requests[r].settle[i])'
  BY <1>1, <1>2, SettlesStay
<1>4. PICK task : task = HeadTask(r)  OBVIOUS
<1>5. ReadingHolds(task, reading)'
  BY <1>2, <1>4 DEF ReadingHolds, SameEndsActive, Counts, Findable, Reached, NamesStay
<1>6. requests'[r].tasks[1] = task /\ requests'[r].got[1] = reading
  BY <1>1, <1>4 DEF HeadTask
<1>7. ReadingHolds(requests[r].tasks[1], requests[r].got[1])'
  BY <1>5, <1>6 DEF ReadingHolds, Counts, Findable, Reached
<1> QED  BY <1>1, <1>3, <1>7 DEF RequestHolds

\* While the list of tasks stays, or loses a task that frees or counts nothing, all
\* stays owed.
LEMMA StillOwed ==
    ASSUME FlagsAssumption, FlagsInv, NEW r \in Requests,
           UNCHANGED <<shipments, products, flagged>>, NamesStay,
           RequestHolds(requests[r])',
           \A task : Owes(requests[r], task) =>
              \/ Owes(requests'[r], task)
              \/ task.kind = "member" /\ HasActiveShipments(task.on)
              \/ task.kind = "unlock" /\ ActiveShipmentsOf(task.on) # {}
              \/ task.kind \in {"owner", "holder", "toInTransit"}
    PROVE  FlagsInv'
<1>1. SameEndsActive /\ ProductsStayIn  BY UnchangedActive
<1>2. \A q \in Requests : q = r  BY DEF FlagsAssumption, Serial
<1>3. ASSUME NEW x \in Findable, Due(x)
      PROVE  Due(x)' \/ (flagged[x] <=> HasActiveShipments(x))
  <2>1. Owes(requests[r], CountOf(x))  BY <1>2, <1>3 DEF Due
  <2>2. PICK task : task = CountOf(x) /\ task = CountOf(x)'  BY DEF CountOf, NamesStay
  <2>3. CASE Owes(requests'[r], task)  BY <2>2, <2>3 DEF Due
  <2>4. CASE ~Owes(requests'[r], task)
    <3>1. task.on = x /\ task.kind \in {"member", "office"} /\ (task.kind = "member" => x \in Members)
      BY <2>2 DEF CountOf
    <3>2. HasActiveShipments(x) /\ x \in Members  BY <2>1, <2>2, <2>4, <3>1
    <3>3. x \in Members \ renamed
      BY <1>3, <3>2, ConstantsAssumption DEF ConstantsAssumption, Findable, Pool
    <3> QED  BY <3>2, <3>3 DEF FlagsInv, EndsFlagged
  <2> QED  BY <2>3, <2>4
<1>4. EndsFlagged'  BY <1>1, <1>3, EndsStay DEF FlagsInv, NamesStay
<1>5. ASSUME NEW p \in Products, Freed(p)
      PROVE  Freed(p)' \/ ActiveShipmentsOf(p)' # {}
  <2>1. PICK kind \in {"release", "receive", "unlock"} :
           Owes(requests[r], [kind |-> kind, on |-> p])
    BY <1>2, <1>5 DEF Freed
  <2>2. PICK task : task = [kind |-> kind, on |-> p]  OBVIOUS
  <2>3. CASE Owes(requests'[r], task)  BY <2>2, <2>3 DEF Freed
  <2>4. CASE ~Owes(requests'[r], task)
    <3>1. ActiveShipmentsOf(p) # {}  BY <2>1, <2>2, <2>4
    <3> QED  BY <1>1, <3>1 DEF ProductsStayIn
  <2> QED  BY <2>3, <2>4
<1>6. ProductsFreed'  BY <1>1, <1>5, ProductsStay DEF FlagsInv, ProductsStayIn
<1> QED  BY <1>4, <1>6, Together DEF FlagsAssumption

\* After Got the request owes what it did.
LEMMA GotOwes ==
    ASSUME TypeInv, NEW r \in Requests, requests[r].pc = "followUp", NEW reading,
           Got(r, reading)
    PROVE  \A task : Owes(requests[r], task) => Owes(requests'[r], task)
BY GotIs DEF Owes

\* The count of a member finds every shipment that says the present e-mail.
LEMMA CountIsExact ==
    ASSUME TypeInv, CalledInv, NEW task \in Tasks, Counts(task)
    PROVE  None(task) <=> ~HasActiveShipments(task.on)
<1>1. CASE task.kind = "office"  BY <1>1 DEF None
<1>2. CASE task.kind \in {"member", "owner"}
  <2>1. task.on \in Members /\ called[task.on].email = task.email
    BY <1>2 DEF Counts, Reached, Tasks
  <2>2. task.on \in Members \ renamed
    BY <2>1, ConstantsAssumption DEF Counts, Findable, ConstantsAssumption, Pool
  <2>3. PICK m : m = task.on  OBVIOUS
  <2>4. ASSUME NEW s \in DOMAIN shipments, Active(shipments[s]), m \in Ends(shipments[s])
        PROVE  HasEmail(shipments[s], m, task.email)
    BY <2>1, <2>2, <2>3, <2>4 DEF CalledInv, CalledFits, CalledAsNow, Ends, HasEmail
  <2>5. ASSUME NEW s \in DOMAIN shipments,
               \/ HasEmail(shipments[s], m, task.email)
               \/ HasName(shipments[s], m, called[m].name)
        PROVE  m \in Ends(shipments[s])
    BY <2>5 DEF HasEmail, HasName, Ends
  <2>6. CASE task.kind = "member"
    <3>1. None(task) <=> ~ \E s \in DOMAIN shipments :
             Active(shipments[s]) /\ HasEmail(shipments[s], m, task.email)
      BY <2>3, <2>6 DEF None
    <3> QED  BY <2>3, <2>4, <2>5, <3>1 DEF HasActiveShipments
  <2>7. CASE task.kind = "owner"
    <3>1. None(task) <=> ~ \E s \in DOMAIN shipments :
             /\ Active(shipments[s])
             /\ \/ HasEmail(shipments[s], m, task.email)
                \/ HasName(shipments[s], m, called[m].name)
      BY <2>1, <2>3, <2>7 DEF None
    <3> QED  BY <2>3, <2>4, <2>5, <3>1 DEF HasActiveShipments
  <2> QED  BY <1>2, <2>6, <2>7
<1> QED  BY <1>1, <1>2 DEF Counts

LEMMA CountHolds ==
    ASSUME FlagsAssumption, TypeInv, CalledInv, FlagsInv, NEW r \in Requests, Count(r)
    PROVE  FlagsInv'
<1> DEFINE x    == HeadTask(r).on
           kind == HeadTask(r).kind
           none == None(HeadTask(r))
<1>1. /\ Working(r, {"office", "member", "owner", "unlock"})
      /\ UNCHANGED <<shipments, products, flagged>> /\ NamesStay
      /\ IF kind = "office" \/ none THEN Got(r, [some |-> ~none]) ELSE Done(r, <<>>)
  BY DEF Count, NamesStay
<1>2. /\ requests[r].pc = "followUp" /\ kind \in {"office", "member", "owner", "unlock"}
      /\ HeadTask(r) \in Tasks
  BY <1>1, WorkingType
<1>3. CASE kind = "office" \/ none
  <2>1. PICK reading : reading = [some |-> ~none]  OBVIOUS
  <2>2. Got(r, reading)  BY <1>1, <1>3, <2>1
  <2>3. ReadingHolds(HeadTask(r), reading)
    <3>1. Counts(HeadTask(r)) => (none <=> ~HasActiveShipments(x))
      BY <1>2, CountIsExact
    <3>2. Counts(HeadTask(r)) => (reading.some <=> HasActiveShipments(x))
      BY <2>1, <3>1
    <3> QED  BY <1>2, <3>2 DEF ReadingHolds
  <2>4. RequestHolds(requests[r])'  BY <1>1, <1>2, <2>2, <2>3, GotHolds
  <2>5. \A task : Owes(requests[r], task) => Owes(requests'[r], task)
    BY <1>2, <2>2, GotOwes
  <2> QED  BY <1>1, <2>4, <2>5, StillOwed
<1>4. CASE ~(kind = "office" \/ none)
  <2>0. <<>> \in Seq(Tasks)  OBVIOUS
  <2>1. Done(r, <<>>) /\ <<>> \in Seq(Tasks)
    <3> HIDE DEF none, kind
    <3> QED  BY <1>1, <1>4, <2>0
  <2>2. SameEndsActive /\ ProductsStayIn  BY <1>1, UnchangedActive
  <2>3. RequestHolds(requests[r])'  BY <1>2, <2>1, <2>2, DoneHolds
  <2>4. \A task : Owes(requests[r], task) /\ task # HeadTask(r) => Owes(requests'[r], task)
    BY <1>1, <2>1, DoneOwes
  <2>5. \/ kind = "member" /\ HasActiveShipments(x)
        \/ kind = "unlock" /\ ActiveShipmentsOf(x) # {}
        \/ kind = "owner"
    BY <1>2, <1>4 DEF None, HasEmail, HasActiveShipments, Ends
  <2> QED  BY <1>1, <2>3, <2>4, <2>5, StillOwed
<1> QED  BY <1>3, <1>4

LEMMA FindHolderHolds ==
    ASSUME FlagsAssumption, TypeInv, FlagsInv, NEW r \in Requests, FindHolder(r)
    PROVE  FlagsInv'
<1>1. /\ Working(r, {"holder"}) /\ UNCHANGED <<shipments, products, flagged>>
      /\ NamesStay
  BY DEF FindHolder, NamesStay
<1>2. requests[r].pc = "followUp" /\ HeadTask(r).kind = "holder"  BY <1>1, WorkingType
<1>3. PICK more \in Seq(Tasks) : Done(r, more)
  <2>1. CASE Done(r, <<>>)
    <3>1. <<>> \in Seq(Tasks)  OBVIOUS
    <3> QED  BY <2>1, <3>1
  <2>2. CASE \E m \in Members :
                Done(r, <<[kind |-> "owner", on |-> m, email |-> called[m].email]>>)
    <3>1. PICK m \in Members :
             Done(r, <<[kind |-> "owner", on |-> m, email |-> called[m].email]>>)
      BY <2>2
    <3>2. called[m].email \in Names  BY Types DEF Called
    <3>3. [kind |-> "owner", on |-> m, email |-> called[m].email] \in Tasks
      BY <3>2 DEF Tasks
    <3>4. <<[kind |-> "owner", on |-> m, email |-> called[m].email]>> \in Seq(Tasks)
      BY <3>3
    <3> QED  BY <3>1, <3>4
  <2> QED  BY <2>1, <2>2 DEF FindHolder
<1>4. SameEndsActive /\ ProductsStayIn  BY <1>1, UnchangedActive
<1>5. RequestHolds(requests[r])'  BY <1>2, <1>3, <1>4, DoneHolds
<1>6. \A task : Owes(requests[r], task) /\ task # HeadTask(r) => Owes(requests'[r], task)
  BY <1>1, <1>3, DoneOwes
<1> QED  BY <1>1, <1>2, <1>5, <1>6, StillOwed

LEMMA ReadProductHolds ==
    ASSUME FlagsAssumption, TypeInv, FlagsInv, NEW r \in Requests, ReadProduct(r)
    PROVE  FlagsInv'
<1>1. /\ Working(r, {"release", "receive", "toInTransit"})
      /\ UNCHANGED <<shipments, products, flagged>> /\ NamesStay
  BY DEF ReadProduct, NamesStay
<1>2. /\ requests[r].pc = "followUp"
      /\ HeadTask(r).kind \in {"release", "receive", "toInTransit"}
  BY <1>1, WorkingType
<1>3. PICK x \in Visible(HeadTask(r).on) :
         Got(r, [at |-> x, email |-> CalledAt(x).email,
                 product |-> products[HeadTask(r).on]])
  BY DEF ReadProduct
<1>4. PICK reading : reading = [at |-> x, email |-> CalledAt(x).email,
                                product |-> products[HeadTask(r).on]]
  OBVIOUS
<1>5. x \in products[HeadTask(r).on].holders  BY VisibleHolds
<1>6. ReadingHolds(HeadTask(r), reading)  BY <1>2, <1>4, <1>5 DEF ReadingHolds, Counts
<1>7. RequestHolds(requests[r])'  BY <1>1, <1>2, <1>3, <1>4, <1>6, GotHolds
<1>8. \A task : Owes(requests[r], task) => Owes(requests'[r], task)
  BY <1>2, <1>3, GotOwes
<1> QED  BY <1>1, <1>7, <1>8, StillOwed

\* A flag that is written becomes exact.
LEMMA WriteFlagHolds ==
    ASSUME FlagsAssumption, TypeInv, FlagsInv, NEW r \in Requests, WriteFlag(r)
    PROVE  FlagsInv'
<1> DEFINE x    == HeadTask(r).on
           kind == HeadTask(r).kind
           some == requests[r].got[1].some
<1>1. /\ Working(r, {"office", "member", "owner", "unlock"}) /\ requests[r].got # <<>>
      /\ UNCHANGED shipments /\ Done(r, <<>>) /\ NamesStay
  BY DEF WriteFlag, NamesStay
<1>2. /\ requests[r].pc = "followUp" /\ kind \in {"office", "member", "owner", "unlock"}
      /\ HeadTask(r) = requests[r].tasks[1] /\ HeadTask(r) \in Tasks
  BY <1>1, WorkingType DEF HeadTask
<1>3. SameEndsActive /\ ProductsStayIn  BY <1>1, UnchangedActive
<1>4. RequestHolds(requests[r])'  BY <1>1, <1>2, <1>3, DoneHolds
<1>5. \A task : Owes(requests[r], task) /\ task # HeadTask(r) => Owes(requests'[r], task)
  <2>1. <<>> \in Seq(Tasks)  OBVIOUS
  <2> QED  BY <1>1, <2>1, DoneOwes
<1>6. \A q \in Requests : q = r  BY DEF FlagsAssumption, Serial
<1>7. ReadingHolds(HeadTask(r), requests[r].got[1])
  BY <1>1, <1>2 DEF FlagsInv, RequestHolds
<1>0. \A y : CountOf(y)' = CountOf(y)  BY <1>1 DEF CountOf, NamesStay
<1>8. CASE kind = "unlock"
  <2>1. products' = [products EXCEPT ![x].activeShipment = FALSE] /\ UNCHANGED flagged
    BY <1>8 DEF WriteFlag
  <2>2. ASSUME NEW y, Due(y) PROVE Due(y)'
    <3>1. CountOf(y) # HeadTask(r)  BY <1>8 DEF CountOf
    <3> QED  BY <1>0, <1>5, <1>6, <2>2, <3>1 DEF Due
  <2>3. EndsFlagged'  BY <1>1, <1>3, <2>1, <2>2, EndsStay DEF FlagsInv, NamesStay
  <2>4. ASSUME NEW p \in Products
        PROVE  /\ products'[p].activeShipment => products[p].activeShipment
               /\ p = x => ~products'[p].activeShipment
    <3>1. products[p] \in Product /\ products \in [Products -> Product]  BY Types
    <3>2. products'[p] = IF p = x THEN [products[p] EXCEPT !.activeShipment = FALSE]
                         ELSE products[p]
      BY <2>1, <3>1
    <3> QED  BY <3>1, <3>2 DEF Product
  <2>5. ASSUME NEW p \in Products, Freed(p)
        PROVE  Freed(p)' \/ ~products'[p].activeShipment
    <3>1. PICK k \in {"release", "receive", "unlock"} :
             Owes(requests[r], [kind |-> k, on |-> p])
      BY <1>6, <2>5 DEF Freed
    <3>2. CASE [kind |-> k, on |-> p] = HeadTask(r)
      <4>1. p = x  BY <3>2
      <4> QED  BY <2>4, <4>1
    <3>3. CASE [kind |-> k, on |-> p] # HeadTask(r)
      BY <1>5, <3>1, <3>3 DEF Freed
    <3> QED  BY <3>2, <3>3
  <2>6. ProductsFreed'
    BY <1>3, <2>4, <2>5, ProductsStay DEF FlagsInv, ProductsStayIn
  <2> QED  BY <1>4, <2>3, <2>6, Together DEF FlagsAssumption
<1>9. CASE kind \in {"office", "member", "owner"}
  <2>1. /\ flagged' = [flagged EXCEPT ![x] = IF Reached(HeadTask(r)) THEN some ELSE @]
        /\ UNCHANGED products
    BY <1>9 DEF WriteFlag
  <2>2. \A y \in Findable : y \in Members \cup Offices /\ flagged[y] \in BOOLEAN
    BY Types DEF Findable
  <2>3. ASSUME NEW y \in Findable
        PROVE  \/ flagged'[y] <=> HasActiveShipments(y)
               \/ flagged'[y] = flagged[y] /\ CountOf(y) # HeadTask(r)
    <3>1. CASE y = x /\ Reached(HeadTask(r))
      <4>1. Counts(HeadTask(r))  BY <1>9, <3>1 DEF Counts
      <4>2. some <=> HasActiveShipments(x)  BY <1>7, <4>1 DEF ReadingHolds
      <4>3. flagged'[y] = some  BY <2>1, <2>2, <3>1, Types
      <4> QED  BY <3>1, <4>2, <4>3
    <3>2. CASE y # x
      <4>1. CountOf(y) # HeadTask(r)  BY <3>2 DEF CountOf
      <4> QED  BY <2>1, <2>2, <3>2, <4>1, Types
    <3>3. CASE ~Reached(HeadTask(r))
      <4>1. flagged'[y] = flagged[y]  BY <2>1, <2>2, <3>3, Types
      <4>2. ASSUME CountOf(y) = HeadTask(r) PROVE Reached(HeadTask(r))
        <5>1. PICK task : task = HeadTask(r) /\ task = CountOf(y)  BY <4>2
        <5>2. Reached(task)  BY <5>1 DEF Reached, CountOf
        <5> QED  BY <5>1, <5>2
      <4> QED  BY <3>3, <4>1, <4>2
    <3> QED  BY <3>1, <3>2, <3>3
  <2>4. ASSUME NEW y, Due(y), CountOf(y) # HeadTask(r) PROVE Due(y)'
    BY <1>0, <1>5, <1>6, <2>4 DEF Due
  <2>5. EndsFlagged'
    <3>1. Findable' = Findable  BY <1>1 DEF NamesStay, Findable
    <3>2. ASSUME NEW y \in Findable
          PROVE  (flagged'[y] <=> HasActiveShipments(y)) \/ Due(y)'
      BY <2>3, <2>4 DEF EndsFlagged, FlagsInv
    <3>3. ASSUME NEW m \in Members \ renamed, HasActiveShipments(m) PROVE flagged'[m]
      BY <2>3, <3>3 DEF EndsFlagged, FlagsInv, Findable
    <3> QED  BY <1>1, <1>3, <3>1, <3>2, <3>3 DEF EndsFlagged, SameEndsActive, NamesStay
  <2>6. ASSUME NEW p \in Products, Freed(p) PROVE Freed(p)'
    <3>1. PICK k \in {"release", "receive", "unlock"} :
             Owes(requests[r], [kind |-> k, on |-> p])
      BY <1>6, <2>6 DEF Freed
    <3>2. [kind |-> k, on |-> p] # HeadTask(r)  BY <1>9
    <3> QED  BY <1>5, <3>1, <3>2 DEF Freed
  <2>7. ProductsFreed'
    BY <1>3, <2>1, <2>6, ProductsStay DEF FlagsInv, ProductsStayIn
  <2> QED  BY <1>4, <2>5, <2>7, Together DEF FlagsAssumption
<1> QED  BY <1>2, <1>8, <1>9

LEMMA SavedFrees ==
    ASSUME NEW kind \in {"release", "receive"}, NEW now \in Product,
           NEW got \in [at : Places, email : Names, product : Product],
           got.product.activeShipment = now.activeShipment
    PROVE  ~Saved(kind, now, got).activeShipment
<1>1. got.product \in Product  OBVIOUS
<1>2. ~Changed(kind, now, got.at).activeShipment
  BY DEF Changed, Product
<1>3. ~Changed(kind, got.product, got.at).activeShipment
  BY <1>1 DEF Changed, Product
<1>4. CASE got.at \in Members  BY <1>2, <1>4 DEF Saved
<1>5. CASE got.at \notin Members
  <2>1. Saved(kind, now, got).activeShipment =
           IF Changed(kind, got.product, got.at).activeShipment
                = got.product.activeShipment
           THEN now.activeShipment
           ELSE Changed(kind, got.product, got.at).activeShipment
    BY <1>5 DEF Saved
  <2> QED  BY <1>1, <1>3, <2>1 DEF Product
<1> QED  BY <1>4, <1>5

\* A product that is written is on its way, or free; it is where it was read.
LEMMA WriteProductHolds ==
    ASSUME FlagsAssumption, TypeInv, FlagsInv, NEW r \in Requests, WriteProduct(r)
    PROVE  FlagsInv'
<1> DEFINE p     == HeadTask(r).on
           kind  == HeadTask(r).kind
           got   == requests[r].got[1]
           saved == Saved(kind, products[p], got)
           unlock ==
              <<[kind |-> "unlock", on |-> p],
                IF got.at \in Members
                THEN [kind |-> "owner", on |-> got.at, email |-> got.email]
                ELSE [kind |-> "holder", on |-> p]>>
<1>1. /\ Working(r, {"release", "receive", "toInTransit"}) /\ requests[r].got # <<>>
      /\ UNCHANGED <<shipments, flagged>> /\ NamesStay
  BY DEF WriteProduct, NamesStay
<1>2. /\ requests[r].pc = "followUp" /\ kind \in {"release", "receive", "toInTransit"}
      /\ HeadTask(r) = requests[r].tasks[1]
      /\ p \in Products /\ got \in [at : Places, email : Names, product : Product]
  BY <1>1, WorkingType DEF HeadTask, Tasks, ReadingFits
<1>3. ReadingHolds(HeadTask(r), got)
  BY <1>1, <1>2 DEF FlagsInv, RequestHolds
<1>4. /\ got.at \in products[p].holders
      /\ got.product.activeShipment = products[p].activeShipment
  BY <1>2, <1>3 DEF ReadingHolds
<1>5. StillThere(p, got.at)  BY <1>2, <1>4 DEF StillThere, Places
<1>6. products' = [products EXCEPT ![p] = saved]  BY <1>5 DEF WriteProduct
<1>7. Done(r, IF kind = "release" THEN unlock ELSE <<>>)  BY <1>5 DEF WriteProduct
<1>8. products[p] \in Product /\ products \in [Products -> Product]  BY <1>2, Types
<1>9. IF kind = "toInTransit" THEN saved.activeShipment = products[p].activeShipment
      ELSE ~saved.activeShipment
  BY <1>2, <1>4, <1>8, SavedFrees, SavedKeeps DEF KeepsPlace
<1>10. PICK more \in Seq(Tasks) : Done(r, more)
  <2>1. CASE kind = "release"
    <3>1. /\ [kind |-> "unlock", on |-> p] \in Tasks
          /\ [kind |-> "holder", on |-> p] \in Tasks
          /\ got.at \in Members =>
                [kind |-> "owner", on |-> got.at, email |-> got.email] \in Tasks
      BY <1>2 DEF Tasks
    <3>2. unlock \in Seq(Tasks)  BY <3>1
    <3> HIDE DEF unlock
    <3> QED  BY <1>7, <2>1, <3>2
  <2>2. CASE kind # "release"
    <3>1. <<>> \in Seq(Tasks)  OBVIOUS
    <3> HIDE DEF unlock, kind
    <3> QED  BY <1>7, <2>2, <3>1
  <2> QED  BY <2>1, <2>2
<1> HIDE DEF p, kind, got, saved, unlock
<1>11. SameEndsActive /\ ProductsStayIn  BY <1>1, UnchangedActive
<1>12. RequestHolds(requests[r])'  BY <1>2, <1>10, <1>11, DoneHolds
<1>13. \A task : Owes(requests[r], task) /\ task # HeadTask(r) => Owes(requests'[r], task)
  BY <1>1, <1>10, DoneOwes
<1>14. \A q \in Requests : q = r  BY DEF FlagsAssumption, Serial
<1>15. ASSUME NEW y, Due(y) PROVE Due(y)'
  <2>1. CountOf(y).kind \in {"office", "member"}  BY DEF CountOf
  <2>2. CountOf(y) # HeadTask(r)  BY <1>2, <2>1 DEF kind
  <2>3. CountOf(y)' = CountOf(y)  BY <1>1 DEF CountOf, NamesStay
  <2> QED  BY <1>13, <1>14, <1>15, <2>2, <2>3 DEF Due
<1>16. EndsFlagged'  BY <1>1, <1>11, <1>15, EndsStay DEF FlagsInv, NamesStay
<1>17. ASSUME NEW q \in Products
       PROVE  /\ products'[q].activeShipment => products[q].activeShipment
              /\ q = p /\ kind # "toInTransit" => ~products'[q].activeShipment
  <2>1. products'[q] = IF q = p THEN saved ELSE products[q]  BY <1>6, <1>8
  <2> QED  BY <1>9, <2>1
<1>18. ASSUME NEW q \in Products, Freed(q)
       PROVE  Freed(q)' \/ ~products'[q].activeShipment
  <2>1. PICK k \in {"release", "receive", "unlock"} :
           Owes(requests[r], [kind |-> k, on |-> q])
    BY <1>14, <1>18 DEF Freed
  <2>2. CASE [kind |-> k, on |-> q] = HeadTask(r)
    <3>1. p = q /\ kind = k  BY <2>2 DEF p, kind
    <3> QED  BY <1>17, <3>1
  <2>3. CASE [kind |-> k, on |-> q] # HeadTask(r)
    BY <1>13, <2>1, <2>3 DEF Freed
  <2> QED  BY <2>2, <2>3
<1>19. ProductsFreed'
  BY <1>11, <1>17, <1>18, ProductsStay DEF FlagsInv, ProductsStayIn
<1> QED  BY <1>12, <1>16, <1>19, Together DEF FlagsAssumption

-----------------------------------------------------------------------------
\* The second transaction of an assignment: the shipment of the product is under way.
LEMMA SettleHeld ==
    ASSUME FlagsAssumption, TypeInv, FlagsInv, NEW r \in Requests, Settle(r)
    PROVE  FlagsInv'
<1>1. PICK todo : todo = requests[r].settle[1]  OBVIOUS
<1>2. /\ requests[r].pc = "followUp" /\ requests[r].tasks = <<>>
      /\ requests'[r].pc = "idle" /\ UNCHANGED shipments /\ NamesStay
  BY BecomeIs DEF Settle, Idle, NamesStay
<1>3. Fitting(requests[r])  BY DEF TypeInv, RequestsFit
<1>4. requests[r].settle \in Seq(Settlements) /\ requests[r].settle # <<>>
  BY <1>2, <1>3, PcTypes DEF TypeInv, Following, Fitting
<1>5. 1 \in DOMAIN requests[r].settle /\ todo \in Settlements  BY <1>1, <1>4
<1>6. SettleHolds(todo)  BY <1>1, <1>2, <1>5 DEF FlagsInv, RequestHolds
<1>7. \A q \in Requests : q = r  BY DEF FlagsAssumption, Serial
<1>8. (\A x : ~Due(x)) /\ (\A p : ~Freed(p))
  BY <1>2, <1>7 DEF Due, Freed, Owes, Range
<1>9. SameEndsActive /\ ProductsStayIn  BY <1>2, UnchangedActive
<1>10. \/ flagged' = flagged
       \/ /\ todo.to \notin Pool
          /\ flagged' = [flagged EXCEPT ![todo.to] = @ \/ ~todo.toFlagged]
  BY <1>1 DEF Settle
<1>11. ASSUME NEW x \in Findable PROVE flagged'[x] = flagged[x]
  <2>1. flagged \in [Members \cup Offices -> BOOLEAN] /\ x \in Members \cup Offices
    BY Types DEF Findable
  <2>2. CASE x = todo.to
    <3>1. CASE x \in Members \ renamed
      <4>1. flagged[x]  BY <1>6, <2>2, <3>1 DEF FlagsInv, EndsFlagged, SettleHolds
      <4> QED  BY <1>10, <2>1, <2>2, <4>1
    <3>2. CASE x \in Offices  BY <1>10, <2>2, <3>2 DEF Pool
    <3> QED  BY <3>1, <3>2 DEF Findable
  <2>3. CASE x # todo.to  BY <1>10, <2>1, <2>3
  <2> QED  BY <2>2, <2>3
<1>12. EndsFlagged'
  BY <1>2, <1>8, <1>9, <1>11
     DEF FlagsInv, EndsFlagged, SameEndsActive, NamesStay, Findable
<1>13. \A p \in Products \ {todo.product} : products'[p] = products[p]
  BY <1>1, Types DEF Settle
<1>14. ASSUME NEW p \in Products, products'[p].activeShipment
       PROVE  products[p].activeShipment \/ ActiveShipmentsOf(p)' # {}
  <2>1. CASE p = todo.product
    <3>1. ActiveShipmentsOf(p) # {}  BY <1>6, <2>1 DEF SettleHolds
    <3> QED  BY <1>9, <3>1 DEF ProductsStayIn
  <2>2. CASE p # todo.product  BY <1>13, <1>14, <2>2
  <2> QED  BY <2>1, <2>2
<1>15. ProductsFreed'
  BY <1>8, <1>9, <1>14, ProductsStay DEF FlagsInv, ProductsStayIn
<1> QED  BY <1>2, <1>12, <1>15, NothingHeld, Together DEF FlagsAssumption

-----------------------------------------------------------------------------
\* The writes a follow-up begins with.

LEMMA FollowHolds ==
    ASSUME TypeInv, NEW r \in Requests, NEW op, NEW tasks, NEW settle,
           FollowUp(r, op, tasks, settle),
           \A i \in DOMAIN settle : SettleHolds(settle[i])'
    PROVE  RequestHolds(requests[r])'
<1>1. CASE requests'[r] = Idle  BY <1>1 DEF RequestHolds, Idle
<1>2. CASE /\ requests'[r].pc = "followUp" /\ requests'[r].got = <<>>
           /\ requests'[r].settle = settle
  BY <1>2 DEF RequestHolds, SettleHolds
<1> QED  BY <1>1, <1>2, FollowUpIs

\* A request that owed nothing writes shipments, products and flags.
LEMMA Written ==
    ASSUME FlagsAssumption, FlagsInv, NEW r \in Requests, requests[r].pc # "followUp",
           RequestHolds(requests[r])', UNCHANGED renamed,
           \A x \in Findable :
              \/ flagged'[x] /\ HasActiveShipments(x)'
              \/ flagged'[x] = flagged[x] /\ HasActiveShipments(x)' = HasActiveShipments(x)
              \/ /\ Due(x)' /\ flagged'[x] = flagged[x]
                 /\ HasActiveShipments(x)' => HasActiveShipments(x) \/ x \notin Members,
           \A p \in Products : products'[p].activeShipment =>
              \/ ActiveShipmentsOf(p)' # {} \/ Freed(p)'
              \/ products[p].activeShipment /\ ActiveShipmentsOf(p) = {}
    PROVE  FlagsInv'
<1>1. (\A x : ~Due(x)) /\ (\A p : ~Freed(p))  BY NothingOwed DEF FlagsAssumption
<1>2. EndsFlagged /\ ProductsFreed  BY DEF FlagsInv
<1>3. \A x \in Findable : flagged[x] <=> HasActiveShipments(x)
  BY <1>1, <1>2 DEF EndsFlagged
<1>4. EndsFlagged'  BY <1>3 DEF EndsFlagged, Findable
<1>5. ProductsFreed'  BY <1>1, <1>2 DEF ProductsFreed
<1> QED  BY <1>4, <1>5, Together DEF FlagsAssumption

LEMMA AppendCarries ==
    ASSUME NEW sh \in Shipment, NEW p \in Products
    PROVE  Range(Append(sh.products, p)) = Carried(sh) \cup {p}
<1>0. sh.products \in Seq(Products)  BY DEF Shipment
<1>1. PICK list \in Seq(Products) : list = sh.products  BY <1>0
<1>2. PICK one \in Seq({p}) : one = <<p>> /\ Range(one) = {p}
  <2>1. Range(<<p>>) = {p} /\ <<p>> \in Seq({p})  BY DEF Range
  <2> QED  BY <2>1
<1>3. Append(list, p) = list \o one  BY <1>2
<1>4. Range(list \o one) = Range(list) \cup Range(one)  BY RangeConcatenated
<1> QED  BY <1>1, <1>2, <1>3, <1>4 DEF Carried

\* The product joins a shipment under way between the same two places.
LEMMA ConsolidateHolds ==
    ASSUME FlagsAssumption, TypeInv, HoldersInv, FlagsInv, NEW r \in Requests,
           Consolidate(r)
    PROVE  FlagsInv'
<1>0. PICK p, from, to :
         p = requests[r].product /\ from = requests[r].from /\ to = requests[r].to
  OBVIOUS
<1>1. PICK t \in Consolidatable(from, requests[r].fromCalled, to, requests[r].toCalled,
                                requests[r].date) :
         /\ shipments' = [shipments EXCEPT ![t].products =
                IF p \notin Carried(shipments[t]) THEN Append(@, p) ELSE @]
         /\ FollowUp(r, MoveKind(from, to), <<>>,
                     Settlement(requests[r], shipments[t].status))
  BY <1>0 DEF Consolidate
<1>2. requests[r].pc = "prepared" /\ UNCHANGED <<flagged, renamed>>  BY DEF Consolidate
<1>3. p \in Products /\ \A q \in Products \ {p} : products'[q] = products[q]
  <2>1. requests[r] \in Prepared  BY <1>2, PcTypes DEF TypeInv
  <2> QED  BY <1>0, <2>1, CommitMoves DEF Prepared
<1>4. /\ t \in DOMAIN shipments /\ Editable(shipments[t])
      /\ shipments[t].origin = from /\ shipments[t].destination = to
  BY DEF Consolidatable
<1>5. shipments[t] \in Shipment /\ Active(shipments[t])
  BY <1>4, Rows, Statuses DEF Active, Editable
<1> DEFINE row == IF p \notin Carried(shipments[t]) THEN Append(shipments[t].products, p)
                  ELSE shipments[t].products
           sh  == [shipments[t] EXCEPT !.products = row]
<1>6. Range(row) = Carried(shipments[t]) \cup {p}
  BY <1>3, <1>5, AppendCarries DEF Carried
<1>7. /\ SameEnds(sh, shipments[t]) /\ Active(sh) /\ Carried(sh) = Range(row)
  BY <1>5 DEF Shipment, SameEnds, Active, Carried
<1>8. shipments' = [shipments EXCEPT ![t] = sh]  BY <1>1
<1> HIDE DEF sh, row
<1>9. /\ DOMAIN shipments' = DOMAIN shipments /\ shipments'[t] = sh
      /\ \A x \in DOMAIN shipments \ {t} : shipments'[x] = shipments[x]
  BY <1>4, <1>8
<1>10. SameEndsActive /\ ProductsStayIn
  BY <1>5, <1>6, <1>7, <1>9, StillActive DEF SameEnds
<1>11. ActiveShipmentsOf(p)' # {} /\ HasActiveShipments(to)'
  <2>1. /\ t \in DOMAIN shipments' /\ Active(shipments'[t])
        /\ p \in Carried(shipments'[t]) /\ to \in Ends(shipments'[t])
    BY <1>4, <1>6, <1>7, <1>9 DEF SameEnds, Ends
  <2> QED  BY <2>1 DEF ActiveShipmentsOf, HasActiveShipments, Active, Carried, Ends
<1>12. PICK settle : settle = Settlement(requests[r], shipments[t].status)  OBVIOUS
<1>13. DOMAIN settle = {1} /\ settle[1].product = p /\ settle[1].to = to
  BY <1>0, <1>12 DEF Settlement
<1>14. \A i \in DOMAIN settle : SettleHolds(settle[i])'
  BY <1>11, <1>13 DEF SettleHolds
<1>15. RequestHolds(requests[r])'
  <2>1. PICK op : FollowUp(r, op, <<>>, settle)  BY <1>1, <1>12
  <2> QED  BY <1>14, <2>1, FollowHolds
<1>16. \A q \in Products : products'[q].activeShipment =>
          \/ ActiveShipmentsOf(q)' # {}
          \/ products[q].activeShipment /\ ActiveShipmentsOf(q) = {}
  BY <1>3, <1>10, <1>11 DEF ProductsStayIn
<1> QED  BY <1>2, <1>10, <1>15, <1>16, Written DEF SameEndsActive


LEMMA FindableKinds ==
    ASSUME NEW x \in Findable
    PROVE  \/ x \in Members \ renamed /\ x \notin Offices
           \/ /\ x \in Offices /\ x \notin Members
              /\ CountOf(x) = [kind |-> "office", on |-> x]
<1>1. x \in Members => x \notin Offices
  BY ConstantsAssumption DEF ConstantsAssumption, Pool
<1> QED  BY <1>1 DEF CountOf, Findable

\* A new shipment flags the members at its ends; its offices are still to be counted.
LEMMA CreateHolds ==
    ASSUME FlagsAssumption, TypeInv, HoldersInv, FlagsInv, NEW r \in Requests, Create(r)
    PROVE  FlagsInv'
<1>0. PICK p, from, to :
         p = requests[r].product /\ from = requests[r].from /\ to = requests[r].to
  OBVIOUS
<1>1. PICK n : n = Len(shipments) + 1  OBVIOUS
<1> DEFINE s  == requests[r]
           new == [status |-> IF s.fromComplete /\ s.toComplete THEN InPreparation
                                                                ELSE OnHold,
                   isDeleted |-> FALSE, origin |-> from, destination |-> to,
                   date |-> s.date, originCalled |-> s.fromCalled,
                   destinationCalled |-> s.toCalled,
                   originComplete |-> s.fromComplete,
                   destinationComplete |-> s.toComplete, products |-> <<p>>]
<1>2. PICK sh : sh = new  OBVIOUS
<1>3. /\ requests[r].pc = "prepared" /\ shipments' = Append(shipments, sh)
      /\ flagged' = [x \in DOMAIN flagged |-> flagged[x] \/ x \in Ends(sh) \cap Members]
      /\ FollowUp(r, MoveKind(from, to), OfficeTasks(sh),
                  Settlement(requests[r], sh.status))
      /\ UNCHANGED renamed
  BY <1>0, <1>2 DEF Create
<1>4. /\ Ends(sh) = {from, to} /\ Active(sh) /\ Carried(sh) = {p}
  BY <1>2 DEF Ends, Active, ActiveStatuses, Carried, Range
<1> HIDE DEF new, s
<1>5. requests[r] \in Prepared  BY <1>3, PcTypes DEF TypeInv
<1>6. /\ p \in Products /\ \A q \in Products \ {p} : products'[q] = products[q]
  BY <1>0, <1>5, CommitMoves DEF Prepared
<1>7. /\ DOMAIN shipments = 1 .. n - 1 /\ DOMAIN shipments' = 1 .. n /\ n \in Nat \ {0}
      /\ \A i \in 1 .. n - 1 : shipments'[i] = shipments[i]
      /\ shipments'[n] = sh
  <2>1. shipments \in Seq(Shipment)  BY Types
  <2> QED  BY <1>1, <1>3, <2>1
<1>8. /\ n \in DOMAIN shipments' /\ DOMAIN shipments \subseteq DOMAIN shipments'
      /\ \A i \in DOMAIN shipments' \ {n} : i \in DOMAIN shipments
      /\ \A i \in DOMAIN shipments : shipments'[i] = shipments[i]
  BY <1>7
<1>9. ASSUME NEW x
      PROVE  HasActiveShipments(x)' = (HasActiveShipments(x) \/ x \in Ends(sh))
  <2>1. HasActiveShipments(x)' =
          \E i \in DOMAIN shipments' : Active(shipments'[i]) /\ x \in Ends(shipments'[i])
    BY DEF HasActiveShipments, Active, Ends
  <2> QED  BY <1>4, <1>7, <1>8, <2>1 DEF HasActiveShipments
<1>10. ASSUME NEW q
       PROVE  /\ ActiveShipmentsOf(q) \subseteq ActiveShipmentsOf(q)'
              /\ n \in ActiveShipmentsOf(p)'
  <2>1. ActiveShipmentsOf(q)' =
          {i \in DOMAIN shipments' : Active(shipments'[i]) /\ q \in Carried(shipments'[i])}
    BY DEF ActiveShipmentsOf, Active, Carried
  <2>2. ActiveShipmentsOf(p)' =
          {i \in DOMAIN shipments' : Active(shipments'[i]) /\ p \in Carried(shipments'[i])}
    BY DEF ActiveShipmentsOf, Active, Carried
  <2> QED  BY <1>4, <1>7, <1>8, <2>1, <2>2 DEF ActiveShipmentsOf
<1>11. PICK tasks \in Seq(Tasks) : tasks = OfficeTasks(sh) /\ sh \in Shipment
  <2>1. TypeInv'  BY CreateType
  <2>2. shipments' \in Seq(Shipment)  BY <2>1 DEF TypeInv, TypeOK
  <2>3. sh \in Shipment  BY <1>7, <2>2
  <2> QED  BY <2>3, TaskTypes
<1>12. PICK settle : settle = Settlement(requests[r], sh.status)  OBVIOUS
<1>13. PICK op : FollowUp(r, op, tasks, settle)  BY <1>3, <1>11, <1>12
<1>14. RequestHolds(requests[r])'
  <2>1. DOMAIN settle = {1} /\ settle[1].product = p /\ settle[1].to = to
    BY <1>0, <1>12 DEF Settlement
  <2>2. ActiveShipmentsOf(p)' # {} /\ HasActiveShipments(to)'  BY <1>4, <1>9, <1>10
  <2>3. \A i \in DOMAIN settle : SettleHolds(settle[i])'  BY <2>1, <2>2 DEF SettleHolds
  <2> QED  BY <1>13, <2>3, FollowHolds
<1>15. ASSUME NEW x \in Offices, x \in Ends(sh) PROVE Due(x)'
  <2>1. [kind |-> "office", on |-> x] \in Range(tasks)
    BY <1>11, <1>15, OfficeTasksOwed
  <2>2. Owes(requests'[r], [kind |-> "office", on |-> x])  BY <1>13, <2>1, FollowUpOwes
  <2>3. CountOf(x)' = [kind |-> "office", on |-> x]
    BY ConstantsAssumption DEF ConstantsAssumption, Pool, CountOf
  <2> QED  BY <2>2, <2>3 DEF Due
<1>16. \A x \in Members \cup Offices :
          flagged'[x] = (flagged[x] \/ x \in Ends(sh) \cap Members) /\ flagged[x] \in BOOLEAN
  BY <1>3, Types
<1>17. ASSUME NEW x \in Findable
       PROVE  \/ flagged'[x] /\ HasActiveShipments(x)'
              \/ flagged'[x] = flagged[x] /\ HasActiveShipments(x)' = HasActiveShipments(x)
              \/ /\ Due(x)' /\ flagged'[x] = flagged[x]
                 /\ HasActiveShipments(x)' => HasActiveShipments(x) \/ x \notin Members
  <2>0. x \in Members \cup Offices  BY DEF Findable
  <2>1. CASE x \notin Ends(sh)
    <3>1. HasActiveShipments(x) \in BOOLEAN  BY DEF HasActiveShipments
    <3> QED  BY <1>9, <1>16, <2>0, <2>1, <3>1
  <2>2. CASE x \in Ends(sh) /\ x \in Members  BY <1>9, <1>16, <2>2
  <2>3. CASE x \in Ends(sh) /\ x \notin Members
    <3>1. x \in Offices  BY <2>0, <2>3
    <3> QED  BY <1>15, <1>16, <2>3, <3>1
  <2> QED  BY <2>1, <2>2, <2>3
<1>18. \A q \in Products : products'[q].activeShipment =>
          \/ ActiveShipmentsOf(q)' # {}
          \/ products[q].activeShipment /\ ActiveShipmentsOf(q) = {}
  BY <1>6, <1>10
<1> QED  BY <1>3, <1>14, <1>17, <1>18, Written


\* The requests that write the shipment they have loaded: it goes on, or everyone that
\* it involved and everything that it carried is on the list.
LEMMA WriterHolds ==
    ASSUME FlagsAssumption, TypeInv, FlagsInv, NEW r \in Requests,
           requests[r].pc \in {"loaded", "redating"},
           WritesOne(requests[r].shipment), UNCHANGED flagged, NamesStay,
           NEW op, NEW tasks \in Seq(Tasks), FollowUp(r, op, tasks, <<>>),
           \/ Active(shipments'[requests[r].shipment])
           \/ /\ \A x \in Ends(requests[r].seen) \cap Findable :
                    CountOf(x) \in Range(tasks)
              /\ \A p \in Carried(requests[r].seen) :
                    \E kind \in {"release", "receive"} :
                       [kind |-> kind, on |-> p] \in Range(tasks)
    PROVE  FlagsInv'
<1>0. PICK k, seen : k = requests[r].shipment /\ seen = requests[r].seen  OBVIOUS
<1>1. SeenSound(requests[r])  BY DEF FlagsInv, RequestHolds
<1>2. /\ k \in DOMAIN shipments /\ Active(shipments[k])
      /\ Carried(seen) = Carried(shipments[k]) /\ Ends(seen) = Ends(shipments[k])
  BY <1>0, <1>1 DEF SeenSound, Carried, Ends, SameEnds
<1>3. /\ DOMAIN shipments' = DOMAIN shipments /\ UNCHANGED products
      /\ \A s \in DOMAIN shipments \ {k} : shipments'[s] = shipments[s]
      /\ Carried(shipments'[k]) = Carried(shipments[k])
      /\ SameEnds(shipments'[k], shipments[k])
  BY <1>0 DEF WritesOne, Carried
<1>4. RequestHolds(requests[r])'
  <2>1. \A i \in DOMAIN <<>> : SettleHolds(<<>>[i])'  OBVIOUS
  <2> QED  BY <2>1, FollowHolds
<1>5. CASE Active(shipments'[k])
  <2>1. SameEndsActive /\ ProductsStayIn
    BY <1>2, <1>3, <1>5, StillActive DEF SameEnds
  <2>2. \A q \in Products : products'[q].activeShipment =>
           \/ ActiveShipmentsOf(q)' # {}
           \/ products[q].activeShipment /\ ActiveShipmentsOf(q) = {}
    BY <1>3, <2>1 DEF ProductsStayIn
  <2> QED  BY <1>4, <2>1, <2>2, Written DEF SameEndsActive, NamesStay
<1>6. CASE ~Active(shipments'[k])
  <2>0. \A task \in Range(tasks) : Owes(requests'[r], task)  BY FollowUpOwes
  <2>1. ASSUME NEW x \in Findable
        PROVE  \/ HasActiveShipments(x)' = HasActiveShipments(x)
               \/ Due(x)' /\ (HasActiveShipments(x)' => HasActiveShipments(x))
    <3>1. HasActiveShipments(x)' =
            \E i \in DOMAIN shipments' : Active(shipments'[i]) /\ x \in Ends(shipments'[i])
      BY DEF HasActiveShipments, Active, Ends
    <3>2. HasActiveShipments(x)' => HasActiveShipments(x)
      BY <1>3, <1>6, <3>1 DEF HasActiveShipments
    <3>3. CASE x \in Ends(seen)
      <4>1. CountOf(x) \in Range(tasks)  BY <1>0, <1>6, <3>3
      <4>2. PICK task : task = CountOf(x) /\ task = CountOf(x)'  BY DEF CountOf, NamesStay
      <4>3. Owes(requests'[r], task)  BY <2>0, <4>1, <4>2
      <4> QED  BY <3>2, <4>2, <4>3 DEF Due
    <3>4. CASE x \notin Ends(seen)
      <4>1. HasActiveShipments(x) => HasActiveShipments(x)'
        BY <1>2, <1>3, <3>1, <3>4 DEF HasActiveShipments
      <4>2. HasActiveShipments(x) \in BOOLEAN /\ HasActiveShipments(x)' \in BOOLEAN
        BY <3>1 DEF HasActiveShipments
      <4> QED  BY <3>2, <4>1, <4>2
    <3> QED  BY <3>3, <3>4
  <2>2. ASSUME NEW q \in Products, products'[q].activeShipment
        PROVE  \/ ActiveShipmentsOf(q)' # {} \/ Freed(q)'
               \/ products[q].activeShipment /\ ActiveShipmentsOf(q) = {}
    <3>1. CASE q \in Carried(seen)
      <4>1. PICK kind \in {"release", "receive"} : [kind |-> kind, on |-> q] \in Range(tasks)
        BY <1>0, <1>6, <3>1
      <4>2. Owes(requests'[r], [kind |-> kind, on |-> q])  BY <2>0, <4>1
      <4> QED  BY <4>2 DEF Freed
    <3>2. CASE q \notin Carried(seen)
      <4>1. ASSUME NEW i \in ActiveShipmentsOf(q) PROVE i \in ActiveShipmentsOf(q)'
        <5>1. i \in DOMAIN shipments /\ i # k /\ Active(shipments[i]) /\ q \in Carried(shipments[i])
          BY <1>2, <3>2 DEF ActiveShipmentsOf
        <5>2. i \in DOMAIN shipments' /\ Active(shipments'[i]) /\ q \in Carried(shipments'[i])
          BY <1>3, <5>1
        <5> QED  BY <5>2 DEF ActiveShipmentsOf, Active, Carried
      <4> QED  BY <1>3, <2>2, <4>1
    <3> QED  BY <3>1, <3>2
  <2> QED  BY <1>4, <2>1, <2>2, Written DEF NamesStay
<1> QED  BY <1>5, <1>6

\* The list of a shipment that has ended.
LEMMA EndedOwes ==
    ASSUME NEW kind \in {"release", "receive"}, NEW sh \in Shipment, CalledFits(sh), NEW tasks,
           \/ tasks = OfficeTasks(sh) \o (ProductTasks(kind, sh) \o MemberTasks(sh))
           \/ tasks = OfficeTasks(sh) \o ProductTasks(kind, sh) \o MemberTasks(sh)
    PROVE  /\ tasks \in Seq(Tasks)
           /\ \A x \in Ends(sh) \cap Findable : CountOf(x) \in Range(tasks)
           /\ \A p \in Carried(sh) : [kind |-> kind, on |-> p] \in Range(tasks)
<1>1. PICK a \in Seq(Tasks) : a = OfficeTasks(sh)  BY TaskTypes
<1>2. PICK c \in Seq(Tasks) : c = MemberTasks(sh)  BY TaskTypes
<1>3. PICK b \in Seq(Tasks) : b = ProductTasks(kind, sh)  BY TaskTypes
<1>4. PICK first \in Seq(Tasks) : first = a \o b  BY Concatenated
<1>5. PICK rest \in Seq(Tasks) : rest = b \o c  BY Concatenated
<1>6. /\ Range(first) = Range(a) \cup Range(b)
      /\ Range(rest) = Range(b) \cup Range(c)
  BY <1>4, <1>5, RangeConcatenated
<1>7. PICK whole \in Seq(Tasks) : whole = tasks /\ Range(whole) = Range(a) \cup Range(b) \cup Range(c)
  <2>1. CASE tasks = a \o rest
    <3>1. PICK whole \in Seq(Tasks) : whole = a \o rest  BY Concatenated
    <3>2. Range(whole) = Range(a) \cup Range(rest)  BY <3>1, RangeConcatenated
    <3> QED  BY <1>6, <2>1, <3>1, <3>2
  <2>2. CASE tasks = first \o c
    <3>1. PICK whole \in Seq(Tasks) : whole = first \o c  BY Concatenated
    <3>2. Range(whole) = Range(first) \cup Range(c)  BY <3>1, RangeConcatenated
    <3> QED  BY <1>6, <2>2, <3>1, <3>2
  <2> QED  BY <1>1, <1>2, <1>3, <1>4, <1>5, <2>1, <2>2
<1>8. ASSUME NEW x \in Ends(sh) \cap Findable PROVE CountOf(x) \in Range(tasks)
  <2>1. CASE x \in Members \ renamed
    <3>1. CountOf(x) \in Range(c)  BY <1>2, <2>1, MemberTasksOwed
    <3> QED  BY <1>7, <3>1
  <2>2. CASE x \in Offices /\ CountOf(x) = [kind |-> "office", on |-> x]
    <3>1. [kind |-> "office", on |-> x] \in Range(a)  BY <1>1, <2>2, OfficeTasksOwed
    <3> QED  BY <1>7, <2>2, <3>1
  <2> QED  BY <2>1, <2>2, FindableKinds
<1>9. \A p \in Carried(sh) : [kind |-> kind, on |-> p] \in Range(b)
  BY <1>3, ProductTasksOwed
<1> QED  BY <1>7, <1>8, <1>9

LEMMA CancelHolds ==
    ASSUME FlagsAssumption, TypeInv, CalledInv, FlagsInv, NEW r \in Requests, Cancel(r)
    PROVE  FlagsInv'
<1>0. PICK k, seen : k = requests[r].shipment /\ seen = requests[r].seen  OBVIOUS
<1>1. PICK tasks : tasks = OfficeTasks(seen) \o ProductTasks("release", seen)
                             \o MemberTasks(seen)
  OBVIOUS
<1>2. /\ requests[r].pc = "loaded" /\ UNCHANGED <<products, flagged>> /\ NamesStay
      /\ shipments' = [shipments EXCEPT ![k].status = Cancelled]
      /\ FollowUp(r, "cancel", tasks, <<>>)
  BY <1>0, <1>1 DEF Cancel, NamesStay
<1>3. k \in DOMAIN shipments  BY <1>0, <1>2 DEF FlagsInv, RequestHolds, SeenSound
<1>4. seen \in Shipment /\ CalledFits(seen)
  BY <1>0, <1>2, PcTypes DEF TypeInv, Loaded, CalledInv
<1>5. WritesOne(k) /\ ~Active(shipments'[k])
  <2> DEFINE sh == [shipments[k] EXCEPT !.status = Cancelled]
  <2>1. shipments' = [shipments EXCEPT ![k] = sh]  BY <1>2
  <2>2. shipments[k] \in Shipment  BY <1>3, Rows
  <2>3. /\ sh.status = Cancelled /\ sh.products = shipments[k].products
        /\ SameEnds(sh, shipments[k])
    BY <2>2 DEF Shipment, SameEnds
  <2> HIDE DEF sh
  <2> QED  BY <1>2, <1>3, <2>1, <2>3, Statuses DEF WritesOne, Active
<1>6. /\ tasks \in Seq(Tasks)
      /\ \A x \in Ends(seen) \cap Findable : CountOf(x) \in Range(tasks)
      /\ \A p \in Carried(seen) : [kind |-> "release", on |-> p] \in Range(tasks)
  <2>1. PICK kind \in {"release", "receive"} : kind = "release"  OBVIOUS
  <2>2. tasks = OfficeTasks(seen) \o ProductTasks(kind, seen) \o MemberTasks(seen)
    BY <1>1, <2>1
  <2> QED  BY <1>4, <2>1, <2>2, EndedOwes
<1> QED  BY <1>0, <1>2, <1>5, <1>6, WriterHolds


LEMMA NoTasks == <<>> \in Seq(Tasks)
OBVIOUS

LEMMA SetStatusHolds ==
    ASSUME FlagsAssumption, TypeInv, CalledInv, FlagsInv, NEW r \in Requests, SetStatus(r)
    PROVE  FlagsInv'
<1>0. PICK k, seen : k = requests[r].shipment /\ seen = requests[r].seen  OBVIOUS
<1> DEFINE kind(new) == IF new = Received THEN "receive" ELSE "release"
           next(new) == IF new # seen.status THEN new ELSE shipments[k].status
           list(new) == OfficeTasks(seen)
                          \o (IF new \in ActiveStatuses THEN <<>> ELSE
                                ProductTasks(kind(new), seen) \o MemberTasks(seen))
<1>1. PICK new \in SetStatuses :
         /\ shipments' = [shipments EXCEPT ![k].status = next(new)]
         /\ FollowUp(r, "setStatus", list(new), <<>>)
  BY <1>0 DEF SetStatus
<1>2. PICK tasks : tasks = list(new)  OBVIOUS
<1>3. PICK st : st = next(new)  OBVIOUS
<1>4. /\ requests[r].pc = "loaded" /\ UNCHANGED <<products, flagged>> /\ NamesStay
      /\ shipments' = [shipments EXCEPT ![k].status = st]
      /\ FollowUp(r, "setStatus", tasks, <<>>)
  BY <1>1, <1>2, <1>3 DEF SetStatus, NamesStay
<1>5. k \in DOMAIN shipments /\ Active(shipments[k]) /\ seen.status \in ActiveStatuses
  BY <1>0, <1>4 DEF FlagsInv, RequestHolds, SeenSound
<1>6. seen \in Shipment /\ CalledFits(seen)
  BY <1>0, <1>4, PcTypes DEF TypeInv, Loaded, CalledInv
<1>7. /\ WritesOne(k)
      /\ Active(shipments'[k]) <=> st \in ActiveStatuses
  <2> DEFINE sh == [shipments[k] EXCEPT !.status = st]
  <2>1. shipments' = [shipments EXCEPT ![k] = sh]  BY <1>4
  <2>2. shipments[k] \in Shipment  BY <1>5, Rows
  <2>3. /\ sh.status = st /\ sh.products = shipments[k].products
        /\ SameEnds(sh, shipments[k]) /\ sh.isDeleted = shipments[k].isDeleted
    BY <2>2 DEF Shipment, SameEnds
  <2> HIDE DEF sh
  <2> QED  BY <1>4, <1>5, <2>1, <2>3 DEF WritesOne, Active
<1>8. CASE new \in ActiveStatuses
  <2>1. st \in ActiveStatuses  BY <1>3, <1>5, <1>8 DEF Active
  <2>2. PICK a \in Seq(Tasks) : a = OfficeTasks(seen)  BY <1>6, TaskTypes
  <2>3. tasks = a \o <<>>  BY <1>2, <1>8, <2>2
  <2>4. tasks \in Seq(Tasks)
    <3>1. PICK none \in Seq(Tasks) : none = <<>>  BY NoTasks
    <3>2. a \o none \in Seq(Tasks)  BY Concatenated
    <3> QED  BY <2>3, <3>1, <3>2
  <2> HIDE DEF next, list
  <2> QED  BY <1>0, <1>4, <1>7, <2>1, <2>4, WriterHolds
<1>9. CASE new \notin ActiveStatuses
  <2>1. PICK end \in {"release", "receive"} : end = kind(new)  OBVIOUS
  <2>2. tasks = OfficeTasks(seen) \o (ProductTasks(end, seen) \o MemberTasks(seen))
    BY <1>2, <1>9, <2>1
  <2> HIDE DEF next, list, kind
  <2>3. /\ tasks \in Seq(Tasks)
        /\ \A x \in Ends(seen) \cap Findable : CountOf(x) \in Range(tasks)
        /\ \A p \in Carried(seen) : [kind |-> end, on |-> p] \in Range(tasks)
    BY <1>6, <2>2, EndedOwes
  <2> QED  BY <1>0, <1>4, <1>7, <2>3, WriterHolds
<1> QED  BY <1>8, <1>9

LEMMA RedateHolds ==
    ASSUME FlagsAssumption, TypeInv, FlagsInv, NEW r \in Requests, Redate(r)
    PROVE  FlagsInv'
<1>0. PICK k, seen, date :
         k = requests[r].shipment /\ seen = requests[r].seen /\ date = requests[r].date
  OBVIOUS
<1>1. PICK new : new = StatusFromDetails(seen)  OBVIOUS
<1> DEFINE next == IF new # seen.status THEN new ELSE shipments[k].status
           list == IF new = seen.status THEN <<>> ELSE
                      OfficeTasks(seen)
                        \o (IF new = InPreparation THEN ProductTasks("toInTransit", seen)
                                                   ELSE <<>>)
<1>2. PICK st, tasks : st = next /\ tasks = list  OBVIOUS
<1>3. /\ requests[r].pc = "redating" /\ UNCHANGED <<products, flagged>> /\ NamesStay
      /\ FollowUp(r, "reschedule", tasks, <<>>)
  BY <1>0, <1>1, <1>2 DEF Redate, NamesStay
<1>4. k \in DOMAIN shipments /\ Active(shipments[k])
  BY <1>0, <1>3 DEF FlagsInv, RequestHolds, SeenSound
<1>5. seen \in Shipment  BY <1>0, <1>3, PcTypes DEF TypeInv, Redating
<1>6. tasks \in Seq(Tasks)
  <2>1. PICK a \in Seq(Tasks) : a = OfficeTasks(seen)  BY <1>5, TaskTypes
  <2>2. PICK b \in Seq(Tasks) : b = ProductTasks("toInTransit", seen)  BY <1>5, TaskTypes
  <2>3. PICK none \in Seq(Tasks) : none = <<>>  BY NoTasks
  <2>4. tasks \in {none, a \o b, a \o none}  BY <1>2, <2>1, <2>2, <2>3
  <2>5. a \o b \in Seq(Tasks) /\ a \o none \in Seq(Tasks)  BY Concatenated
  <2> QED  BY <2>4, <2>5
<1>7. st \in ActiveStatuses
  BY <1>1, <1>2, <1>4, Statuses DEF Active
<1>8. shipments[k] \in Shipment  BY <1>4, Rows
<1>9. shipments' = [shipments EXCEPT ![k] =
                       [shipments[k] EXCEPT !.date = date, !.status = st]]
  <2>1. shipments' = [shipments EXCEPT ![k].date = date,
             ![k].status = IF new # seen.status THEN new ELSE @]
    BY <1>0, <1>1 DEF Redate
  <2> QED  BY <1>2, <1>4, <1>8, <2>1, Rows DEF Shipment
<1> HIDE DEF next, list
<1>10. WritesOne(k) /\ Active(shipments'[k])
  <2> DEFINE sh == [shipments[k] EXCEPT !.date = date, !.status = st]
  <2>1. /\ sh.products = shipments[k].products /\ SameEnds(sh, shipments[k])
        /\ sh.status = st /\ sh.isDeleted = shipments[k].isDeleted
    BY <1>8 DEF Shipment, SameEnds
  <2>2. shipments' = [shipments EXCEPT ![k] = sh]  BY <1>9
  <2> HIDE DEF sh
  <2> QED  BY <1>3, <1>4, <1>7, <2>1, <2>2 DEF WritesOne, Active
<1> QED  BY <1>0, <1>3, <1>6, <1>10, WriterHolds


-----------------------------------------------------------------------------
\* Merging. Between the two saves the products are in both shipments.

\* The first save leaves everything as it is, or adds what k carries to t.
TakesOver(r, k, t) ==
    /\ k \in DOMAIN shipments /\ Active(shipments[k])
    /\ t \in DOMAIN shipments \ {k} /\ Editable(shipments[t])
    /\ SameEnds(shipments[k], shipments[t])
    /\ DOMAIN shipments' = DOMAIN shipments
    /\ \A x \in DOMAIN shipments \ {t} : shipments'[x] = shipments[x]
    /\ SameEnds(shipments'[t], shipments[t])
    /\ shipments'[t].status = shipments[t].status
    /\ shipments'[t].isDeleted = shipments[t].isDeleted
    /\ Carried(shipments'[t]) = Carried(shipments[t]) \cup Carried(shipments[k])
    /\ requests'[r].pc = "merged" /\ requests'[r].shipment = k

LEMMA TargetSaved ==
    ASSUME TypeInv, FlagsInv, NEW r \in Requests, SaveTarget(r)
    PROVE  \/ UNCHANGED shipments /\ requests'[r].pc = "idle"
           \/ TakesOver(r, requests[r].shipment, requests[r].target)
<1> DEFINE s     == requests[r]
           lacks == Carried(s.seen) \ Range(s.targetProducts)
<1>0. PICK k, t : k = s.shipment /\ t = s.target  OBVIOUS
<1>1. s.pc = "merging"  BY DEF SaveTarget
<1>2. SeenSound(s) /\ TargetSound(s)  BY <1>1 DEF FlagsInv, RequestHolds
<1>3. /\ k \in DOMAIN shipments /\ Active(shipments[k])
      /\ Carried(s.seen) = Carried(shipments[k]) /\ SameEnds(s.seen, shipments[k])
      /\ t \in DOMAIN shipments /\ t # k /\ Editable(shipments[t])
      /\ SameEnds(shipments[t], s.seen)
  BY <1>0, <1>2 DEF SeenSound, TargetSound, Carried
<1>4. shipments[t] \in Shipment /\ shipments[t].products \in Seq(Products)
  BY <1>3, Rows DEF Shipment
<1>5. CASE shipments[t].products # s.targetProducts
  <2>1. UNCHANGED shipments /\ Become(r, Idle)  BY <1>0, <1>5 DEF SaveTarget
  <2> QED  BY <2>1, BecomeIs DEF Idle
<1>6. CASE shipments[t].products = s.targetProducts
  <2>1. PICK n \in 0 .. Len(s.seen.products) : \E adds \in [1 .. n -> lacks] :
           /\ Range(adds) = lacks
           /\ shipments' = [shipments EXCEPT ![t].products = @ \o adds]
    BY <1>0, <1>6 DEF SaveTarget
  <2>2. PICK adds \in [1 .. n -> lacks] :
           /\ Range(adds) = lacks
           /\ shipments' = [shipments EXCEPT ![t].products = @ \o adds]
    BY <2>1
  <2>3. requests'[r].pc = "merged" /\ requests'[r].shipment = k
    <3>1. Become(r, [pc |-> "merged", shipment |-> k, date |-> s.date])
      BY <1>0, <1>6 DEF SaveTarget
    <3> QED  BY <3>1, BecomeIs
  <2> DEFINE old == shipments[t].products
             sh  == [shipments[t] EXCEPT !.products = old \o adds]
  <2>4. shipments' = [shipments EXCEPT ![t] = sh]  BY <2>2
  <2>5. /\ SameEnds(sh, shipments[t]) /\ Carried(sh) = Range(old \o adds)
        /\ sh.status = shipments[t].status /\ sh.isDeleted = shipments[t].isDeleted
    BY <1>3, <1>4 DEF Shipment, SameEnds, Carried
  <2>6. Range(old \o adds) = Range(old) \cup Range(adds)
    <3>1. n \in Nat  BY <2>1, <1>1, PcTypes DEF TypeInv, Merging, Shipment
    <3>2. adds \in Seq(lacks) /\ Len(adds) = n /\ DOMAIN adds = 1 .. n  BY <2>2, <3>1
    <3>3. old \in Seq(Products)  BY <1>4
    <3> HIDE DEF old, lacks
    <3> QED  BY <3>2, <3>3, RangeConcatenated
  <2>7. Carried(sh) = Carried(shipments[t]) \cup Carried(shipments[k])
    BY <1>3, <1>6, <2>2, <2>5, <2>6 DEF Carried
  <2> HIDE DEF sh
  <2>8. /\ DOMAIN shipments' = DOMAIN shipments /\ shipments'[t] = sh
        /\ \A x \in DOMAIN shipments \ {t} : shipments'[x] = shipments[x]
    BY <1>3, <2>4
  <2>9. SameEnds(shipments[k], shipments[t])  BY <1>3 DEF SameEnds
  <2>10. TakesOver(r, k, t)  BY <1>3, <2>3, <2>5, <2>7, <2>8, <2>9 DEF TakesOver
  <2> QED  BY <1>0, <2>10
<1> QED  BY <1>0, <1>5, <1>6

LEMMA SaveTargetHolds ==
    ASSUME FlagsAssumption, TypeInv, FlagsInv, NEW r \in Requests, SaveTarget(r)
    PROVE  FlagsInv'
<1>1. requests[r].pc = "merging" /\ UNCHANGED <<products, flagged, renamed>>
  BY DEF SaveTarget
<1>2. CASE UNCHANGED shipments /\ requests'[r].pc = "idle"
  BY <1>1, <1>2, NothingHeld, QuietStep DEF FlagsAssumption
<1>3. ASSUME NEW k, NEW t, TakesOver(r, k, t) PROVE FlagsInv'
  <2>1. TakenOver(k)'
    <3>1. /\ t \in DOMAIN shipments' \ {k} /\ Editable(shipments'[t])
          /\ SameEnds(shipments'[k], shipments'[t])
          /\ Carried(shipments'[k]) \subseteq Carried(shipments'[t])
      BY <1>3 DEF TakesOver, SameEnds, Editable
    <3> QED  BY <3>1 DEF TakenOver, Editable, Carried, SameEnds
  <2>2. RequestHolds(requests[r])'
    BY <1>3, <2>1 DEF TakesOver, RequestHolds, MergedSound, FlagsAssumption
  <2>3. SameEndsActive /\ ProductsStayIn
    BY <1>3, StillActive DEF TakesOver, SameEnds, Active
  <2>4. \A q \in Products : products'[q].activeShipment =>
           \/ ActiveShipmentsOf(q)' # {}
           \/ products[q].activeShipment /\ ActiveShipmentsOf(q) = {}
    BY <1>1, <2>3 DEF ProductsStayIn
  <2> QED  BY <1>1, <2>2, <2>3, <2>4, Written DEF SameEndsActive
<1> QED  BY <1>2, <1>3, TargetSaved

\* The second save: k goes, and nothing is lost by it.
GoesAway(k) ==
    /\ DOMAIN shipments' = DOMAIN shipments /\ ~Active(shipments'[k])
    /\ \A x \in DOMAIN shipments \ {k} : shipments'[x] = shipments[x]

LEMMA MergedGone ==
    ASSUME TypeInv, FlagsInv, NEW r \in Requests, DeleteMerged(r)
    PROVE  GoesAway(requests[r].shipment) /\ SameEndsActive /\ ProductsStayIn
<1>0. PICK k : k = requests[r].shipment  OBVIOUS
<1>1. requests[r].pc = "merged"  BY DEF DeleteMerged
<1>2. k \in DOMAIN shipments /\ TakenOver(k)
  BY <1>0, <1>1 DEF FlagsInv, RequestHolds, MergedSound
<1>3. PICK t \in DOMAIN shipments \ {k} :
         /\ Editable(shipments[t]) /\ SameEnds(shipments[k], shipments[t])
         /\ Carried(shipments[k]) \subseteq Carried(shipments[t])
  BY <1>2 DEF TakenOver
<1>4. /\ DOMAIN shipments' = DOMAIN shipments /\ ~Active(shipments'[k])
      /\ \A x \in DOMAIN shipments \ {k} : shipments'[x] = shipments[x]
  <2>1. shipments[k] \in Shipment  BY <1>2, Rows
  <2>2. shipments' = [shipments EXCEPT ![k].isDeleted = TRUE, ![k].date = requests[r].date]
    BY <1>0 DEF DeleteMerged
  <2>3. shipments'[k].isDeleted  BY <1>2, <2>1, <2>2, Rows DEF Shipment
  <2> QED  BY <1>2, <2>2, <2>3 DEF Active
<1>5. Active(shipments[t])  BY <1>3, Statuses DEF Active, Editable
<1>6. SameEndsActive
  <2> SUFFICES ASSUME NEW x PROVE HasActiveShipments(x)' = HasActiveShipments(x)
    BY DEF SameEndsActive
  <2>1. HasActiveShipments(x)' =
          \E i \in DOMAIN shipments' : Active(shipments'[i]) /\ x \in Ends(shipments'[i])
    BY DEF HasActiveShipments, Active, Ends
  <2>2. Ends(shipments[k]) = Ends(shipments[t])  BY <1>3 DEF SameEnds, Ends
  <2>3. HasActiveShipments(x)' => HasActiveShipments(x)
    BY <1>4, <2>1 DEF HasActiveShipments
  <2>4. HasActiveShipments(x) => HasActiveShipments(x)'
    <3>1. ASSUME NEW i \in DOMAIN shipments, Active(shipments[i]), x \in Ends(shipments[i])
          PROVE  HasActiveShipments(x)'
      <4>1. CASE i = k  BY <1>3, <1>4, <1>5, <2>1, <2>2, <3>1, <4>1
      <4>2. CASE i # k  BY <1>4, <2>1, <3>1, <4>2
      <4> QED  BY <4>1, <4>2
    <3> QED  BY <3>1 DEF HasActiveShipments
  <2>5. HasActiveShipments(x) \in BOOLEAN /\ HasActiveShipments(x)' \in BOOLEAN
    BY <2>1 DEF HasActiveShipments
  <2> QED  BY <2>3, <2>4, <2>5
<1>7. ProductsStayIn
  <2> SUFFICES ASSUME NEW q, NEW i \in ActiveShipmentsOf(q)
               PROVE  ActiveShipmentsOf(q)' # {}
    BY DEF ProductsStayIn
  <2>1. ActiveShipmentsOf(q)' =
          {j \in DOMAIN shipments' : Active(shipments'[j]) /\ q \in Carried(shipments'[j])}
    BY DEF ActiveShipmentsOf, Active, Carried
  <2>2. i \in DOMAIN shipments /\ Active(shipments[i]) /\ q \in Carried(shipments[i])
    BY DEF ActiveShipmentsOf
  <2>3. CASE i = k
    <3>1. t \in ActiveShipmentsOf(q)'  BY <1>3, <1>4, <1>5, <2>1, <2>2, <2>3
    <3> QED  BY <3>1
  <2>4. CASE i # k
    <3>1. i \in ActiveShipmentsOf(q)'  BY <1>4, <2>1, <2>2, <2>4
    <3> QED  BY <3>1
  <2> QED  BY <2>3, <2>4
<1> QED  BY <1>0, <1>4, <1>6, <1>7 DEF GoesAway

LEMMA DeleteMergedHolds ==
    ASSUME FlagsAssumption, TypeInv, FlagsInv, NEW r \in Requests, DeleteMerged(r)
    PROVE  FlagsInv'
<1>1. /\ requests[r].pc = "merged" /\ UNCHANGED <<products, flagged, renamed>>
      /\ Become(r, Idle)
  BY DEF DeleteMerged
<1>2. SameEndsActive /\ ProductsStayIn  BY MergedGone
<1>3. requests'[r].pc = "idle"  BY <1>1, BecomeIs DEF Idle
<1>4. \A q \in Products : products'[q].activeShipment =>
         \/ ActiveShipmentsOf(q)' # {}
         \/ products[q].activeShipment /\ ActiveShipmentsOf(q) = {}
  BY <1>1, <1>2 DEF ProductsStayIn
<1>5. RequestHolds(requests[r])'  BY <1>3, NothingHeld
<1> QED  BY <1>1, <1>2, <1>4, <1>5, Written DEF SameEndsActive


-----------------------------------------------------------------------------
\* The listener, and the invariant.

LEMMA SteadyHolds ==
    ASSUME TypeInv, FlagsInv, Steady, NamesStay,
           \A x \in Members \cup Offices :
              \/ flagged'[x] = flagged[x]
              \/ flagged'[x] <=> HasActiveShipments(x)
    PROVE  FlagsInv'
<1>1. SameEndsActive /\ ProductsStayIn
  BY StillActive DEF Steady, Carried
<1>2. requests' = requests  BY DEF Steady
<1>3. (\A x : Due(x)' = Due(x)) /\ (\A p : Freed(p)' = Freed(p))
  BY <1>2 DEF Due, Freed, Owes, CountOf, NamesStay
<1>4. EndsFlagged'
  BY <1>1, <1>3 DEF EndsFlagged, FlagsInv, SameEndsActive, Findable, NamesStay
<1>5. ProductsFreed'
  BY <1>1, <1>3, ProductsStay DEF FlagsInv, Steady, KeepsPlace, ProductsStayIn
<1> SUFFICES ASSUME NEW r \in Requests PROVE RequestHolds(requests[r])'
  BY <1>4, <1>5 DEF FlagsInv
<1>6. PICK s : s = requests[r] /\ s = requests'[r]  BY <1>2
<1>7. RequestHolds(s)  BY <1>6 DEF FlagsInv
<1>8. ASSUME s.pc \in {"loaded", "redating", "merging"} PROVE SeenSound(s)'
  BY <1>7, <1>8 DEF RequestHolds, SeenSound, Steady, SameEnds
<1>9. ASSUME s.pc = "merging" PROVE TargetSound(s)'
  BY <1>7, <1>9 DEF RequestHolds, TargetSound, Steady, SameEnds
<1>10. ASSUME s.pc = "merged" PROVE MergedSound(s)'
  <2>1. PICK k : k = s.shipment  OBVIOUS
  <2>2. MergedSound(s)  BY <1>7, <1>10 DEF RequestHolds
  <2>3. PICK t \in DOMAIN shipments \ {k} :
           /\ Editable(shipments[t]) /\ SameEnds(shipments[k], shipments[t])
           /\ Carried(shipments[k]) \subseteq Carried(shipments[t])
    BY <2>1, <2>2 DEF MergedSound, TakenOver
  <2>4. k \in DOMAIN shipments  BY <2>1, <2>2 DEF MergedSound
  <2>5. /\ Editable(shipments'[t]) /\ SameEnds(shipments'[k], shipments'[t])
        /\ Carried(shipments'[k]) \subseteq Carried(shipments'[t])
        /\ t \in DOMAIN shipments' \ {k} /\ k \in DOMAIN shipments'
    BY <2>3, <2>4 DEF Steady, SameEnds, Carried
  <2> QED  BY <2>1, <2>2, <2>5 DEF MergedSound, TakenOver, Editable, Carried, SameEnds
<1>11. ASSUME s.pc = "followUp", s.got # <<>> PROVE ReadingHolds(s.tasks[1], s.got[1])'
  <2>1. PICK task, got : task = s.tasks[1] /\ got = s.got[1]  OBVIOUS
  <2>2. ReadingHolds(task, got)  BY <1>7, <1>11, <2>1 DEF RequestHolds
  <2>3. task.kind \in {"release", "receive", "toInTransit"} => task.on \in Products
    <3>1. /\ s \in Following /\ Fitting(s)
      BY <1>6, <1>11, PcTypes DEF TypeInv, RequestsFit
    <3>2. s.tasks # <<>>  BY <1>11, <3>1 DEF Fitting
    <3>3. s.tasks \in Seq(Tasks)  BY <3>1 DEF Following
    <3>4. task \in Tasks  BY <2>1, <3>2, <3>3
    <3> QED  BY <3>4 DEF Tasks
  <2>4. ReadingHolds(task, got)'
    BY <1>1, <2>2, <2>3
       DEF ReadingHolds, Counts, Findable, Reached, NamesStay, SameEndsActive, Steady,
           KeepsPlace
  <2> QED  BY <2>1, <2>4
<1>12. ASSUME s.pc = "followUp", NEW i \in DOMAIN s.settle PROVE SettleHolds(s.settle[i])'
  BY <1>1, <1>7, <1>12, SettleStays DEF RequestHolds
<1>13. RequestHolds(s)'  BY <1>8, <1>9, <1>10, <1>11, <1>12 DEF RequestHolds
<1> QED  BY <1>6, <1>13


LEMMA EventHolds ==
    ASSUME TypeInv, FlagsInv, HandleEvent
    PROVE  FlagsInv'
<1>1. \A y \in Members \cup Offices :
         flagged'[y] = flagged[y] \/ flagged'[y] = HasActiveShipments(y)
  BY Types DEF HandleEvent
<1>2. \A y : HasActiveShipments(y) \in BOOLEAN  BY DEF HasActiveShipments
<1>3. NamesStay  BY DEF HandleEvent, NamesStay
<1>4. Steady  BY EventSteady
<1> QED  BY <1>1, <1>2, <1>3, <1>4, SteadyHolds

LEMMA FlagsStep ==
    ASSUME FlagsAssumption, TypeInv, HoldersInv, CalledInv, FlagsInv, [Next]_vars
    PROVE  FlagsInv'
<1>1. ASSUME NEW r \in Requests, Step(r) PROVE FlagsInv'
  <2>1. CASE \/ Prepare(r) \/ Load(r) \/ CheckOffice(r) \/ UpdateDefaultOffice(r)
             \/ FindTarget(r) \/ UpdateOffice(r) \/ Abort(r)
    BY <2>1, QuietSteps
  <2>2. CASE \/ UpdateMember(r) \/ Move(r) \/ Consolidate(r) \/ Create(r)
             \/ Settle(r)
    BY <2>2, UpdateMemberHolds, MoveHolds, ConsolidateHolds, CreateHolds, SettleHeld
  <2>3. CASE Cancel(r) \/ SetStatus(r) \/ Redate(r)
    BY <2>3, CancelHolds, SetStatusHolds, RedateHolds
  <2>4. CASE SaveTarget(r) \/ DeleteMerged(r)
    BY <2>4, SaveTargetHolds, DeleteMergedHolds
  <2>5. CASE Count(r) \/ WriteFlag(r) \/ FindHolder(r) \/ ReadProduct(r) \/ WriteProduct(r)
    BY <2>5, CountHolds, WriteFlagHolds, FindHolderHolds, ReadProductHolds,
       WriteProductHolds
  <2>6. ~Patch(r) /\ ~Crash(r)
    BY DEF FlagsAssumption, Patch, Crash, Starts
  <2> QED  BY <1>1, <2>1, <2>2, <2>3, <2>4, <2>5, <2>6 DEF Step, Arrive, Continue
<1>2. CASE HandleEvent  BY <1>2, EventHolds
<1>3. CASE UNCHANGED vars
  <2>1. Steady  BY <1>3 DEF vars, Steady, SameEnds, KeepsPlace, Active, Editable
  <2>2. UNCHANGED flagged /\ NamesStay  BY <1>3 DEF vars, NamesStay
  <2> QED  BY <2>1, <2>2, SteadyHolds
<1> QED  BY <1>1, <1>2, <1>3, NextSteps

LEMMA FlagsInit == Init => FlagsInv
<1> SUFFICES ASSUME Init PROVE FlagsInv  OBVIOUS
<1>1. DOMAIN shipments = {}  BY DEF Init
<1>2. \A r \in Requests : requests[r].pc = "idle"  BY DEF Init, Idle
<1>3. \A x : ~HasActiveShipments(x)  BY <1>1 DEF HasActiveShipments
<1>4. \A x \in Findable : flagged[x] = FALSE  BY DEF Init, Findable
<1>5. \A p \in Products : products[p].activeShipment = FALSE  BY DEF Init
<1>6. EndsFlagged /\ ProductsFreed  BY <1>3, <1>4, <1>5 DEF EndsFlagged, ProductsFreed
<1> QED  BY <1>2, <1>6 DEF FlagsInv, RequestHolds

-----------------------------------------------------------------------------
\* The names and addresses in the shipments under way.

SameDetails(new, old) ==
    /\ SameEnds(new, old)
    /\ new.originCalled = old.originCalled
    /\ new.destinationCalled = old.destinationCalled
    /\ new.originComplete = old.originComplete
    /\ new.destinationComplete = old.destinationComplete
DetailsStay ==
    \A s \in DOMAIN shipments' : Active(shipments'[s]) =>
        /\ s \in DOMAIN shipments /\ Active(shipments[s])
        /\ SameDetails(shipments'[s], shipments[s])

\* A request that writes the shipment it has loaded writes the status and the date.
LEMMA WritersWrite ==
    ASSUME TypeInv, FlagsInv, NEW r \in Requests, Cancel(r) \/ SetStatus(r) \/ Redate(r),
           NEW k, k = requests[r].shipment
    PROVE  /\ DOMAIN shipments' = DOMAIN shipments
           /\ k \in DOMAIN shipments /\ Active(shipments[k])
           /\ \A s \in DOMAIN shipments \ {k} : shipments'[s] = shipments[s]
           /\ SameDetails(shipments'[k], shipments[k])
           /\ shipments'[k].isDeleted = shipments[k].isDeleted
           /\ \/ shipments'[k].status \in {Cancelled, shipments[k].status}
              \/ SetStatus(r) /\ shipments'[k].status \in SetStatuses
              \/ Redate(r)
<1>1. /\ DOMAIN shipments' = DOMAIN shipments
      /\ \A s \in DOMAIN shipments \ {k} : shipments'[s] = shipments[s]
  BY WritersWriteOne
<1>2. requests[r].pc \in {"loaded", "redating"}  BY DEF Cancel, SetStatus, Redate
<1>3. k \in DOMAIN shipments /\ Active(shipments[k])
  BY <1>2 DEF FlagsInv, RequestHolds, SeenSound
<1>4. shipments[k] \in Shipment  BY <1>3, Rows
<1>7. CASE Cancel(r)
  <2>1. shipments' = [shipments EXCEPT ![k].status = Cancelled]  BY <1>7 DEF Cancel
  <2>2. shipments'[k] = [shipments[k] EXCEPT !.status = Cancelled]  BY <1>3, <2>1
  <2>3. /\ SameDetails(shipments'[k], shipments[k])
        /\ shipments'[k].isDeleted = shipments[k].isDeleted
        /\ shipments'[k].status = Cancelled
    BY <1>4, <2>2 DEF Shipment, SameDetails, SameEnds
  <2> QED  BY <1>1, <1>3, <2>3
<1>8. CASE SetStatus(r)
  <2>1. PICK new \in SetStatuses :
           shipments' = [shipments EXCEPT ![k].status =
              IF new # requests[r].seen.status THEN new ELSE @]
    BY <1>8 DEF SetStatus
  <2>2. PICK st : /\ st = new \/ st = shipments[k].status
                  /\ shipments'[k] = [shipments[k] EXCEPT !.status = st]
    BY <1>3, <2>1
  <2>3. /\ SameDetails(shipments'[k], shipments[k])
        /\ shipments'[k].isDeleted = shipments[k].isDeleted
        /\ shipments'[k].status = st
    BY <1>4, <2>2 DEF Shipment, SameDetails, SameEnds
  <2> QED  BY <1>1, <1>3, <1>8, <2>2, <2>3
<1>9. CASE Redate(r)
  <2>1. PICK date, new, old : /\ date = requests[r].date /\ old = requests[r].seen.status
                              /\ new = StatusFromDetails(requests[r].seen)
    OBVIOUS
  <2>2. shipments' = [shipments EXCEPT ![k].date = date,
                        ![k].status = IF new # old THEN new ELSE @]
    BY <1>9, <2>1 DEF Redate
  <2>3. PICK st : st = IF new # old THEN new ELSE shipments[k].status  OBVIOUS
  <2>4. shipments'[k] = [shipments[k] EXCEPT !.date = date, !.status = st]
    BY <1>3, <1>4, <1>1, <2>2, <2>3 DEF Shipment
  <2>5. /\ SameDetails(shipments'[k], shipments[k])
        /\ shipments'[k].isDeleted = shipments[k].isDeleted
    BY <1>4, <2>4 DEF Shipment, SameDetails, SameEnds
  <2> QED  BY <1>1, <1>3, <1>9, <2>5
<1> QED  BY <1>7, <1>8, <1>9

\* Nothing but Create and Patch puts a shipment under way, and no request writes the
\* names or addresses in it.
LEMMA DetailsStaySteps ==
    ASSUME TypeInv, FlagsInv, NEW r \in Requests, Step(r), ~Create(r), ~Patch(r)
    PROVE  DetailsStay
<1>1. CASE Consolidate(r) \/ SaveTarget(r) \/ DeleteMerged(r)
  <2>1. StatusesKept /\ DOMAIN shipments' = DOMAIN shipments  BY <1>1, MergersKeep
  <2> QED
    BY <2>1 DEF StatusesKept, KeepsStatus, DetailsStay, SameDetails, SameEnds, Active
<1>2. CASE Cancel(r) \/ SetStatus(r) \/ Redate(r)
  <2>1. PICK k : k = requests[r].shipment  OBVIOUS
  <2> QED  BY <1>2, <2>1, WritersWrite DEF DetailsStay, SameDetails, SameEnds
<1>3. CASE ~(\/ Consolidate(r) \/ SaveTarget(r) \/ DeleteMerged(r)
             \/ Cancel(r) \/ SetStatus(r) \/ Redate(r))
  <2>1. UNCHANGED shipments  BY <1>3, ReadersKeep DEF Step, Continue
  <2> QED  BY <2>1 DEF DetailsStay, SameDetails, SameEnds
<1> QED  BY <1>1, <1>2, <1>3

LEMMA CalledStays ==
    ASSUME CalledInv, DetailsStay, NamesStay
    PROVE  \A s \in DOMAIN shipments' : Active(shipments'[s]) => CalledFits(shipments[s])'
BY DEF CalledInv, DetailsStay, NamesStay, SameDetails, SameEnds, CalledFits, CalledAsNow

\* What the listener writes into a shipment.
LEMMA RefreshedDetails ==
    ASSUME called \in [Members -> Called], NEW sh \in Shipment, NEW x, NEW v \in BOOLEAN,
           NEW new, new = Refreshed(sh, x, v)
    PROVE  /\ new.originCalled =
                  IF AtOrigin(sh, x) THEN CalledAt(x) ELSE sh.originCalled
           /\ new.destinationCalled =
                  IF AtDestination(sh, x) THEN CalledAt(x) ELSE sh.destinationCalled
           /\ new.originComplete = IF AtOrigin(sh, x) THEN v ELSE sh.originComplete
           /\ new.destinationComplete =
                  IF AtDestination(sh, x) THEN v ELSE sh.destinationComplete
<1> DEFINE copied == Readdressed(sh, x, v)
           st     == StatusFromDetails(copied)
<1>1. copied \in Shipment  BY ReaddressedType
<1>2. /\ copied.originCalled = IF AtOrigin(sh, x) THEN CalledAt(x) ELSE sh.originCalled
      /\ copied.destinationCalled =
            IF AtDestination(sh, x) THEN CalledAt(x) ELSE sh.destinationCalled
      /\ copied.originComplete = IF AtOrigin(sh, x) THEN v ELSE sh.originComplete
      /\ copied.destinationComplete =
            IF AtDestination(sh, x) THEN v ELSE sh.destinationComplete
  BY DEF Readdressed, Shipment
<1>3. new = [copied EXCEPT !.status = st]  BY DEF Refreshed
<1> HIDE DEF copied, st
<1>4. /\ new.originCalled = copied.originCalled
      /\ new.destinationCalled = copied.destinationCalled
      /\ new.originComplete = copied.originComplete
      /\ new.destinationComplete = copied.destinationComplete
  BY <1>1, <1>3 DEF Shipment
<1> QED  BY <1>2, <1>4

LEMMA EventCalls ==
    ASSUME TypeInv, CalledInv, HandleEvent
    PROVE  CalledInv'
<1>1. PICK i \in DOMAIN events : HandleEvent!(i)  BY DEF HandleEvent
<1>2. PICK e, x, v : /\ e = events[i] /\ x = Subject(e)
                     /\ v = IF "member" \in DOMAIN e THEN complete[e.member]
                                                      ELSE e.complete
  OBVIOUS
<1>3. shipments' = [s \in DOMAIN shipments |->
          IF Concerns(e, shipments[s]) THEN Refreshed(shipments[s], x, v) ELSE shipments[s]]
  BY <1>1, <1>2
<1>4. v \in BOOLEAN /\ called \in [Members -> Called]  BY <1>2, SubjectType, Types
<1>5. Steady /\ NamesStay /\ UNCHANGED requests
  BY EventSteady DEF HandleEvent, NamesStay
<1>6. ASSUME NEW s \in DOMAIN shipments', Active(shipments'[s])
      PROVE  CalledFits(shipments[s])'
  <2>1. PICK old, new : old = shipments[s] /\ new = shipments'[s]  OBVIOUS
  <2>2. s \in DOMAIN shipments /\ Active(old) /\ SameEnds(new, old)
    BY <1>5, <1>6, <2>1 DEF Steady
  <2>3. CalledFits(old)  BY <2>1, <2>2 DEF CalledInv
  <2>4. CASE new = old
    BY <1>5, <2>1, <2>3, <2>4 DEF CalledFits, CalledAsNow, NamesStay
  <2>5. CASE new = Refreshed(old, x, v)
    <3>1. old \in Shipment  BY <2>1, <2>2, Rows
    <3>2. /\ new.originCalled = IF AtOrigin(old, x) THEN CalledAt(x) ELSE old.originCalled
          /\ new.destinationCalled =
                IF AtDestination(old, x) THEN CalledAt(x) ELSE old.destinationCalled
      BY <1>4, <2>5, <3>1, RefreshedDetails
    <3>3. /\ AtOrigin(old, x) => x = old.origin
          /\ AtDestination(old, x) => x = old.destination
      BY DEF AtOrigin, AtDestination
    <3>4. CalledFits(new)
      BY <2>2, <2>3, <3>2, <3>3 DEF CalledFits, CalledAsNow, CalledAt, SameEnds
    <3> QED  BY <1>5, <2>1, <3>4 DEF CalledFits, CalledAsNow, NamesStay
  <2> QED  BY <1>3, <2>1, <2>2, <2>4, <2>5
<1>7. ASSUME NEW r \in Requests, requests'[r].pc = "loaded"
      PROVE  CalledFits(requests[r].seen)'
  BY <1>5, <1>7 DEF CalledInv, CalledFits, CalledAsNow, NamesStay
<1>8. ASSUME NEW r \in Requests, requests'[r].pc = "prepared"
      PROVE  PreparedFits(requests[r])'
  BY <1>5, <1>8 DEF CalledInv, PreparedFits
<1> QED  BY <1>6, <1>7, <1>8 DEF CalledInv, Active

\* A transaction that creates a shipment commits the names that the members have.
LEMMA CreateCalls ==
    ASSUME TypeInv, CalledInv, NEW r \in Requests, Create(r)
    PROVE  \A s \in DOMAIN shipments' : Active(shipments'[s]) => CalledFits(shipments[s])'
<1> DEFINE s   == requests[r]
           new == [status |-> IF s.fromComplete /\ s.toComplete THEN InPreparation
                                                                ELSE OnHold,
                   isDeleted |-> FALSE, origin |-> s.from, destination |-> s.to,
                   date |-> s.date, originCalled |-> s.fromCalled,
                   destinationCalled |-> s.toCalled,
                   originComplete |-> s.fromComplete,
                   destinationComplete |-> s.toComplete, products |-> <<s.product>>]
<1>1. PICK sh : sh = new  OBVIOUS
<1>2. PICK n : n = Len(shipments) + 1  OBVIOUS
<1>3. shipments' = Append(shipments, sh) /\ NamesStay  BY <1>1 DEF Create, NamesStay
<1>4. CalledFits(sh)
  BY <1>1 DEF Create, CalledFits, CalledAsNow, CalledInv, PreparedFits
<1> HIDE DEF new, s
<1>5. /\ DOMAIN shipments = 1 .. n - 1 /\ DOMAIN shipments' = 1 .. n /\ n \in Nat \ {0}
      /\ \A i \in 1 .. n - 1 : shipments'[i] = shipments[i]
      /\ shipments'[n] = sh
  <2>1. shipments \in Seq(Shipment)  BY Types
  <2> QED  BY <1>2, <1>3, <2>1
<1> SUFFICES ASSUME NEW i \in DOMAIN shipments', Active(shipments'[i])
             PROVE  CalledFits(shipments[i])'
  OBVIOUS
<1>6. PICK now : now = shipments'[i]  OBVIOUS
<1>7. CalledFits(now)
  <2>1. CASE i = n  BY <1>4, <1>5, <1>6, <2>1
  <2>2. CASE i # n
    <3>1. i \in DOMAIN shipments /\ now = shipments[i]  BY <1>5, <1>6, <2>2
    <3> QED  BY <1>6, <3>1 DEF CalledInv
  <2> QED  BY <2>1, <2>2
<1> QED  BY <1>3, <1>6, <1>7 DEF CalledFits, CalledAsNow, NamesStay

\* No shipment under way involves a member whose flag is down, so a new name goes
\* unnoticed by none, but for the exceptions.
LEMMA UpdateMemberCalls ==
    ASSUME TypeInv, FlagsInv, CalledInv, NEW r \in Requests, UpdateMember(r)
    PROVE  \A s \in DOMAIN shipments' : Active(shipments'[s]) => CalledFits(shipments[s])'
<1>1. PICK m \in Members, new \in Called :
         /\ called' = [called EXCEPT ![m] = new]
         /\ renamed' = IF flagged[m] /\ new # called[m] THEN renamed \cup {m} ELSE renamed
  BY DEF UpdateMember
<1>2. UNCHANGED shipments  BY DEF UpdateMember
<1>3. called \in [Members -> Called]  BY Types
<1>4. ASSUME NEW x \in Members \ renamed', HasActiveShipments(x)
      PROVE  x \notin renamed /\ called'[x] = called[x]
  <2>1. x \notin renamed  BY <1>1, <1>4
  <2>2. flagged[x]  BY <1>4, <2>1 DEF FlagsInv, EndsFlagged
  <2> QED  BY <1>1, <1>3, <1>4, <2>1, <2>2
<1> SUFFICES ASSUME NEW s \in DOMAIN shipments', Active(shipments'[s])
             PROVE  CalledFits(shipments[s])'
  OBVIOUS
<1>5. PICK sh : sh = shipments[s] /\ sh = shipments'[s]  BY <1>2
<1>6. CalledFits(sh)  BY <1>2, <1>5 DEF CalledInv
<1>7. HasActiveShipments(sh.origin) /\ HasActiveShipments(sh.destination)
  BY <1>2, <1>5 DEF HasActiveShipments, Ends
<1>8. CalledFits(sh)'
  BY <1>4, <1>6, <1>7 DEF CalledFits, CalledAsNow
<1> QED  BY <1>5, <1>8 DEF CalledFits, CalledAsNow

LEMMA OnlyLoad ==
    ASSUME TypeInv, NEW r \in Requests, Step(r), requests'[r].pc = "loaded"
    PROVE  Load(r)
<1>1. CASE FindTarget(r)
  <2> DEFINE s == requests[r]
             alone(date) == [pc |-> "redating", shipment |-> s.shipment,
                             seen |-> s.seen, date |-> date]
             joined(date, t) ==
               [pc |-> "merging", shipment |-> s.shipment, seen |-> s.seen,
                date |-> date, target |-> t, targetProducts |-> shipments[t].products]
  <2>1. \E date : Become(r, alone(date)) \/ \E t : Become(r, joined(date, t))
    BY <1>1 DEF FindTarget
  <2>2. \A date : alone(date).pc = "redating"  OBVIOUS
  <2>3. \A date : \A t : joined(date, t).pc = "merging"  OBVIOUS
  <2> HIDE DEF s, alone, joined
  <2> QED  BY <2>1, <2>2, <2>3, BecomeIs
<1>2. CASE SaveTarget(r)
  <2>1. \E state : Become(r, state) /\ state.pc \in {"merged", "idle"}
    BY <1>2 DEF SaveTarget, Idle
  <2> QED  BY <2>1, BecomeIs
<1>3. CASE CheckOffice(r)
  <2>1. \E state : Become(r, state) /\ state.pc = "officeChecked"  BY <1>3 DEF CheckOffice
  <2> QED  BY <2>1, BecomeIs
<1>4. CASE requests' = requests /\ Immediate(r)
  <2>1. requests[r] = Idle
    BY <1>4 DEF Immediate, Move, Patch, UpdateMember, UpdateDefaultOffice, Starts
  <2> QED  BY <1>4, <2>1 DEF Idle
<1> QED  BY <1>1, <1>2, <1>3, <1>4, PcSteps

LEMMA OnlyPrepare ==
    ASSUME TypeInv, NEW r \in Requests, Step(r), requests'[r].pc = "prepared"
    PROVE  Prepare(r)
<1>1. ASSUME requests'[r] = Idle PROVE FALSE  BY <1>1 DEF Idle
<1>2. ASSUME NEW op, NEW tasks, NEW settle, FollowUp(r, op, tasks, settle) PROVE FALSE
  BY <1>1, <1>2, FollowUpIs
<1>3. ASSUME NEW state, Become(r, state) PROVE state.pc = "prepared"  BY <1>3, BecomeIs
<1>4. CASE Consolidate(r) \/ Create(r) \/ Cancel(r) \/ SetStatus(r) \/ Redate(r)
  <2>1. \E op, tasks, settle : FollowUp(r, op, tasks, settle)
    BY <1>4 DEF Consolidate, Create, Cancel, SetStatus, Redate
  <2> QED  BY <1>2, <2>1
<1>5. CASE Count(r) \/ WriteFlag(r) \/ FindHolder(r) \/ ReadProduct(r) \/ WriteProduct(r)
  BY <1>1, <1>5, FollowersGoOn DEF GoesOn
<1>6. CASE Settle(r) \/ DeleteMerged(r) \/ UpdateOffice(r) \/ Abort(r) \/ Crash(r)
  <2>1. requests'[r] = Idle
    BY <1>6, BecomeIs DEF Settle, DeleteMerged, UpdateOffice, Abort, Crash
  <2> QED  BY <1>1, <2>1
<1>7. CASE Move(r) \/ Patch(r) \/ UpdateMember(r) \/ UpdateDefaultOffice(r)
  <2>1. requests'[r] = requests[r] /\ requests[r] = Idle
    BY <1>7 DEF Move, Patch, UpdateMember, UpdateDefaultOffice, Starts
  <2> QED  BY <1>1, <2>1
<1>8. CASE Load(r)
  <2>1. \E op, s : Become(r, [pc |-> "loaded", op |-> op, shipment |-> s,
                              seen |-> shipments[s]])
    BY <1>8 DEF Load
  <2> QED  BY <1>3, <2>1
<1>9. CASE FindTarget(r)
  <2> DEFINE s == requests[r]
             alone(date) == [pc |-> "redating", shipment |-> s.shipment,
                             seen |-> s.seen, date |-> date]
             joined(date, t) ==
               [pc |-> "merging", shipment |-> s.shipment, seen |-> s.seen,
                date |-> date, target |-> t, targetProducts |-> shipments[t].products]
  <2>1. \E date : Become(r, alone(date)) \/ \E t : Become(r, joined(date, t))
    BY <1>9 DEF FindTarget
  <2>2. \A date : alone(date).pc = "redating"  OBVIOUS
  <2>3. \A date : \A t : joined(date, t).pc = "merging"  OBVIOUS
  <2> HIDE DEF s, alone, joined
  <2> QED  BY <1>3, <2>1, <2>2, <2>3
<1>10. CASE SaveTarget(r)
  <2>1. \/ Become(r, [pc |-> "merged", shipment |-> requests[r].shipment,
                      date |-> requests[r].date])
        \/ Become(r, Idle)
    BY <1>10 DEF SaveTarget
  <2> QED  BY <1>3, <2>1 DEF Idle
<1>11. CASE CheckOffice(r)
  <2>1. \E o : Become(r, [pc |-> "officeChecked", office |-> o])  BY <1>11 DEF CheckOffice
  <2> QED  BY <1>3, <2>1
<1> QED
  BY <1>4, <1>5, <1>6, <1>7, <1>8, <1>9, <1>10, <1>11 DEF Step, Arrive, Continue

\* What a request knows of the two ends when it has read them.
LEMMA PreparedIs ==
    ASSUME TypeInv, NEW r \in Requests, Step(r), requests'[r].pc = "prepared",
           NEW s, s = requests'[r]
    PROVE  /\ s.fromCalled = CalledAt(s.from) /\ s.toCalled = CalledAt(s.to)
           /\ s.fromComplete = AddressComplete(s.from)
           /\ s.toComplete = AddressComplete(s.to)
           /\ UNCHANGED <<complete, called>>
<1> DEFINE read(p, from, to, date) ==
             [pc |-> "prepared", product |-> p, from |-> from,
              to |-> to, date |-> date, seen |-> products[p],
              fromCalled |-> CalledAt(from), toCalled |-> CalledAt(to),
              fromComplete |-> AddressComplete(from),
              toComplete |-> AddressComplete(to),
              toFlagged |-> to \in Members /\ flagged[to]]
<1>1. PICK p \in Products, to \in Places, date \in Dates : \E from \in Visible(p) \ {to} :
         Become(r, read(p, from, to, date)) /\ UNCHANGED <<complete, called>>
  BY OnlyPrepare DEF Prepare
<1>2. PICK from :
         Become(r, read(p, from, to, date)) /\ UNCHANGED <<complete, called>>
  BY <1>1
<1>3. s = read(p, from, to, date)
  <2> HIDE DEF read
  <2> QED  BY <1>2, BecomeIs
<1> QED  BY <1>2, <1>3

LEMMA CalledStep ==
    ASSUME FlagsAssumption, TypeInv, FlagsInv, CalledInv, [Next]_vars
    PROVE  CalledInv'
<1>1. ASSUME NEW r \in Requests, Step(r) PROVE CalledInv'
  <2>1. \A s \in DOMAIN shipments' : Active(shipments'[s]) => CalledFits(shipments[s])'
    <3>1. CASE Create(r)  BY <3>1, CreateCalls
    <3>2. CASE UpdateMember(r)  BY <3>2, UpdateMemberCalls
    <3>3. CASE ~Create(r) /\ ~UpdateMember(r)
      <4>1. ~Patch(r)  BY DEF FlagsAssumption, Patch, Starts
      <4>2. DetailsStay /\ NamesStay
        BY <1>1, <3>3, <4>1, DetailsStaySteps, NamesStaySteps
      <4> QED  BY <4>2, CalledStays
    <3> QED  BY <3>1, <3>2, <3>3
  <2>2. \A q \in Requests : q = r  BY DEF FlagsAssumption, Serial
  <2>3. ASSUME requests'[r].pc = "loaded" PROVE CalledFits(requests[r].seen)'
    <3>1. CASE Load(r)
      <4>1. PICK op \in {"cancel", "setStatus", "reschedule"}, s \in DOMAIN shipments :
               /\ ~shipments[s].isDeleted /\ shipments[s].status \in Changeable(op)
               /\ Become(r, [pc |-> "loaded", op |-> op, shipment |-> s,
                             seen |-> shipments[s]])
        BY <3>1 DEF Load
      <4>2. requests'[r].seen = shipments[s]  BY <4>1, BecomeIs
      <4>3. Active(shipments[s])  BY <4>1, Statuses DEF Active
      <4>4. CalledFits(shipments[s])  BY <4>3 DEF CalledInv
      <4>5. NamesStay  BY <3>1 DEF Load, NamesStay
      <4> QED  BY <4>2, <4>4, <4>5 DEF CalledFits, CalledAsNow, NamesStay
    <3>2. CASE ~Load(r)  BY <1>1, <2>3, <3>2, OnlyLoad
    <3> QED  BY <3>1, <3>2
  <2>4. ASSUME requests'[r].pc = "prepared" PROVE PreparedFits(requests[r])'
    <3>1. PICK s : s = requests'[r]  OBVIOUS
    <3>2. s.fromCalled = CalledAt(s.from) /\ s.toCalled = CalledAt(s.to)
      BY <1>1, <2>4, <3>1, PreparedIs
    <3> QED  BY <3>1, <3>2 DEF PreparedFits, CalledAt
  <2> QED  BY <2>1, <2>2, <2>3, <2>4 DEF CalledInv, Active
<1>2. CASE HandleEvent  BY <1>2, EventCalls
<1>3. CASE UNCHANGED vars
  BY <1>3 DEF vars, CalledInv, CalledFits, CalledAsNow, PreparedFits, Active
<1> QED  BY <1>1, <1>2, <1>3, NextSteps

LEMMA CalledInit == Init => CalledInv
<1> SUFFICES ASSUME Init PROVE CalledInv  OBVIOUS
<1>1. DOMAIN shipments = {}  BY DEF Init
<1>2. \A r \in Requests : requests[r].pc = "idle"  BY DEF Init, Idle
<1> QED  BY <1>1, <1>2 DEF CalledInv

FlagsSound == TypeInv /\ HoldersInv /\ CalledInv /\ FlagsInv

LEMMA FlagsSoundStep ==
    ASSUME FlagsAssumption, FlagsSound, [Next]_vars
    PROVE  FlagsSound'
<1>1. HolderAssumption  BY DEF FlagsAssumption, HolderAssumption
<1> QED  BY <1>1, NextType, HoldersStep, CalledStep, FlagsStep DEF FlagsSound

LEMMA FlagsSpec == ASSUME FlagsAssumption PROVE Spec => []FlagsSound
<1>1. Init => FlagsSound
  BY InitType, HoldersInit, CalledInit, FlagsInit DEF FlagsSound
<1>2. FlagsSound /\ [Next]_vars => FlagsSound'  BY FlagsSoundStep
<1> QED  BY <1>1, <1>2, PTL DEF Spec

\* When nobody owes anything.
LEMMA QuietFlags ==
    ASSUME FlagsInv, Quiet
    PROVE  /\ EndFlagsExact
           /\ \A p \in Products : products[p].activeShipment => ActiveShipmentsOf(p) # {}
<1>1. (\A x : ~Due(x)) /\ (\A p : ~Freed(p))
  BY DEF Quiet, Idle, Due, Freed, Owes
<1> QED  BY <1>1 DEF FlagsInv, EndsFlagged, ProductsFreed, EndFlagsExact, Findable

\* Once every request is over, the flags of members and offices are those of the
\* shipments under way and no product is locked without one: each of them that a request
\* leaves behind is on its list, and what the list has counted still holds when it is
\* written. A member who was given another name or e-mail while flagged is left out. One
\* request at a time, which does not die, beside the listeners.
THEOREM LetGoAlways == FlagsAssumption => (Spec => []LetGo)
<1> SUFFICES ASSUME FlagsAssumption PROVE Spec => []LetGo
  OBVIOUS
<1>1. FlagsSound => LetGo
  BY QuietFlags DEF FlagsSound, LetGo, ProductReleased, EndFlagsExact
<1>2. Spec => []FlagsSound  BY FlagsSpec
<1> QED  BY <1>1, <1>2, PTL

\* Where an employee's product is not shipped again, the flags of products are exact as
\* well: a product is in a shipment under way, or it is free.
THEOREM FlagsExactAlways == FlagsAssumption /\ TravelAssumption => (Spec => []FlagsExact)
<1> SUFFICES ASSUME FlagsAssumption, TravelAssumption PROVE Spec => []FlagsExact
  OBVIOUS
<1>1. FlagsSound /\ TravelInv => FlagsExact
  <2>1. ASSUME FlagsInv, TravelInv, Quiet, NEW p \in Products
        PROVE  products[p].activeShipment <=> ActiveShipmentsOf(p) # {}
    <3>1. ActiveShipmentsOf(p) # {} => products[p].activeShipment
      BY <2>1 DEF TravelInv, PlacesSound, ProductsLocked, Locked
    <3>2. products[p].activeShipment => ActiveShipmentsOf(p) # {}
      BY <2>1, QuietFlags
    <3> QED  BY <3>1, <3>2
  <2> QED  BY <2>1, QuietFlags DEF FlagsSound, FlagsExact, ProductFlagExact, EndFlagsExact
<1>2. Spec => []FlagsSound  BY FlagsSpec
<1>3. Spec => [](TypeInv /\ HoldersInv /\ TravelInv)  BY TravelSpec
<1> QED  BY <1>1, <1>2, <1>3, PTL


-----------------------------------------------------------------------------
\* The copied addresses. A member's flag is never down too early, so the listener is
\* called for every change of an address that a shipment holds. It reads a member again,
\* but believes what an event says of an office: two events about one office may be
\* handled in the wrong order, so either no office is edited or one event is handled
\* before the next. A shipment that had left preparation, whose addresses are no longer
\* kept up, must not come back.

DetailsAssumption ==
    /\ MaxEvents <= 1 \/ Operations \cap {"office", "default"} = {}
    /\ SetStatuses \cap EditableStatuses = {}

Tells(e, x) ==
    Subject(e) = x /\ ("member" \in DOMAIN e => e.email = called[x].email)
Awaited(x) == \E i \in DOMAIN events : Tells(events[i], x)
Agrees(x, isComplete) ==
    x \in renamed \/ isComplete = AddressComplete(x) \/ Awaited(x)
DetailsAgree(sh) ==
    Agrees(sh.origin, sh.originComplete) /\ Agrees(sh.destination, sh.destinationComplete)

DetailsKnown ==
    \A s \in DOMAIN shipments : Editable(shipments[s]) => DetailsAgree(shipments[s])
EventsCurrent ==
    \A i \in DOMAIN events :
        "member" \in DOMAIN events[i] \/ events[i].complete = complete[events[i].office]

\* What a request has read of an address, or checked of a shipment, still holds.
ChecksCurrent(s) ==
    /\ s.pc = "prepared" => /\ s.fromComplete = AddressComplete(s.from)
                            /\ s.toComplete = AddressComplete(s.to)
    /\ s.pc = "redating" \/ (s.pc = "loaded" /\ s.op = "reschedule") =>
          Editable(shipments[s.shipment])
    /\ s.pc = "officeChecked" => "office" \in Operations

DetailsInv ==
    DetailsKnown /\ EventsCurrent /\ \A r \in Requests : ChecksCurrent(requests[r])

EditableStays ==
    \A s \in DOMAIN shipments' : Editable(shipments'[s]) =>
        s \in DOMAIN shipments /\ Editable(shipments[s])

LEMMA AgreesStill ==
    ASSUME UNCHANGED <<complete, events>>, NamesStay, NEW sh, NEW old, DetailsAgree(old),
           SameDetails(sh, old)
    PROVE  DetailsAgree(sh)'
BY DEF DetailsAgree, SameDetails, SameEnds, Agrees, Awaited, Tells, AddressComplete, NamesStay

LEMMA KnownStays ==
    ASSUME DetailsKnown, DetailsStay, EditableStays, UNCHANGED <<complete, events>>, NamesStay
    PROVE  DetailsKnown'
<1> SUFFICES ASSUME NEW s \in DOMAIN shipments', Editable(shipments'[s])
             PROVE  DetailsAgree(shipments[s])'
  BY DEF DetailsKnown, Editable
<1>1. Active(shipments'[s])  BY Statuses DEF Active, Editable
<1>2. /\ s \in DOMAIN shipments /\ Editable(shipments[s])
      /\ SameDetails(shipments'[s], shipments[s])
  BY <1>1 DEF DetailsStay, EditableStays
<1>3. PICK sh, old : sh = shipments'[s] /\ old = shipments[s]  OBVIOUS
<1>4. DetailsAgree(old)  BY <1>2, <1>3 DEF DetailsKnown
<1>5. DetailsAgree(sh)'  BY <1>2, <1>3, <1>4, AgreesStill
<1> QED  BY <1>3, <1>5 DEF DetailsAgree, Agrees

\* Nothing but Create and Patch lets a shipment be edited that could not be.
LEMMA EditableStaysSteps ==
    ASSUME DetailsAssumption, TypeInv, FlagsInv, DetailsInv, NEW r \in Requests, Step(r),
           ~Create(r), ~Patch(r)
    PROVE  EditableStays
<1>1. CASE Consolidate(r) \/ SaveTarget(r) \/ DeleteMerged(r)
  <2>1. StatusesKept /\ DOMAIN shipments' = DOMAIN shipments  BY <1>1, MergersKeep
  <2> QED  BY <2>1 DEF StatusesKept, KeepsStatus, EditableStays, Editable
<1>2. CASE Cancel(r) \/ SetStatus(r) \/ Redate(r)
  <2>1. PICK k : k = requests[r].shipment  OBVIOUS
  <2>2. /\ DOMAIN shipments' = DOMAIN shipments /\ k \in DOMAIN shipments
        /\ \A s \in DOMAIN shipments \ {k} : shipments'[s] = shipments[s]
        /\ shipments'[k].isDeleted = shipments[k].isDeleted
        /\ \/ shipments'[k].status \in {Cancelled, shipments[k].status}
           \/ SetStatus(r) /\ shipments'[k].status \in SetStatuses
           \/ Redate(r)
    BY <1>2, <2>1, WritersWrite
  <2>3. Redate(r) => Editable(shipments[k])
    BY <2>1 DEF Redate, DetailsInv, ChecksCurrent
  <2>4. ASSUME Editable(shipments'[k]) PROVE Editable(shipments[k])
    BY <2>2, <2>3, <2>4, Statuses DEF Editable, DetailsAssumption
  <2> QED  BY <2>2, <2>4 DEF EditableStays
<1>3. CASE ~(\/ Consolidate(r) \/ SaveTarget(r) \/ DeleteMerged(r)
             \/ Cancel(r) \/ SetStatus(r) \/ Redate(r))
  <2>1. UNCHANGED shipments  BY <1>3, ReadersKeep DEF Step, Continue
  <2> QED  BY <2>1 DEF EditableStays
<1> QED  BY <1>1, <1>2, <1>3

LEMMA AddressesStay ==
    ASSUME NEW r \in Requests, Step(r), ~UpdateMember(r), ~UpdateOffice(r),
           ~UpdateDefaultOffice(r)
    PROVE  UNCHANGED <<complete, events>>
BY DEF Step, Arrive, Continue, Prepare, Move, Load, Patch, CheckOffice, Consolidate, Create,
   Settle, Cancel, SetStatus, FindTarget, SaveTarget, DeleteMerged, Redate, Count,
   WriteFlag, FindHolder, ReadProduct, WriteProduct, Abort, Crash


\* What a request has read and checked still holds after its own steps.
LEMMA ChecksStep ==
    ASSUME FlagsAssumption, TypeInv, DetailsInv, NEW r \in Requests, Step(r)
    PROVE  \A q \in Requests : ChecksCurrent(requests[q])'
<1>0. \A q \in Requests : q = r  BY DEF FlagsAssumption, Serial
<1> SUFFICES ChecksCurrent(requests[r])'  BY <1>0
<1>1. ASSUME requests'[r].pc \in {"idle", "followUp", "merging", "merged"}
      PROVE  ChecksCurrent(requests[r])'
  BY <1>1 DEF ChecksCurrent
<1>2. CASE Load(r)
  <2>1. PICK op \in {"cancel", "setStatus", "reschedule"}, s \in DOMAIN shipments :
           /\ ~shipments[s].isDeleted /\ shipments[s].status \in Changeable(op)
           /\ Become(r, [pc |-> "loaded", op |-> op, shipment |-> s, seen |-> shipments[s]])
           /\ UNCHANGED shipments
    BY <1>2 DEF Load
  <2>2. /\ requests'[r].pc = "loaded" /\ requests'[r].shipment = s /\ requests'[r].op = op
    BY <2>1, BecomeIs
  <2>3. op = "reschedule" => Editable(shipments'[s])  BY <2>1 DEF Changeable, Editable
  <2> QED  BY <2>2, <2>3 DEF ChecksCurrent, Editable
<1>3. CASE FindTarget(r)
  <2> DEFINE s == requests[r]
             alone(date) == [pc |-> "redating", shipment |-> s.shipment,
                             seen |-> s.seen, date |-> date]
             joined(date, t) ==
               [pc |-> "merging", shipment |-> s.shipment, seen |-> s.seen,
                date |-> date, target |-> t, targetProducts |-> shipments[t].products]
  <2>1. PICK date : Become(r, alone(date)) \/ \E t : Become(r, joined(date, t))
    BY <1>3 DEF FindTarget
  <2>2. CASE Become(r, alone(date))
    <3>1. Editable(shipments[s.shipment]) /\ UNCHANGED shipments
      BY <1>3 DEF FindTarget, DetailsInv, ChecksCurrent
    <3>2. requests'[r].pc = "redating" /\ requests'[r].shipment = s.shipment
      BY <2>2, BecomeIs
    <3> QED  BY <3>1, <3>2 DEF ChecksCurrent, Editable
  <2>3. ASSUME NEW t, Become(r, joined(date, t)) PROVE ChecksCurrent(requests[r])'
    <3>1. requests'[r].pc = "merging"  BY <2>3, BecomeIs
    <3> QED  BY <1>1, <3>1
  <2> QED  BY <2>1, <2>2, <2>3
<1>4. CASE SaveTarget(r)
  <2>1. \/ Become(r, [pc |-> "merged", shipment |-> requests[r].shipment,
                      date |-> requests[r].date])
        \/ Become(r, Idle)
    BY <1>4 DEF SaveTarget
  <2>2. requests'[r].pc \in {"merged", "idle"}  BY <2>1, BecomeIs DEF Idle
  <2> QED  BY <1>1, <2>2
<1>5. CASE CheckOffice(r)
  <2>1. PICK o : Become(r, [pc |-> "officeChecked", office |-> o])
    BY <1>5 DEF CheckOffice
  <2>2. requests'[r].pc = "officeChecked"  BY <2>1, BecomeIs
  <2>3. "office" \in Operations  BY <1>5 DEF CheckOffice, Starts
  <2> QED  BY <2>2, <2>3 DEF ChecksCurrent
<1>6. CASE requests' = requests /\ Immediate(r)
  <2>1. requests[r] = Idle
    BY <1>6 DEF Immediate, Move, Patch, UpdateMember, UpdateDefaultOffice, Starts
  <2> QED  BY <1>1, <1>6, <2>1 DEF Idle
<1>7. CASE requests'[r].pc = "prepared"
  <2>1. PICK s : s = requests'[r]  OBVIOUS
  <2>2. /\ s.fromComplete = AddressComplete(s.from)
        /\ s.toComplete = AddressComplete(s.to)
        /\ UNCHANGED complete
    BY <1>7, <2>1, PreparedIs
  <2> QED  BY <1>7, <2>1, <2>2 DEF ChecksCurrent, AddressComplete
<1> QED  BY <1>1, <1>2, <1>3, <1>4, <1>5, <1>6, <1>7, PcSteps

LEMMA CurrentStays ==
    ASSUME EventsCurrent, UNCHANGED <<complete, events>>
    PROVE  EventsCurrent'
BY DEF EventsCurrent

\* A new shipment has the addresses that were read, and no address has changed since.
LEMMA CreateKnown ==
    ASSUME TypeInv, DetailsInv, NEW r \in Requests, Create(r)
    PROVE  DetailsKnown'
<1> DEFINE s   == requests[r]
           new == [status |-> IF s.fromComplete /\ s.toComplete THEN InPreparation
                                                                ELSE OnHold,
                   isDeleted |-> FALSE, origin |-> s.from, destination |-> s.to,
                   date |-> s.date, originCalled |-> s.fromCalled,
                   destinationCalled |-> s.toCalled,
                   originComplete |-> s.fromComplete,
                   destinationComplete |-> s.toComplete, products |-> <<s.product>>]
<1>1. PICK sh : sh = new  OBVIOUS
<1>2. PICK n : n = Len(shipments) + 1  OBVIOUS
<1>3. /\ s.pc = "prepared" /\ shipments' = Append(shipments, sh)
      /\ UNCHANGED <<complete, events>> /\ NamesStay
  BY <1>1 DEF Create, NamesStay
<1>4. /\ s.fromComplete = AddressComplete(s.from)
      /\ s.toComplete = AddressComplete(s.to)
  BY <1>3 DEF DetailsInv, ChecksCurrent
<1>5. DetailsAgree(sh)  BY <1>1, <1>4 DEF DetailsAgree, Agrees
<1> HIDE DEF new, s
<1>6. /\ DOMAIN shipments = 1 .. n - 1 /\ DOMAIN shipments' = 1 .. n /\ n \in Nat \ {0}
      /\ \A i \in 1 .. n - 1 : shipments'[i] = shipments[i]
      /\ shipments'[n] = sh
  <2>1. shipments \in Seq(Shipment)  BY Types
  <2> QED  BY <1>2, <1>3, <2>1
<1>7. \A i \in DOMAIN shipments' \ {n} : i \in DOMAIN shipments /\ shipments'[i] = shipments[i]
  BY <1>6
<1> SUFFICES ASSUME NEW i \in DOMAIN shipments', Editable(shipments'[i])
             PROVE  DetailsAgree(shipments[i])'
  BY DEF DetailsKnown, Editable
<1>8. PICK now : now = shipments'[i]  OBVIOUS
<1>9. DetailsAgree(now)
  <2>1. CASE i = n  BY <1>5, <1>6, <1>8, <2>1
  <2>2. CASE i # n
    <3>1. i \in DOMAIN shipments /\ now = shipments[i]  BY <1>7, <1>8, <2>2
    <3>2. Editable(shipments[i])  BY <1>8, <3>1
    <3> QED  BY <3>1, <3>2 DEF DetailsInv, DetailsKnown
  <2> QED  BY <2>1, <2>2
<1>10. SameDetails(now, now)  BY DEF SameDetails, SameEnds
<1>11. DetailsAgree(now)'  BY <1>3, <1>9, <1>10, AgreesStill
<1> QED  BY <1>8, <1>11 DEF DetailsAgree, Agrees


LEMMA AwaitedStays ==
    ASSUME TypeInv, NEW y, Awaited(y), called'[y] = called[y],
           events' = events \/ \E e : events' = Append(events, e)
    PROVE  Awaited(y)'
<1>1. PICK i \in DOMAIN events : Tells(events[i], y)  BY DEF Awaited
<1>2. i \in DOMAIN events' /\ events'[i] = events[i]
  <2>1. events \in Seq(AddressEvents)  BY Types
  <2> QED  BY <2>1
<1> QED  BY <1>1, <1>2 DEF Awaited, Tells, Subject

LEMMA Appended ==
    ASSUME TypeInv, NEW y, NEW e, Tells(e, y)', events' = Append(events, e)
    PROVE  Awaited(y)'
<1>1. PICK n : n = Len(events) + 1  OBVIOUS
<1>2. n \in DOMAIN events' /\ events'[n] = e
  <2>1. events \in Seq(AddressEvents)  BY Types
  <2> QED  BY <1>1, <2>1
<1> QED  BY <1>2 DEF Awaited, Tells, Subject

\* The shipments stay, and with them what agrees with their ends.
LEMMA StillKnown ==
    ASSUME TypeInv, DetailsInv, UNCHANGED shipments,
           \A x : \A v : /\ \E s \in DOMAIN shipments :
                               Editable(shipments[s]) /\ x \in Ends(shipments[s])
                         /\ Agrees(x, v)
                         => Agrees(x, v)'
    PROVE  DetailsKnown'
<1> SUFFICES ASSUME NEW s \in DOMAIN shipments', Editable(shipments'[s])
             PROVE  DetailsAgree(shipments[s])'
  BY DEF DetailsKnown, Editable
<1>1. s \in DOMAIN shipments /\ Editable(shipments[s])  BY DEF Editable
<1>2. PICK sh : sh = shipments[s] /\ sh = shipments'[s]  OBVIOUS
<1>3. PICK a, b, c, d : /\ a = sh.origin /\ c = sh.originComplete
                        /\ b = sh.destination /\ d = sh.destinationComplete
  OBVIOUS
<1>4. Agrees(a, c) /\ Agrees(b, d)
  BY <1>1, <1>2, <1>3 DEF DetailsInv, DetailsKnown, DetailsAgree
<1>5. a \in Ends(shipments[s]) /\ b \in Ends(shipments[s])
  BY <1>2, <1>3 DEF Ends
<1>6. Agrees(a, c)' /\ Agrees(b, d)'  BY <1>1, <1>4, <1>5
<1> QED  BY <1>2, <1>3, <1>6 DEF DetailsAgree, Agrees

\* A member's address changes: the listener is called, unless the member is in no
\* shipment under way or was renamed.
LEMMA MemberWritten ==
    ASSUME TypeInv, FlagsInv, DetailsInv, NEW r \in Requests, UpdateMember(r)
    PROVE  DetailsKnown' /\ EventsCurrent'
<1>1. PICK m \in Members, new \in Called, isComplete \in BOOLEAN :
         /\ called' = [called EXCEPT ![m] = new]
         /\ complete' = [complete EXCEPT ![m] = isComplete]
         /\ events' = IF ShouldEmit(m, new, isComplete)
                      THEN Append(events, [member |-> m, email |-> new.email])
                      ELSE events
         /\ renamed' = IF flagged[m] /\ new # called[m] THEN renamed \cup {m} ELSE renamed
         /\ UNCHANGED shipments
  BY DEF UpdateMember
<1>2. /\ called \in [Members -> Called] /\ complete \in [Members \cup Offices -> BOOLEAN]
      /\ events \in Seq(AddressEvents)
  BY Types
<1>3. PICK e : e = [member |-> m, email |-> new.email]  OBVIOUS
<1>4. "member" \in DOMAIN e /\ Subject(e) = m /\ e.email = new.email
  BY <1>3 DEF Subject
<1>5. events' = events \/ events' = Append(events, e)  BY <1>1, <1>3
<1>6. ASSUME NEW x, NEW v, Agrees(x, v), NEW s \in DOMAIN shipments,
             Editable(shipments[s]), x \in Ends(shipments[s])
      PROVE  Agrees(x, v)'
  <2>1. CASE x \in renamed'  BY <2>1 DEF Agrees
  <2>2. CASE x \notin renamed' /\ x # m
    <3>1. AddressComplete(x)' = AddressComplete(x)
      BY <1>1, <1>2, <2>2 DEF AddressComplete
    <3>2. called'[x] = called[x]  BY <1>1, <1>2, <2>2
    <3>3. Awaited(x) => Awaited(x)'  BY <1>5, <3>2, AwaitedStays
    <3>4. x \notin renamed  BY <1>1, <2>2
    <3> QED  BY <1>6, <3>1, <3>3, <3>4 DEF Agrees
  <2>3. CASE x \notin renamed' /\ x = m
    <3>1. m \notin renamed  BY <1>1, <2>3
    <3>2. Active(shipments[s])  BY <1>6, Statuses DEF Active, Editable
    <3>3. HasActiveShipments(m)  BY <1>6, <2>3, <3>2 DEF HasActiveShipments
    <3>4. flagged[m]  BY <3>1, <3>3 DEF FlagsInv, EndsFlagged
    <3>5. new = called[m]  BY <1>1, <2>3, <3>4
    <3>6. called' = called  BY <1>1, <1>2, <3>5
    <3>7. CASE isComplete # complete[m]
      <4>1. events' = Append(events, e)  BY <1>1, <1>3, <3>4, <3>7 DEF ShouldEmit
      <4>2. Tells(e, m)'  BY <1>4, <3>5, <3>6 DEF Tells, Subject
      <4>3. Awaited(m)'  BY <4>1, <4>2, Appended
      <4> QED  BY <2>3, <4>3 DEF Agrees
    <3>8. CASE isComplete = complete[m]
      <4>1. complete' = complete  BY <1>1, <1>2, <3>8
      <4>2. Awaited(m) => Awaited(m)'  BY <1>5, <3>6, AwaitedStays
      <4>3. AddressComplete(m)' = AddressComplete(m)  BY <4>1 DEF AddressComplete
      <4> QED  BY <1>6, <2>3, <3>1, <4>2, <4>3 DEF Agrees
    <3> QED  BY <3>7, <3>8
  <2> QED  BY <2>1, <2>2, <2>3
<1>7. DetailsKnown'  BY <1>1, <1>6, StillKnown
<1>8. EventsCurrent'
  <2> SUFFICES ASSUME NEW i \in DOMAIN events', "member" \notin DOMAIN events'[i]
               PROVE  events'[i].complete = complete'[events'[i].office]
    BY DEF EventsCurrent
  <2>1. i \in DOMAIN events /\ events'[i] = events[i]
    <3>1. i \in DOMAIN events \/ events'[i] = e  BY <1>2, <1>5
    <3>2. events'[i] # e  BY <1>4
    <3>3. i \in DOMAIN events  BY <3>1, <3>2
    <3> QED  BY <1>2, <1>5, <3>3
  <2>2. events[i] \in [office : Offices, complete : BOOLEAN]
    BY <1>2, <2>1 DEF AddressEvents
  <2>3. events[i].office \in Offices  BY <2>2
  <2>4. events[i].office # m
    BY <2>3, ConstantsAssumption DEF ConstantsAssumption, Pool
  <2> QED  BY <1>1, <1>2, <2>1, <2>3, <2>4 DEF DetailsInv, EventsCurrent
<1> QED  BY <1>7, <1>8

\* The address of an office changes: the listener is always called.
LEMMA OfficeWritten ==
    ASSUME TypeInv, DetailsInv, UNCHANGED shipments, NamesStay,
           NEW o \in Offices, complete' = [complete EXCEPT ![o] = ~@], Len(events) = 0,
           events' = Append(events, [office |-> o, complete |-> complete'[o]])
    PROVE  DetailsKnown' /\ EventsCurrent'
<1>1. PICK e : e = [office |-> o, complete |-> complete'[o]]  OBVIOUS
<1>2. "member" \notin DOMAIN e /\ Subject(e) = o /\ e.office = o /\ e.complete = complete'[o]
  BY <1>1 DEF Subject
<1>3. complete \in [Members \cup Offices -> BOOLEAN] /\ events \in Seq(AddressEvents)
  BY Types
<1>4. ASSUME NEW x, NEW v, Agrees(x, v)
      PROVE  Agrees(x, v)'
  <2>1. CASE x = o
    <3>1. Tells(e, o)'  BY <1>2 DEF Tells, Subject
    <3>2. Awaited(o)'  BY <1>1, <3>1, Appended
    <3> QED  BY <2>1, <3>2 DEF Agrees
  <2>2. CASE x # o
    <3>1. AddressComplete(x)' = AddressComplete(x)
      BY <1>3, <2>2 DEF AddressComplete
    <3>2. Awaited(x) => Awaited(x)'  BY AwaitedStays DEF NamesStay
    <3> QED  BY <1>4, <3>1, <3>2 DEF Agrees, NamesStay
  <2> QED  BY <2>1, <2>2
<1>5. DetailsKnown'  BY <1>4, StillKnown
<1>6. EventsCurrent'
  <2> SUFFICES ASSUME NEW i \in DOMAIN events', "member" \notin DOMAIN events'[i]
               PROVE  events'[i].complete = complete'[events'[i].office]
    BY DEF EventsCurrent
  <2>1. events'[i] = e  BY <1>1, <1>3
  <2> QED  BY <1>2, <2>1
<1> QED  BY <1>5, <1>6

LEMMA AddressSteps ==
    ASSUME FlagsAssumption, DetailsAssumption, TypeInv, FlagsInv, DetailsInv, NEW r \in Requests,
           UpdateMember(r) \/ UpdateOffice(r) \/ UpdateDefaultOffice(r)
    PROVE  DetailsKnown' /\ EventsCurrent'
<1>1. CASE UpdateMember(r)  BY <1>1, MemberWritten
<1>2. CASE UpdateOffice(r) \/ UpdateDefaultOffice(r)
  <2>1. PICK o \in Offices :
           /\ Len(events) < MaxEvents
           /\ complete' = [complete EXCEPT ![o] = ~@]
           /\ events' = Append(events, [office |-> o, complete |-> complete'[o]])
    <3>1. CASE UpdateOffice(r)
      <4>1. requests[r].pc = "officeChecked"  BY <3>1 DEF UpdateOffice
      <4>2. requests[r].office \in Offices
        BY <4>1, PcTypes DEF TypeInv, OfficeChecked
      <4> QED  BY <3>1, <4>2 DEF UpdateOffice
    <3>2. CASE UpdateDefaultOffice(r)  BY <3>2 DEF UpdateDefaultOffice
    <3> QED  BY <1>2, <3>1, <3>2
  <2>2. MaxEvents <= 1
    <3>1. CASE UpdateOffice(r)
      <4>1. "office" \in Operations
        BY <3>1 DEF UpdateOffice, DetailsInv, ChecksCurrent
      <4> QED  BY <4>1 DEF DetailsAssumption
    <3>2. CASE UpdateDefaultOffice(r)
      BY <3>2 DEF UpdateDefaultOffice, Starts, DetailsAssumption
    <3> QED  BY <1>2, <3>1, <3>2
  <2>3. Len(events) = 0
    <3>1. Len(events) \in Nat  BY Types
    <3> QED  BY <2>1, <2>2, <3>1, ConstantsAssumption DEF ConstantsAssumption
  <2>4. UNCHANGED shipments /\ NamesStay
    BY <1>2 DEF UpdateOffice, UpdateDefaultOffice, NamesStay
  <2> QED  BY <2>1, <2>3, <2>4, OfficeWritten
<1> QED  BY <1>1, <1>2

\* The listener brings the ends at which it finds its subject up to date, and it finds
\* it at every end unless it was renamed; every other end waits as it did.
LEMMA EventKnown ==
    ASSUME TypeInv, CalledInv, DetailsInv, HandleEvent
    PROVE  DetailsKnown' /\ EventsCurrent'
<1>1. PICK i \in DOMAIN events : HandleEvent!(i)  BY DEF HandleEvent
<1>2. PICK e, x, v : /\ e = events[i] /\ x = Subject(e)
                     /\ v = IF "member" \in DOMAIN e THEN complete[e.member]
                                                      ELSE e.complete
  OBVIOUS
<1>3. /\ shipments' = [s \in DOMAIN shipments |->
            IF Concerns(e, shipments[s]) THEN Refreshed(shipments[s], x, v) ELSE shipments[s]]
      /\ events' = [j \in 1 .. Len(events) - 1 |-> events[IF j < i THEN j ELSE j + 1]]
      /\ UNCHANGED complete
  BY <1>1, <1>2
<1>4. /\ x \in Members \cup Offices /\ v = complete[x]
      /\ "member" \in DOMAIN e => e.member = x
  <2>1. e \in AddressEvents  BY <1>2, Types
  <2>2. CASE "member" \in DOMAIN e
    <3>1. e \in [member : Members, email : Names]  BY <2>1, <2>2 DEF AddressEvents
    <3>2. x = e.member  BY <1>2, <2>2 DEF Subject
    <3> QED  BY <1>2, <2>2, <3>1, <3>2
  <2>3. CASE "member" \notin DOMAIN e
    <3>1. e \in [office : Offices, complete : BOOLEAN]  BY <2>1, <2>3 DEF AddressEvents
    <3>2. x = e.office /\ e.complete = complete[e.office]
      BY <1>2, <2>3 DEF Subject, DetailsInv, EventsCurrent
    <3> QED  BY <1>2, <2>3, <3>1, <3>2
  <2> QED  BY <2>2, <2>3
<1>5. AddressComplete(x) = v /\ v \in BOOLEAN /\ called \in [Members -> Called]
  <2>1. x # FPWarehouse  BY <1>4, ConstantsAssumption DEF ConstantsAssumption, Pool
  <2>2. complete[x] \in BOOLEAN  BY <1>4, Types
  <2> QED  BY <1>4, <2>1, <2>2, Types DEF AddressComplete
<1>6. PICK n : n = Len(events) /\ n \in Nat /\ DOMAIN events = 1 .. n
  BY Types
<1>7. ASSUME NEW j \in DOMAIN events, j # i
      PROVE  \E m \in DOMAIN events' : events'[m] = events[j]
  <2>1. i \in 1 .. n /\ j \in 1 .. n /\ i # j  BY <1>6, <1>7
  <2>2. /\ DOMAIN events' = 1 .. n - 1
        /\ \A m \in 1 .. n - 1 : events'[m] = events[IF m < i THEN m ELSE m + 1]
    BY <1>3, <1>6
  <2>3. CASE j < i
    <3>1. j \in 1 .. n - 1  BY <1>6, <2>1, <2>3
    <3>2. events'[j] = events[j]  BY <2>2, <2>3, <3>1
    <3> QED  BY <2>2, <3>1, <3>2
  <2>4. CASE ~(j < i)
    <3>1. PICK m : m = j - 1 /\ m \in 1 .. n - 1 /\ ~(m < i) /\ m + 1 = j
      BY <1>6, <2>1, <2>4
    <3>2. events'[m] = events[j]  BY <2>2, <3>1
    <3> QED  BY <2>2, <3>1, <3>2
  <2> QED  BY <2>3, <2>4
<1>8. ASSUME NEW m \in DOMAIN events'
      PROVE  \E j \in DOMAIN events : events'[m] = events[j]
  <2>1. PICK j : j = IF m < i THEN m ELSE m + 1  OBVIOUS
  <2>2. m \in 1 .. n - 1 /\ events'[m] = events[j]  BY <1>3, <1>6, <1>8, <2>1
  <2>3. j \in 1 .. n  BY <1>6, <2>1, <2>2
  <2> QED  BY <1>6, <2>2, <2>3
<1>9. Steady /\ NamesStay  BY EventSteady DEF HandleEvent, NamesStay
<1>10. ASSUME NEW y, NEW c, Agrees(y, c), ~Tells(e, y)
       PROVE  Agrees(y, c)'
  <2>1. AddressComplete(y)' = AddressComplete(y)  BY <1>3 DEF AddressComplete
  <2>2. ASSUME Awaited(y) PROVE Awaited(y)'
    <3>1. PICK j \in DOMAIN events : Tells(events[j], y)  BY <2>2 DEF Awaited
    <3>2. j # i  BY <1>2, <1>10, <3>1
    <3>3. PICK m \in DOMAIN events' : events'[m] = events[j]  BY <1>7, <3>2
    <3>4. Tells(events[m], y)'  BY <1>9, <3>1, <3>3 DEF Tells, Subject, NamesStay
    <3> QED  BY <3>4 DEF Awaited
  <2> QED  BY <1>9, <1>10, <2>1, <2>2 DEF Agrees, NamesStay
<1>11. Agrees(x, v)'
  <2>1. AddressComplete(x)' = AddressComplete(x)  BY <1>3 DEF AddressComplete
  <2> QED  BY <1>5, <2>1 DEF Agrees
\* One end of a shipment: where it is, whether the listener finds its subject there,
\* and the copied address before and after.
<1>12. ASSUME NEW a, NEW at \in BOOLEAN, NEW told \in BOOLEAN, NEW c, NEW f, Agrees(a, c),
              at => a = x, a = x /\ a \notin renamed => at,
              f = IF told /\ at THEN v ELSE c, at /\ ~told => ~Tells(e, x)
       PROVE  Agrees(a, f)'
  <2>1. CASE a \in renamed  BY <1>9, <2>1 DEF Agrees, NamesStay
  <2>2. CASE a \notin renamed /\ a # x
    <3>1. f = c /\ ~Tells(e, a)  BY <1>2, <1>12, <2>2 DEF Tells
    <3>2. Agrees(a, c)'  BY <1>10, <1>12, <3>1
    <3> QED  BY <3>1, <3>2
  <2>3. CASE a \notin renamed /\ a = x /\ told
    <3>1. f = v  BY <1>12, <2>3
    <3> QED  BY <1>11, <2>3, <3>1
  <2>4. CASE a \notin renamed /\ a = x /\ ~told
    <3>1. f = c /\ ~Tells(e, a)  BY <1>12, <2>4
    <3>2. Agrees(a, c)'  BY <1>10, <1>12, <3>1
    <3> QED  BY <3>1, <3>2
  <2> QED  BY <2>1, <2>2, <2>3, <2>4
<1>13. DetailsKnown'
  <2> SUFFICES ASSUME NEW s \in DOMAIN shipments', Editable(shipments'[s])
               PROVE  DetailsAgree(shipments[s])'
    BY DEF DetailsKnown, Editable
  <2>1. PICK old, sh : old = shipments[s] /\ sh = shipments'[s]  OBVIOUS
  <2>2. s \in DOMAIN shipments /\ Editable(old) /\ old \in Shipment /\ SameEnds(sh, old)
    BY <1>9, <2>1, Rows DEF Steady
  <2>3. Active(old)  BY <2>2, Statuses DEF Active, Editable
  <2>4. DetailsAgree(old) /\ CalledFits(old)
    BY <2>1, <2>2, <2>3 DEF DetailsInv, DetailsKnown, CalledInv
  <2>5. PICK told, here, there : /\ told = Concerns(e, old)
                                 /\ here = AtOrigin(old, x)
                                 /\ there = AtDestination(old, x)
    OBVIOUS
  <2>6. told \in BOOLEAN /\ here \in BOOLEAN /\ there \in BOOLEAN
    BY <2>5 DEF Concerns, AtOrigin, AtDestination
  <2>7. /\ sh.originComplete = IF told /\ here THEN v ELSE old.originComplete
        /\ sh.destinationComplete = IF told /\ there THEN v ELSE old.destinationComplete
    <3>1. sh = IF told THEN Refreshed(old, x, v) ELSE old
      BY <1>3, <2>1, <2>2, <2>5
    <3>2. CASE ~told  BY <3>1, <3>2
    <3>3. CASE told
      <4>1. sh = Refreshed(old, x, v)  BY <3>1, <3>3
      <4>2. /\ sh.originComplete = IF AtOrigin(old, x) THEN v ELSE old.originComplete
            /\ sh.destinationComplete =
                  IF AtDestination(old, x) THEN v ELSE old.destinationComplete
        BY <1>5, <2>2, <4>1, RefreshedDetails
      <4> QED  BY <2>5, <3>3, <4>2
    <3> QED  BY <2>6, <3>2, <3>3
  <2>8. (here \/ there) /\ ~told => ~Tells(e, x)
    <3>1. ASSUME here \/ there, Tells(e, x) PROVE told
      <4>1. AtOrigin(old, Subject(e)) \/ AtDestination(old, Subject(e))
        BY <1>2, <2>5, <3>1
      <4>2. old.status \in EditableStatuses /\ ~old.isDeleted  BY <2>2 DEF Editable
      <4>3. "member" \in DOMAIN e => called[e.member].email = e.email
        BY <1>4, <3>1 DEF Tells
      <4> QED  BY <2>5, <4>1, <4>2, <4>3 DEF Concerns
    <3> QED  BY <2>6, <3>1
  <2>9. /\ here => old.origin = x
        /\ old.origin = x /\ x \notin renamed => here
        /\ there => old.destination = x
        /\ old.destination = x /\ x \notin renamed => there
    BY <2>4, <2>5 DEF AtOrigin, AtDestination, CalledFits, CalledAsNow, CalledAt
  <2>10. PICK a, b, c, d, f, l :
            /\ a = old.origin /\ c = old.originComplete /\ f = sh.originComplete
            /\ b = old.destination /\ d = old.destinationComplete
            /\ l = sh.destinationComplete
    OBVIOUS
  <2>11. Agrees(a, c) /\ Agrees(b, d)  BY <2>4, <2>10 DEF DetailsAgree
  <2>12. Agrees(a, f)'
    <3>1. f = IF told /\ here THEN v ELSE c  BY <2>7, <2>10
    <3> QED  BY <1>12, <2>6, <2>8, <2>9, <2>10, <2>11, <3>1
  <2>13. Agrees(b, l)'
    <3>1. l = IF told /\ there THEN v ELSE d  BY <2>7, <2>10
    <3> QED  BY <1>12, <2>6, <2>8, <2>9, <2>10, <2>11, <3>1
  <2>14. DetailsAgree(sh)'
    <3>1. sh.origin = a /\ sh.destination = b  BY <2>2, <2>10 DEF SameEnds
    <3> QED  BY <2>10, <2>12, <2>13, <3>1 DEF DetailsAgree, Agrees
  <2> QED  BY <2>1, <2>14 DEF DetailsAgree, Agrees
<1>14. EventsCurrent'
  <2> SUFFICES ASSUME NEW m \in DOMAIN events', "member" \notin DOMAIN events'[m]
               PROVE  events'[m].complete = complete'[events'[m].office]
    BY DEF EventsCurrent
  <2>1. PICK j \in DOMAIN events : events'[m] = events[j]  BY <1>8
  <2>2. events[j].complete = complete[events[j].office]
    BY <2>1 DEF DetailsInv, EventsCurrent
  <2> QED  BY <1>3, <2>1, <2>2
<1> QED  BY <1>13, <1>14

LEMMA DetailsStep ==
    ASSUME FlagsAssumption, DetailsAssumption, TypeInv, CalledInv, FlagsInv, DetailsInv,
           [Next]_vars
    PROVE  DetailsInv'
<1>1. ASSUME NEW r \in Requests, Step(r) PROVE DetailsInv'
  <2>1. \A q \in Requests : ChecksCurrent(requests[q])'  BY <1>1, ChecksStep
  <2>2. DetailsKnown' /\ EventsCurrent'
    <3>1. CASE UpdateMember(r) \/ UpdateOffice(r) \/ UpdateDefaultOffice(r)
      BY <3>1, AddressSteps
    <3>2. CASE ~(UpdateMember(r) \/ UpdateOffice(r) \/ UpdateDefaultOffice(r))
      <4>1. UNCHANGED <<complete, events>>  BY <1>1, <3>2, AddressesStay
      <4>2. EventsCurrent'  BY <4>1, CurrentStays DEF DetailsInv
      <4>3. CASE Create(r)  BY <4>2, <4>3, CreateKnown
      <4>4. CASE ~Create(r)
        <5>1. ~Patch(r)  BY DEF FlagsAssumption, Patch, Starts
        <5>2. DetailsStay /\ EditableStays /\ NamesStay
          BY <1>1, <3>2, <4>4, <5>1, DetailsStaySteps, EditableStaysSteps, NamesStaySteps
        <5> QED  BY <4>1, <4>2, <5>2, KnownStays DEF DetailsInv
      <4> QED  BY <4>3, <4>4
    <3> QED  BY <3>1, <3>2
  <2> QED  BY <2>1, <2>2 DEF DetailsInv
<1>2. CASE HandleEvent /\ UNCHANGED <<complete, requests>>
  <2>1. DetailsKnown' /\ EventsCurrent'  BY <1>2, EventKnown
  <2>2. Steady  BY <1>2, EventSteady
  <2> SUFFICES ASSUME NEW r \in Requests PROVE ChecksCurrent(requests[r])'
    BY <2>1 DEF DetailsInv
  <2>3. PICK s : s = requests[r] /\ s = requests'[r]  BY <1>2
  <2>4. ChecksCurrent(s)  BY <2>3 DEF DetailsInv
  <2>5. s.pc \in {"loaded", "redating"} => s.shipment \in DOMAIN shipments
    BY <2>3 DEF FlagsInv, RequestHolds, SeenSound
  <2>6. ChecksCurrent(s)'
    BY <1>2, <2>2, <2>4, <2>5 DEF ChecksCurrent, Steady, AddressComplete, Editable
  <2> QED  BY <2>3, <2>6 DEF ChecksCurrent
<1>3. CASE UNCHANGED vars
  BY <1>3 DEF vars, DetailsInv, DetailsKnown, EventsCurrent, ChecksCurrent, DetailsAgree,
     Agrees, Awaited, Tells, AddressComplete
<1> QED  BY <1>1, <1>2, <1>3, NextSteps

LEMMA DetailsInit == Init => DetailsInv
<1> SUFFICES ASSUME Init PROVE DetailsInv  OBVIOUS
<1>1. DOMAIN shipments = {} /\ DOMAIN events = {}  BY DEF Init
<1>2. \A r \in Requests : requests[r].pc = "idle"  BY DEF Init, Idle
<1> QED  BY <1>1, <1>2 DEF DetailsInv, DetailsKnown, EventsCurrent, ChecksCurrent

\* Once no request is in flight and no event is waiting, a shipment under way has its
\* products at its ends, and one that can still be edited has the addresses of its ends:
\* an address changes unannounced only if its member is in no such shipment, and every
\* event brings all of them up to date. Left out are the addresses of members who were
\* given another name or e-mail while flagged: the listener may not find their shipments.
\* One request at a time, beside the listeners.
THEOREM DescribesEndsAlways ==
    FlagsAssumption /\ TravelAssumption /\ DetailsAssumption
        => (Spec => []ShipmentDescribesEnds)
<1> SUFFICES ASSUME FlagsAssumption, TravelAssumption, DetailsAssumption
             PROVE  Spec => []ShipmentDescribesEnds
  OBVIOUS
<1>1. TravelInv => CarriedBetweenEnds
  BY DEF TravelInv, PlacesSound, CarriedBetweenEnds, ActiveShipmentsOf
<1>2. DetailsInv => DetailsFresh
  BY DEF DetailsInv, DetailsKnown, DetailsFresh, DetailsAgree, Agrees, Awaited, Quiet
<1>3. Init => FlagsSound /\ DetailsInv
  BY InitType, HoldersInit, CalledInit, FlagsInit, DetailsInit DEF FlagsSound
<1>4. FlagsSound /\ DetailsInv /\ [Next]_vars => (FlagsSound /\ DetailsInv)'
  BY FlagsSoundStep, DetailsStep DEF FlagsSound
<1>5. Spec => [](FlagsSound /\ DetailsInv)  BY <1>3, <1>4, PTL DEF Spec
<1>6. Spec => [](TypeInv /\ HoldersInv /\ TravelInv)  BY TravelSpec
<1>7. CarriedBetweenEnds /\ DetailsFresh => ShipmentDescribesEnds
  BY DEF ShipmentDescribesEnds
<1> QED  BY <1>1, <1>2, <1>5, <1>6, <1>7, PTL

=============================================================================
