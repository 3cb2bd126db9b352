------------------------------ MODULE Shipments ------------------------------
(***************************************************************************)
(* The life of a shipment in one tenant, from src/src/shipments,           *)
(* src/src/logistics, src/src/superadmin and src/src/assignments.          *)
(*                                                                         *)
(* A shipment carries products between two places (a member, an office or  *)
(* the FP warehouse). Three copies of "is something under way?" are kept   *)
(* beside the shipments collection and are maintained by hand: the         *)
(* activeShipment flag and the status of every product, the activeShipment *)
(* flag of every member and the activeShipments flag of every office. Each *)
(* HTTP request is a chain of database calls with an await between any     *)
(* two, so a request is modelled as a little process: one action per call  *)
(* or, where the code opens a MongoDB transaction, one per transaction.    *)
(***************************************************************************)
EXTENDS Naturals, FiniteSets, Sequences, Functions

CONSTANTS
    Products,      \* asset ids
    Members,       \* employees; also the place "with that employee"
    Offices,       \* offices; also the place "in that office"
    FPWarehouse,   \* the one place called "FP warehouse"
    Dates,         \* desirable dates (both ends of a shipment, taken together)
    Requests,      \* HTTP requests that may be in flight at the same time
    Operations,    \* the kinds of request a run lets users issue
    SetStatuses,   \* the statuses a superadmin picks from
    MaxNames,      \* bound: other names, and other e-mails, a member may take
    MaxShipments,  \* bound: shipments ever created
    MaxEvents      \* bound: address events waiting for their listener

Pool   == Offices \cup {FPWarehouse}      \* kept in the products collection
Places == Pool \cup Members               \* a member's products are embedded

OnHold        == "On Hold - Missing Data"
InPreparation == "In Preparation"
OnTheWay      == "On The Way"
Received      == "Received"
Cancelled     == "Cancelled"

ShipmentStatuses == {OnHold, InPreparation, OnTheWay, Received, Cancelled}
ActiveStatuses   == {OnHold, InPreparation, OnTheWay}
EditableStatuses == {OnHold, InPreparation}

Available   == "Available"
Delivered   == "Delivered"
InTransit   == "In Transit"
MissingData == "In Transit - Missing Data"

ProductStatuses == {Available, Delivered, InTransit, MissingData}

OperationKinds ==
    {"assign", "transfer", "return", "relocate", "move", "reschedule",
     "cancel", "setStatus", "patch", "member", "office", "default", "crash"}

ASSUME ConstantsAssumption ==
    /\ Operations \subseteq OperationKinds
    /\ SetStatuses \subseteq ShipmentStatuses
    /\ MaxNames \in Nat /\ MaxShipments \in Nat /\ MaxEvents \in Nat
    /\ Members \cap Pool = {} /\ FPWarehouse \notin Offices

VARIABLES
    shipments,   \* the shipments collection, in order of creation
    products,    \* every product, wherever it is stored
    flagged,     \* activeShipment of members, activeShipments of offices
    complete,    \* is the stored address of this member or office complete?
    called,      \* the full name and the e-mail of every member
    events,      \* address events emitted and not yet handled, oldest first
    requests,    \* what every request is doing
    renamed      \* history, for the properties: members who were given another
                 \* name or e-mail while their activeShipment flag was up

vars == <<shipments, products, flagged, complete, called, events, requests,
          renamed>>

-----------------------------------------------------------------------------
\* Values.

\* Shipments do not refer to a member by an id: origin and destination hold the
\* full name, the details an e-mail, as they were when the shipment was made.
\* Names and e-mails are numbered for each member. No two members share one,
\* at any time, but a member may go back to a former one.
Names == 0 .. MaxNames
Called == [name : Names, email : Names]
Unnamed == [name |-> 0, email |-> 0]
CalledAt(x) == IF x \in Members THEN called[x] ELSE Unnamed

Shipment ==
    [status : ShipmentStatuses, isDeleted : BOOLEAN,
     origin : Places, destination : Places, date : Dates,
     originCalled : Called, destinationCalled : Called,
     originComplete : BOOLEAN, destinationComplete : BOOLEAN,
     products : Seq(Products)]

\* holders: the documents that contain the product. One, if all is well; the
\* flags and the status of several copies are not told apart.
Product ==
    [holders : SUBSET Places, status : ProductStatuses,
     activeShipment : BOOLEAN, fp_shipment : BOOLEAN]

Carried(sh) == Range(sh.products)
Ends(sh)    == {sh.origin, sh.destination}
Active(sh)  == sh.status \in ActiveStatuses /\ ~sh.isDeleted
Editable(sh) == sh.status \in EditableStatuses /\ ~sh.isDeleted

\* The counts the services take: shipments that involve a member or an office,
\* shipments that carry a product.
HasActiveShipments(x) ==
    \E s \in DOMAIN shipments : Active(shipments[s]) /\ x \in Ends(shipments[s])
ActiveShipmentsOf(p) ==
    {s \in DOMAIN shipments :
        Active(shipments[s]) /\ p \in Carried(shipments[s])}

\* How a shipment knows a member: by a name, by an e-mail.
HasName(sh, m, name) ==
    \/ sh.origin = m /\ sh.originCalled.name = name
    \/ sh.destination = m /\ sh.destinationCalled.name = name
HasEmail(sh, m, email) ==
    \/ sh.origin = m /\ sh.originCalled.email = email
    \/ sh.destination = m /\ sh.destinationCalled.email = email

\* areShipmentDetailsComplete of both ends, from the copies of the addresses
\* that the shipment itself holds.
DetailsComplete(sh)  == sh.originComplete /\ sh.destinationComplete
StatusFromDetails(sh) == IF DetailsComplete(sh) THEN InPreparation ELSE OnHold

\* isLocationDataComplete: the FP warehouse always is.
AddressComplete(x) == x = FPWarehouse \/ complete[x]

\* Where a lookup finds the product: the products collection, then the members.
Visible(p) ==
    LET pooled == products[p].holders \cap Pool
    IN  IF pooled # {} THEN pooled ELSE products[p].holders

\* determineProductStatus for a product that is not being shipped.
RestStatus(x) == IF x \in Members THEN Delivered ELSE Available
\* Mutant: the product gets the status of the shipment itself.
ShippedStatusCopied(status) == status

\* The status maybeCreateShipmentAndUpdateStatus gives a product it ships.
ShippedStatus(status) == IF status = OnHold THEN MissingData ELSE InTransit

ToInTransit(prod) ==
    IF prod.status = MissingData THEN [prod EXCEPT !.status = InTransit] ELSE prod
ToMissingData(prod) ==
    IF prod.status = InTransit THEN [prod EXCEPT !.status = MissingData] ELSE prod

-----------------------------------------------------------------------------
\* Requests. After its main write a request works through a list of follow-up
\* tasks; each reads, awaits, and then writes what it concluded from the read.

Idle == [pc |-> "idle"]

\* "member" counts the shipments with an e-mail, "owner" those with it or the
\* name of the member it belongs to.
Tasks ==
    [kind : {"office"}, on : Offices]
      \cup [kind : {"member", "owner"}, on : Members, email : Names]
      \cup [kind : {"release", "receive", "unlock", "holder", "toInTransit"},
            on : Products]

OfficeTask(x) == IF x \in Offices THEN <<[kind |-> "office", on |-> x]>> ELSE <<>>
OfficeTasks(sh) == OfficeTask(sh.origin) \o OfficeTask(sh.destination)
MemberTask(x, email) ==
    IF x \in Members THEN <<[kind |-> "member", on |-> x, email |-> email]>>
                     ELSE <<>>
MemberTasks(sh) ==
    MemberTask(sh.origin, sh.originCalled.email)
      \o MemberTask(sh.destination, sh.destinationCalled.email)

\* Mutant: the products of the shipment are forgotten.
ProductTasksNone(kind, sh) == <<>>

ProductTasks(kind, sh) ==
    [i \in DOMAIN sh.products |-> [kind |-> kind, on |-> sh.products[i]]]

\* What an assignment still owes after its first transaction: at most one
\* settlement, kept in a sequence.
Settlements ==
    [product : Products, from : Places, to : Places, status : ProductStatuses,
     toFlagged : BOOLEAN]

\* got: what the task at the head of the list has read, if it has read.
Readings ==
    [some : BOOLEAN] \cup [at : Places, email : Names, product : Product]

Prepared ==
    [pc : {"prepared"}, product : Products, from : Places, to : Places,
     date : Dates, seen : Product, fromCalled : Called, toCalled : Called,
     fromComplete : BOOLEAN, toComplete : BOOLEAN, toFlagged : BOOLEAN]
Loaded ==
    [pc : {"loaded"}, op : {"cancel", "setStatus", "reschedule"},
     shipment : Nat, seen : Shipment]
Merging ==
    [pc : {"merging"}, shipment : Nat, seen : Shipment, date : Dates,
     target : Nat, targetProducts : Seq(Products)]
Redating ==
    [pc : {"redating"}, shipment : Nat, seen : Shipment, date : Dates]
Merged == [pc : {"merged"}, shipment : Nat, date : Dates]
OfficeChecked == [pc : {"officeChecked"}, office : Offices]
Following ==
    [pc : {"followUp"}, op : OperationKinds, tasks : Seq(Tasks),
     settle : Seq(Settlements), got : Seq(Readings)]

RequestStates ==
    {Idle} \cup Prepared \cup Loaded \cup Merging \cup Redating \cup Merged
       \cup OfficeChecked \cup Following

Become(r, state) == requests' = [requests EXCEPT ![r] = state]
Starts(r, op)    == op \in Operations /\ requests[r] = Idle

FollowUp(r, op, tasks, settle) ==
    Become(r, IF tasks = <<>> /\ settle = <<>> THEN Idle
              ELSE [pc |-> "followUp", op |-> op, tasks |-> tasks,
                    settle |-> settle, got |-> <<>>])

Init ==
    /\ shipments = <<>>
    /\ \E home \in [Products -> Places] :
          products = [p \in Products |->
              [holders |-> {home[p]}, status |-> RestStatus(home[p]),
               activeShipment |-> FALSE, fp_shipment |-> FALSE]]
    /\ flagged = [x \in Members \cup Offices |-> FALSE]
    /\ complete \in [Members \cup Offices -> BOOLEAN]
    /\ called = [m \in Members |-> Unnamed]
    /\ events = <<>>
    /\ requests = [r \in Requests |-> Idle]
    /\ renamed = {}

-----------------------------------------------------------------------------
\* Moving a product: PATCH /products, ProductsService.update.

MoveKind(from, to) ==
    CASE from \in Pool    /\ to \in Members -> "assign"
      [] from \in Pool    /\ to \in Pool    -> "transfer"
      [] from \in Members /\ to \in Pool    -> "return"
      [] from \in Members /\ to \in Members -> "relocate"

\* Mutant: the activeShipment guard is dropped.
MayChangeAlways(p, from) == p \in Products

\* A pool product must not be in a shipment at all.
MayLeavePool(p) == ~products[p].activeShipment

\* The product of an employee may, unless the shipment that is looked up for
\* it, any of those it is in, is on its way.
MayLeaveMember(p) ==
    \/ ~products[p].activeShipment
    \/ ActiveShipmentsOf(p) = {}
    \/ \E s \in ActiveShipmentsOf(p) : shipments[s].status # OnTheWay

MayChange(p, from) == IF from \in Pool THEN MayLeavePool(p) ELSE MayLeaveMember(p)

\* The reads of an update with fp_shipment: the product, the new member and
\* both addresses.
Prepare(r) ==
    \E p \in Products, to \in Places, date \in Dates :
      \E from \in Visible(p) \ {to} :
        /\ Starts(r, MoveKind(from, to))
        /\ MayChange(p, from)
        /\ Become(r, [pc |-> "prepared", product |-> p, from |-> from,
                      to |-> to, date |-> date, seen |-> products[p],
                      fromCalled |-> CalledAt(from), toCalled |-> CalledAt(to),
                      fromComplete |-> AddressComplete(from),
                      toComplete |-> AddressComplete(to),
                      toFlagged |-> to \in Members /\ flagged[to]])
        /\ UNCHANGED <<shipments, products, flagged, complete, called, events, renamed>>

\* The documents that hold the product after a move: inserted here, deleted
\* there. A move into a member's document deletes any pool document.
Moved(p, from, to) ==
    (products[p].holders \ (IF to \in Members THEN Pool \cup {from} ELSE {from}))
       \cup {to}

\* The product at the end of the first transaction. A pool product keeps its
\* place when it goes to a member and moves when it goes elsewhere. Saving an
\* embedded product saves nothing: only markActiveShipmentTargets reaches it.
Committed(p, from, to, created) ==
    LET prod == products[p]
    IN  CASE MoveKind(from, to) = "assign" ->
               [prod EXCEPT !.activeShipment = TRUE, !.fp_shipment = TRUE]
          [] MoveKind(from, to) = "relocate" ->
               [prod EXCEPT !.activeShipment = created \/ @]
          [] MoveKind(from, to) = "return" ->
               [holders |-> Moved(p, from, to), status |-> InTransit,
                activeShipment |-> TRUE, fp_shipment |-> TRUE]
          [] MoveKind(from, to) = "transfer" ->
               [holders |-> Moved(p, from, to), status |-> Available,
                activeShipment |-> TRUE, fp_shipment |-> TRUE]

\* The shipments a product may join: on the same date, between the same names.
Consolidatable(from, fromCalled, to, toCalled, date) ==
    {s \in DOMAIN shipments :
        /\ Editable(shipments[s]) /\ shipments[s].date = date
        /\ shipments[s].origin = from /\ shipments[s].destination = to
        /\ shipments[s].originCalled.name = fromCalled.name
        /\ shipments[s].destinationCalled.name = toCalled.name}

Settlement(s, status) ==
    <<[product |-> s.product, from |-> s.from, to |-> s.to,
       status |-> ShippedStatus(status), toFlagged |-> s.toFlagged]>>

\* The transaction saves the product, so it is aborted if another one has since the
\* product was read.
NoConflict(s) == products[s.product] = s.seen

\* findOrCreateShipment finds one: the product joins it.
Consolidate(r) ==
    LET s == requests[r] IN
    /\ s.pc = "prepared" /\ NoConflict(s)
    /\ \E t \in Consolidatable(s.from, s.fromCalled, s.to, s.toCalled, s.date) :
         LET joins == s.product \notin Carried(shipments[t])
             prod  == Committed(s.product, s.from, s.to, FALSE)
         IN  /\ shipments' = [shipments EXCEPT ![t].products =
                    IF joins THEN Append(@, s.product) ELSE @]
             /\ products' = [products EXCEPT ![s.product] =
                    IF joins /\ shipments[t].status = InPreparation
                    THEN ToInTransit(prod) ELSE prod]
             /\ FollowUp(r, MoveKind(s.from, s.to), <<>>,
                         Settlement(s, shipments[t].status))
    /\ UNCHANGED <<flagged, complete, called, events, renamed>>

\* findOrCreateShipment creates one. The transaction writes the members at its
\* ends, so it cannot commit over a change of their addresses, names or e-mails;
\* it does not write the offices.
Create(r) ==
    LET s  == requests[r]
        sh == [status |-> IF s.fromComplete /\ s.toComplete THEN InPreparation
                                                            ELSE OnHold,
               isDeleted |-> FALSE, origin |-> s.from, destination |-> s.to,
               date |-> s.date, originCalled |-> s.fromCalled,
               destinationCalled |-> s.toCalled,
               originComplete |-> s.fromComplete,
               destinationComplete |-> s.toComplete, products |-> <<s.product>>]
        prod == Committed(s.product, s.from, s.to, TRUE)
    IN
    /\ s.pc = "prepared" /\ NoConflict(s)
    /\ s.from \in Members =>
          complete[s.from] = s.fromComplete /\ called[s.from] = s.fromCalled
    /\ s.to \in Members =>
          /\ complete[s.to] = s.toComplete /\ called[s.to] = s.toCalled
          /\ flagged[s.to] = s.toFlagged
    /\ Consolidatable(s.from, s.fromCalled, s.to, s.toCalled, s.date) = {}
    /\ Len(shipments) < MaxShipments
    /\ shipments' = Append(shipments, sh)
    /\ products' = [products EXCEPT ![s.product] =
           IF sh.status = InPreparation THEN ToInTransit(prod) ELSE prod]
    /\ flagged' = [x \in DOMAIN flagged |->
           flagged[x] \/ x \in Ends(sh) \cap Members]
    /\ FollowUp(r, MoveKind(s.from, s.to), OfficeTasks(sh),
                Settlement(s, sh.status))
    /\ UNCHANGED <<complete, called, events, renamed>>

\* A transaction that lost a write conflict, or failed before its first commit.
Abort(r) ==
    /\ requests[r].pc = "prepared"
    /\ Become(r, Idle)
    /\ UNCHANGED <<shipments, products, flagged, complete, called, events, renamed>>

\* Mutant: nobody notices that the pool document is gone.
MissesNever(todo) == todo.to \notin Places

\* The second transaction saves the pool document that the first one read.
Misses(todo) ==
    /\ MoveKind(todo.from, todo.to) # "relocate"
    /\ products[todo.product].holders \cap Pool = {}

\* The second transaction: the status, and the move into a member's document.
\* Without the document to save it aborts, and what the first transaction
\* committed stays. The member's flag is saved only if it was down when the
\* member was read.
Settle(r) ==
    LET todo == requests[r].settle[1] IN
    /\ requests[r].pc = "followUp" /\ requests[r].tasks = <<>>
    /\ IF Misses(todo) \/ todo.to \in Pool
       THEN /\ products' = IF Misses(todo) THEN products ELSE
                  [products EXCEPT ![todo.product].status = todo.status]
            /\ UNCHANGED flagged
       ELSE /\ products' = [products EXCEPT ![todo.product] =
                  [holders |-> Moved(todo.product, todo.from, todo.to),
                   status |-> todo.status,
                   activeShipment |-> TRUE, fp_shipment |-> TRUE]]
            /\ flagged' = [flagged EXCEPT ![todo.to] = @ \/ ~todo.toFlagged]
    /\ Become(r, Idle)
    /\ UNCHANGED <<shipments, complete, called, events, renamed>>

\* An update without fp_shipment, one transaction. normalizeFpShipmentFlag
\* turns it into the other kind if the product still says fp_shipment.
Move(r) ==
    \E p \in Products, to \in Places :
      \E from \in Visible(p) \ {to} :
        /\ Starts(r, "move")
        /\ MayChange(p, from) /\ ~products[p].fp_shipment
        /\ products' = [products EXCEPT ![p] =
              [holders |-> Moved(p, from, to), status |-> RestStatus(to),
               activeShipment |-> FALSE, fp_shipment |-> FALSE]]
        /\ UNCHANGED <<shipments, flagged, complete, called, events,
                     requests, renamed>>

-----------------------------------------------------------------------------
\* Cancelling, rescheduling, and the superadmin's status: load, check, write.
\* What is written is written blindly: the status is not checked again.

\* Mutant: the status of the shipment is not checked.
ChangeableAlways(op) == IF op = "cancel" THEN ShipmentStatuses ELSE EditableStatuses

\* The statuses in which each of them lets a shipment be changed.
Changeable(op) ==
    IF op = "setStatus" THEN {InPreparation, OnTheWay} ELSE EditableStatuses

Load(r) ==
    \E op \in {"cancel", "setStatus", "reschedule"}, s \in DOMAIN shipments :
        /\ Starts(r, op)
        /\ ~shipments[s].isDeleted
        /\ shipments[s].status \in Changeable(op)
        /\ Become(r, [pc |-> "loaded", op |-> op, shipment |-> s,
                      seen |-> shipments[s]])
        /\ UNCHANGED <<shipments, products, flagged, complete, called, events, renamed>>

\* ShipmentsService.cancel, then cancelShipmentWithConsequences.
Cancel(r) ==
    LET s == requests[r] IN
    /\ s.pc = "loaded" /\ s.op = "cancel"
    /\ shipments' = [shipments EXCEPT ![s.shipment].status = Cancelled]
    /\ FollowUp(r, "cancel",
                OfficeTasks(s.seen)
                  \o ProductTasks("release", s.seen)
                  \o MemberTasks(s.seen), <<>>)
    /\ UNCHANGED <<products, flagged, complete, called, events, renamed>>

\* SuperAdminService.updateShipmentStatus. Only an end of the shipment's life
\* reaches the products and the members.
SetStatus(r) ==
    LET s == requests[r] IN
    /\ s.pc = "loaded" /\ s.op = "setStatus"
    /\ \E new \in SetStatuses :
         /\ shipments' = [shipments EXCEPT ![s.shipment].status =
                IF new # s.seen.status THEN new ELSE @]
         /\ FollowUp(r, "setStatus",
                OfficeTasks(s.seen)
                  \o (IF new \in ActiveStatuses THEN <<>> ELSE
                        ProductTasks(IF new = Received THEN "receive"
                                                       ELSE "release", s.seen)
                          \o MemberTasks(s.seen)), <<>>)
    /\ UNCHANGED <<products, flagged, complete, called, events, renamed>>

\* SuperAdminService.updateShipment of the older super-admin API, for a body
\* that names a status: nothing is checked and nothing follows.
Patch(r) ==
    \E s \in DOMAIN shipments, new \in SetStatuses :
      /\ Starts(r, "patch")
      /\ ~shipments[s].isDeleted
      /\ shipments' = [shipments EXCEPT ![s].status = new]
      /\ UNCHANGED <<products, flagged, complete, called, events,
                     requests, renamed>>

\* findConsolidateAndUpdateShipment looks for a shipment to merge into.
FindTarget(r) ==
    LET s == requests[r]
        others(date) ==
            Consolidatable(s.seen.origin, s.seen.originCalled,
                           s.seen.destination, s.seen.destinationCalled, date)
               \ {s.shipment}
    IN
    /\ s.pc = "loaded" /\ s.op = "reschedule"
    /\ \E date \in Dates :
         \/ /\ others(date) = {}
            /\ Become(r, [pc |-> "redating", shipment |-> s.shipment,
                          seen |-> s.seen, date |-> date])
         \/ \E t \in others(date) :
              Become(r, [pc |-> "merging", shipment |-> s.shipment,
                         seen |-> s.seen, date |-> date, target |-> t,
                         targetProducts |-> shipments[t].products])
    /\ UNCHANGED <<shipments, products, flagged, complete, called, events, renamed>>

\* Mutant: the shipment is deleted before its products are in the other one.
SaveTargetSecond(r) ==
    LET s == requests[r] IN
    /\ s.pc = "merging"
    /\ shipments' = [shipments EXCEPT ![s.shipment].isDeleted = TRUE]
    /\ Become(r, [pc |-> "merged", shipment |-> s.shipment, date |-> s.date])
    /\ UNCHANGED <<products, flagged, complete, called, events, renamed>>

\* The first save of a merge: the target takes the products. The save carries
\* the whole snapshots array, so it fails if another save has changed an array
\* of the target; its status is not looked at. In which order the products are
\* added is left open.
SaveTarget(r) ==
    LET s     == requests[r]
        lacks == Carried(s.seen) \ Range(s.targetProducts)
    IN
    /\ s.pc = "merging"
    /\ IF shipments[s.target].products = s.targetProducts
       THEN /\ \E n \in 0 .. Len(s.seen.products) : \E adds \in [1 .. n -> lacks] :
                 /\ IsInjective(adds) /\ Range(adds) = lacks
                 /\ shipments' = [shipments EXCEPT ![s.target].products = @ \o adds]
            /\ Become(r, [pc |-> "merged", shipment |-> s.shipment,
                          date |-> s.date])
       ELSE UNCHANGED shipments /\ Become(r, Idle)
    /\ UNCHANGED <<products, flagged, complete, called, events, renamed>>

\* Mutant: the merged shipment stays.
DeleteMergedKeeps(r) ==
    /\ requests[r].pc = "merged"
    /\ Become(r, Idle)
    /\ UNCHANGED <<shipments, products, flagged, complete, called, events, renamed>>

\* The second save of a merge: the shipment itself goes.
DeleteMerged(r) ==
    LET s == requests[r] IN
    /\ s.pc = "merged"
    /\ shipments' = [shipments EXCEPT ![s.shipment].isDeleted = TRUE,
                                    ![s.shipment].date = s.date]
    /\ Become(r, Idle)
    /\ UNCHANGED <<products, flagged, complete, called, events, renamed>>

\* Nothing to merge into: the new date, and the status the details give.
Redate(r) ==
    LET s   == requests[r]
        new == StatusFromDetails(s.seen)
    IN
    /\ s.pc = "redating"
    /\ shipments' = [shipments EXCEPT
           ![s.shipment].date = s.date,
           ![s.shipment].status = IF new # s.seen.status THEN new ELSE @]
    /\ FollowUp(r, "reschedule",
           IF new = s.seen.status THEN <<>> ELSE
             OfficeTasks(s.seen)
               \o (IF new = InPreparation THEN ProductTasks("toInTransit", s.seen)
                                          ELSE <<>>), <<>>)
    /\ UNCHANGED <<products, flagged, complete, called, events, renamed>>

-----------------------------------------------------------------------------
\* The follow-up of a write, one task after the other.

HeadTask(r) == requests[r].tasks[1]

\* Mutant: the task is not taken off the list.
DoneAgain(r, more) ==
    LET s == requests[r] IN FollowUp(r, s.op, more \o s.tasks, s.settle)

\* The head task is over; "more" come next.
Done(r, more) ==
    LET s == requests[r] IN
    FollowUp(r, s.op, more \o Tail(s.tasks), s.settle)

Working(r, kinds) ==
    /\ requests[r].pc = "followUp" /\ requests[r].tasks # <<>>
    /\ HeadTask(r).kind \in kinds

Got(r, reading) == Become(r, [requests[r] EXCEPT !.got = <<reading>>])

\* updateActiveShipmentsFlag counts the shipments of an office,
\* clearMemberActiveShipmentFlagIfNoOtherShipments those that hold an e-mail and
\* clearActiveShipmentFlagsIfNoOtherShipments those of a product, and then those
\* of the member with an e-mail, if there still is one. All but the first go on
\* only if there are none.
None(task) ==
    CASE task.kind = "office" -> ~HasActiveShipments(task.on)
      [] task.kind = "unlock" -> ActiveShipmentsOf(task.on) = {}
      [] task.kind = "member" ->
           ~ \E s \in DOMAIN shipments :
                Active(shipments[s]) /\ HasEmail(shipments[s], task.on, task.email)
      [] task.kind = "owner" ->
           /\ called[task.on].email = task.email
           /\ ~ \E s \in DOMAIN shipments :
                   /\ Active(shipments[s])
                   /\ \/ HasEmail(shipments[s], task.on, task.email)
                      \/ HasName(shipments[s], task.on, called[task.on].name)

Count(r) ==
    LET none == None(HeadTask(r)) IN
    /\ Working(r, {"office", "member", "owner", "unlock"})
    /\ requests[r].got = <<>>
    /\ IF HeadTask(r).kind = "office" \/ none THEN Got(r, [some |-> ~none])
                                              ELSE Done(r, <<>>)
    /\ UNCHANGED <<shipments, products, flagged, complete, called, events, renamed>>

\* What the count led to. A member is written by e-mail, so not at all if that
\* is no longer the e-mail of the member.
Reached(task) ==
    task.kind \in {"member", "owner"} => called[task.on].email = task.email

WriteFlag(r) ==
    LET task == HeadTask(r) IN
    /\ Working(r, {"office", "member", "owner", "unlock"})
    /\ requests[r].got # <<>>
    /\ IF task.kind = "unlock"
       THEN /\ products' = [products EXCEPT ![task.on].activeShipment = FALSE]
            /\ UNCHANGED flagged
       ELSE /\ flagged' = [flagged EXCEPT ![task.on] =
                  IF Reached(task) THEN requests[r].got[1].some ELSE @]
            /\ UNCHANGED products
    /\ Done(r, <<>>)
    /\ UNCHANGED <<shipments, complete, called, events, renamed>>

\* clearActiveShipmentFlagsIfNoOtherShipments without an e-mail: that of the
\* member that has the product now.
FindHolder(r) ==
    LET owners == products[HeadTask(r).on].holders \cap Members IN
    /\ Working(r, {"holder"})
    /\ IF owners = {} THEN Done(r, <<>>)
       ELSE \E m \in owners : 
            Done(r, <<[kind |-> "owner", on |-> m, email |-> called[m].email]>>)
    /\ UNCHANGED <<shipments, products, flagged, complete, called, events, renamed>>

\* cancelAllProductsInShipment, updateProductOnShipmentReceived and
\* updateProductStatusToInTransit look the product up.
ReadProduct(r) ==
    LET p == HeadTask(r).on IN
    /\ Working(r, {"release", "receive", "toInTransit"})
    /\ requests[r].got = <<>>
    /\ \E x \in Visible(p) :
          Got(r, [at |-> x, email |-> CalledAt(x).email, product |-> products[p]])
    /\ UNCHANGED <<shipments, products, flagged, complete, called, events, renamed>>

\* What becomes of the product: on its way, or at rest and free.
Changed(kind, prod, at) ==
    IF kind = "toInTransit" THEN ToInTransit(prod)
    ELSE [prod EXCEPT !.status = RestStatus(at),
                      !.activeShipment = FALSE, !.fp_shipment = FALSE]

\* A document that was read from the products collection is saved: only what
\* differs from the read is written, and the save fails if the document is
\* gone. An embedded product is written in whichever member has it.
Saved(kind, now, got) ==
    LET old == got.product
        new == Changed(kind, old, got.at)
    IN  IF got.at \in Members THEN Changed(kind, now, got.at)
        ELSE [holders        |-> now.holders,
              status         |-> IF new.status = old.status
                                 THEN now.status ELSE new.status,
              activeShipment |-> IF new.activeShipment = old.activeShipment
                                 THEN now.activeShipment ELSE new.activeShipment,
              fp_shipment    |-> IF new.fp_shipment = old.fp_shipment
                                 THEN now.fp_shipment ELSE new.fp_shipment]

StillThere(p, at) ==
    products[p].holders \cap (IF at \in Pool THEN Pool ELSE Members) # {}

WriteProduct(r) ==
    LET p    == HeadTask(r).on
        kind == HeadTask(r).kind
        got  == requests[r].got[1]
        unlock ==
            <<[kind |-> "unlock", on |-> p],
              IF got.at \in Members
              THEN [kind |-> "owner", on |-> got.at, email |-> got.email]
              ELSE [kind |-> "holder", on |-> p]>>
    IN
    /\ Working(r, {"release", "receive", "toInTransit"})
    /\ requests[r].got # <<>>
    /\ IF StillThere(p, got.at)
       THEN products' = [products EXCEPT ![p] = Saved(kind, @, got)]
       ELSE UNCHANGED products
    /\ IF ~StillThere(p, got.at) /\ got.at \in Pool
       THEN IF requests[r].op = "setStatus" THEN Done(r, <<>>)
            ELSE Become(r, Idle)
       ELSE Done(r, IF kind = "release" THEN unlock ELSE <<>>)
    /\ UNCHANGED <<shipments, flagged, complete, called, events, renamed>>

-----------------------------------------------------------------------------
\* Addresses.

AddressEvents ==
    [member : Members, email : Names] \cup [office : Offices, complete : BOOLEAN]

\* Mutant: only an address that is complete is worth an event.
ShouldEmitIfComplete(m, new, isComplete) == flagged[m] /\ isComplete

\* shouldEmitMemberUpdateEvent: a change of the e-mail or the address of a
\* member whose flag is up, but not a change of the name alone.
ShouldEmit(m, new, isComplete) ==
    /\ flagged[m]
    /\ new.email # called[m].email \/ isComplete # complete[m]

\* MembersService.update, for a body with any of name, e-mail and address; the
\* event carries the new e-mail. validateIfMemberCanBeModified looks for the
\* e-mail in fields that hold a full name, so it stops nobody.
UpdateMember(r) ==
    \E m \in Members, new \in Called, isComplete \in BOOLEAN :
      /\ Starts(r, "member")
      /\ Len(events) < MaxEvents
      /\ called' = [called EXCEPT ![m] = new]
      /\ complete' = [complete EXCEPT ![m] = isComplete]
      /\ events' = IF ShouldEmit(m, new, isComplete)
                   THEN Append(events, [member |-> m, email |-> new.email])
                   ELSE events
      /\ renamed' = IF flagged[m] /\ new # called[m] THEN renamed \cup {m}
                                                     ELSE renamed
      /\ UNCHANGED <<shipments, products, flagged, requests>>

\* OfficesService.updateOffice refuses while a shipment is on its way ...
CheckOffice(r) ==
    \E o \in Offices :
      /\ Starts(r, "office")
      /\ \A s \in DOMAIN shipments :
            o \in Ends(shipments[s]) /\ ~shipments[s].isDeleted
               => shipments[s].status # OnTheWay
      /\ Become(r, [pc |-> "officeChecked", office |-> o])
      /\ UNCHANGED <<shipments, products, flagged, complete, called, events, renamed>>

\* Mutant: the event carries the address as it was.
UpdateOfficeTold(r) ==
    LET o == requests[r].office IN
    /\ requests[r].pc = "officeChecked"
    /\ Len(events) < MaxEvents
    /\ complete' = [complete EXCEPT ![o] = ~@]
    /\ events' = Append(events, [office |-> o, complete |-> complete[o]])
    /\ Become(r, Idle)
    /\ UNCHANGED <<shipments, products, flagged, called, renamed>>

\* ... and then writes; the event carries the new address.
UpdateOffice(r) ==
    LET o == requests[r].office IN
    /\ requests[r].pc = "officeChecked"
    /\ Len(events) < MaxEvents
    /\ complete' = [complete EXCEPT ![o] = ~@]
    /\ events' = Append(events, [office |-> o, complete |-> complete'[o]])
    /\ Become(r, Idle)
    /\ UNCHANGED <<shipments, products, flagged, called, renamed>>

\* OfficesService.updateDefaultOffice does not look at the shipments at all.
UpdateDefaultOffice(r) ==
    \E o \in Offices :
      /\ Starts(r, "default")
      /\ Len(events) < MaxEvents
      /\ complete' = [complete EXCEPT ![o] = ~@]
      /\ events' = Append(events, [office |-> o, complete |-> complete'[o]])
      /\ UNCHANGED <<shipments, products, flagged, called, requests, renamed>>

Subject(e) == IF "member" \in DOMAIN e THEN e.member ELSE e.office

\* The ends of a shipment at which the listener finds x: a member by the full
\* name, an office by its id.
AtOrigin(sh, x) == sh.origin = x /\ sh.originCalled.name = CalledAt(x).name
AtDestination(sh, x) ==
    sh.destination = x /\ sh.destinationCalled.name = CalledAt(x).name

\* The listener copies the address of x, and the e-mail, into these ends.
Readdressed(sh, x, isComplete) ==
    [sh EXCEPT
        !.originCalled = IF AtOrigin(sh, x) THEN CalledAt(x) ELSE @,
        !.originComplete = IF AtOrigin(sh, x) THEN isComplete ELSE @,
        !.destinationCalled = IF AtDestination(sh, x) THEN CalledAt(x) ELSE @,
        !.destinationComplete = IF AtDestination(sh, x) THEN isComplete ELSE @]

\* Mutant: only the origin is brought up to date.
RefreshedOrigin(sh, x, isComplete) ==
    LET copied == [Readdressed(sh, x, isComplete) EXCEPT !.destinationComplete = sh.destinationComplete]
    IN  [copied EXCEPT !.status = StatusFromDetails(copied)]

\* Mutant: a shipment is put into preparation but never put on hold again.
RefreshedUpwards(sh, x, isComplete) ==
    LET copied == Readdressed(sh, x, isComplete)
    IN  [copied EXCEPT !.status = IF DetailsComplete(copied) THEN InPreparation ELSE @]

\* Then it recomputes the status.
Refreshed(sh, x, isComplete) ==
    LET copied == Readdressed(sh, x, isComplete)
    IN  [copied EXCEPT !.status = StatusFromDetails(copied)]

\* The shipments an event is about. checkAndUpdateShipmentsForMember looks the
\* member up by the e-mail in the event, and does not leave deleted shipments
\* out; the listener for offices does.
Concerns(e, sh) ==
    /\ sh.status \in EditableStatuses
    /\ AtOrigin(sh, Subject(e)) \/ AtDestination(sh, Subject(e))
    /\ IF "member" \in DOMAIN e THEN called[e.member].email = e.email
                                ELSE ~sh.isDeleted

\* The listeners: the one for members reads the member again, the one for
\* offices trusts the event. One transaction over every shipment that can still
\* be edited, in order of creation; the offices of a shipment whose status
\* changes are counted outside of it. Events are handled in any order.
HandleEvent ==
    \E i \in DOMAIN events :
      LET e == events[i]
          isComplete == IF "member" \in DOMAIN e THEN complete[e.member]
                                                 ELSE e.complete
          new(s) == IF Concerns(e, shipments[s])
                    THEN Refreshed(shipments[s], Subject(e), isComplete)
                    ELSE shipments[s]
          changed == {s \in DOMAIN shipments :
                         new(s).status # shipments[s].status}
          lastOf(p) == {s \in changed :
                          /\ p \in Carried(shipments[s])
                          /\ \A t \in changed :
                                p \in Carried(shipments[t]) => t <= s}
      IN
      /\ shipments' = [s \in DOMAIN shipments |-> new(s)]
      /\ products' = [p \in Products |->
            IF lastOf(p) = {} THEN products[p]
            ELSE IF \E s \in lastOf(p) : new(s).status = InPreparation
                 THEN ToInTransit(products[p]) ELSE ToMissingData(products[p])]
      /\ flagged' = [y \in DOMAIN flagged |->
            IF y \in Offices /\ \E s \in changed : y \in Ends(shipments[s])
            THEN HasActiveShipments(y) ELSE flagged[y]]
      /\ events' = [j \in 1 .. Len(events) - 1 |->
                      events[IF j < i THEN j ELSE j + 1]]
      /\ UNCHANGED <<complete, called, requests, renamed>>

-----------------------------------------------------------------------------
\* The server process dies under a request, or one of its calls fails.
Crash(r) ==
    /\ "crash" \in Operations /\ requests[r] # Idle
    /\ Become(r, Idle)
    /\ UNCHANGED <<shipments, products, flagged, complete, called, events, renamed>>

\* The steps with which a request goes on, and those that bring one in.
Continue(r) ==
    \/ Consolidate(r) \/ Create(r) \/ Settle(r)
    \/ Cancel(r) \/ SetStatus(r)
    \/ FindTarget(r) \/ SaveTarget(r) \/ DeleteMerged(r) \/ Redate(r)
    \/ Count(r) \/ WriteFlag(r) \/ FindHolder(r)
    \/ ReadProduct(r) \/ WriteProduct(r)
    \/ UpdateOffice(r)

Arrive(r) ==
    \/ Prepare(r) \/ Move(r) \/ Load(r) \/ Patch(r)
    \/ UpdateMember(r) \/ CheckOffice(r) \/ UpdateDefaultOffice(r)

Next ==
    \/ \E r \in Requests : Arrive(r) \/ Continue(r) \/ Abort(r) \/ Crash(r)
    \/ HandleEvent

Spec == Init /\ [][Next]_vars

\* Node runs every pending callback: a request that has started goes on, and
\* an emitted event reaches its listener. Nothing forces a request to arrive.
FairSpec ==
    /\ Spec
    /\ \A r \in Requests : WF_vars(Continue(r) \/ Abort(r))
    /\ WF_vars(HandleEvent)

-----------------------------------------------------------------------------
\* Properties.

\* Every variable keeps its shape.
TypeOK ==
    /\ shipments \in Seq(Shipment)
    /\ products \in [Products -> Product]
    /\ flagged \in [Members \cup Offices -> BOOLEAN]
    /\ complete \in [Members \cup Offices -> BOOLEAN]
    /\ called \in [Members -> Called]
    /\ events \in Seq(AddressEvents)
    /\ requests \in [Requests -> RequestStates]
    /\ renamed \subseteq Members

\* No request is in flight and no event is waiting.
Quiet == events = <<>> /\ \A r \in Requests : requests[r] = Idle

\* A product is in one document only. Moves between the two collections are
\* an insert and a delete, in two transactions when there is a shipment.
OneHolder == \A p \in Products : Cardinality(products[p].holders) = 1

\* No product is left in two shipments that are under way (the assignment
\* guards, cancellation and consolidation together). In the middle of a merge
\* a product is in both.
OneActiveShipmentPerProduct ==
    Quiet => \A p \in Products : Cardinality(ActiveShipmentsOf(p)) <= 1

\* A product in a shipment under way is at one of the two ends of it.
CarriedBetweenEnds ==
    \A s \in DOMAIN shipments : Active(shipments[s]) =>
        \A p \in Carried(shipments[s]) :
            products[p].holders \subseteq Ends(shipments[s])

\* The activeShipment flag of a product says whether it is in a shipment under
\* way, once everything has settled; it is what the guards look at.
ProductFlagExact ==
    Quiet => \A p \in Products :
                products[p].activeShipment <=> ActiveShipmentsOf(p) # {}

\* One half of it: a product in no shipment is not locked for ever.
ProductReleased ==
    Quiet => \A p \in Products :
                products[p].activeShipment => ActiveShipmentsOf(p) # {}

\* The status of a product follows the status of its shipment and, without
\* one, the place where the product is.
ProductStatusMatchesShipment ==
    Quiet => \A p \in Products :
        /\ \A s \in ActiveShipmentsOf(p) :
              products[p].status = ShippedStatus(shipments[s].status)
        /\ ActiveShipmentsOf(p) = {} =>
              \A x \in products[p].holders : products[p].status = RestStatus(x)

\* The flags of members and offices say whether a shipment under way involves
\* them. The address listener is called for flagged members only. Not so for a
\* member who was given another name or e-mail while the flag was up: flags are
\* cleared by the e-mail that a shipment holds.
EndFlagsExact ==
    Quiet => \A x \in (Members \ renamed) \cup Offices :
                flagged[x] <=> HasActiveShipments(x)

\* The copies of the addresses inside a shipment that can still be edited
\* agree with the members and offices they were copied from; again but for
\* renamed members, whose shipments the listener may no longer find.
DetailsFresh ==
    Quiet => \A s \in DOMAIN shipments : Editable(shipments[s]) =>
        /\ shipments[s].origin \notin renamed =>
              shipments[s].originComplete = AddressComplete(shipments[s].origin)
        /\ shipments[s].destination \notin renamed =>
              shipments[s].destinationComplete =
                 AddressComplete(shipments[s].destination)

\* A shipment is in preparation exactly when both addresses it holds are
\* complete, and on hold otherwise: a courier is only called for the former.
StatusFollowsDetails ==
    \A s \in DOMAIN shipments : Editable(shipments[s]) =>
        shipments[s].status = StatusFromDetails(shipments[s])

\* A shipment that has been received or cancelled stays so. (Patch breaks
\* this at once; it is left out of the run that says it.)
TerminalIsFinal ==
    [][\A s \in DOMAIN shipments :
          shipments[s].status \notin ActiveStatuses
             => shipments'[s].status = shipments[s].status]_vars

\* When a shipment is merged away, whatever it carried is in another one that
\* can still be edited.
MergeLosesNothing ==
    [][\A s \in DOMAIN shipments :
          shipments'[s].isDeleted /\ ~shipments[s].isDeleted =>
             \A p \in Carried(shipments[s]) :
                \E t \in DOMAIN shipments :
                   t # s /\ Editable(shipments'[t]) /\ p \in Carried(shipments'[t])]_vars

\* Once the shipment that a product travels in is on its way, the product does
\* not change hands (a move that is already under way excepted).
OnTheWayStays ==
    [][\A p \in Products :
          (\E s \in ActiveShipmentsOf(p) : shipments[s].status = OnTheWay)
             => products'[p].holders = products[p].holders]_vars

\* The address of a member is not changed while a shipment that involves the
\* member is on its way: the courier has it. validateIfMemberCanBeModified is
\* there for it.
MembersKeepAddressInTransit ==
    [][\A m \in Members :
          (\E s \in DOMAIN shipments :
              m \in Ends(shipments[s]) /\ ~shipments[s].isDeleted
                 /\ shipments[s].status = OnTheWay)
             => complete'[m] = complete[m]]_vars

\* A request that has started ends.
RequestsEnd == \A r \in Requests : requests[r] # Idle ~> requests[r] = Idle

\* A change of an address reaches the shipments that hold a copy of it: a copy
\* that is out of date is brought up to date, unless the shipment leaves
\* preparation, the address changes back or the member is renamed (the copy is
\* then left behind for good).
AddressesArrive ==
    \A s \in 1 .. MaxShipments :
        (s \in DOMAIN shipments /\ Editable(shipments[s])
           /\ shipments[s].destinationComplete
                # AddressComplete(shipments[s].destination))
        ~> (s \in DOMAIN shipments /\ (Editable(shipments[s]) =>
              \/ shipments[s].destination \in renamed
              \/ shipments[s].destinationComplete
                    = AddressComplete(shipments[s].destination)))

\* A shipment describes its ends: its products are at one of the two, and the
\* addresses in it are those the ends have.
ShipmentDescribesEnds == CarriedBetweenEnds /\ DetailsFresh

\* The flags that keep products, members and offices from being moved or deleted
\* are those of the shipments under way.
FlagsExact == ProductFlagExact /\ EndFlagsExact

\* Whatever stops moving is let go: no product stays locked without a shipment,
\* and the flags of members and offices are those of the shipments under way.
LetGo == ProductReleased /\ EndFlagsExact

=============================================================================
