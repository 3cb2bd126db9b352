------------------------------ MODULE Snapshots ------------------------------
(***************************************************************************)
(* The snapshots a shipment keeps of its products, from createSnapshots    *)
(* and hasSnapshotChanged of shipments.service.ts, from updateEntity of    *)
(* products.service.ts, which announces an edit, and from the listener     *)
(* that brings the snapshot up to date, product-updated.listener.ts and    *)
(* updateSnapshotsForProduct. One shipment, from its creation to its end.  *)
(*                                                                         *)
(* The listener handles one event of a product in two seconds and drops    *)
(* the others. It reads product and shipment, and saves later: Mongoose    *)
(* lets it replace the element of an array only if nothing was added to an *)
(* array of the shipment since (__v), and lets it add one in any case.     *)
(***************************************************************************)
EXTENDS Naturals, SequencesExt

CONSTANTS
    Products,
    Requests,     \* requests in flight
    Listeners,    \* bound: how many runs of the listener overlap
    MaxEdits,     \* bound on the edits of all products together
    None

VARIABLES
    products,     \* what the database has of every product
    shipment,     \* its status, products, snapshots and __v
    heard,        \* processedEvents: the products handled in the current two seconds
    listeners,    \* the runs of the listener
    requests,     \* what every request is doing
    behind,       \* products whose snapshot may lag (see Lagging)
    failed        \* where a request or a run of the listener failed, and of which product

state == <<products, shipment, heard, listeners, requests, behind, failed>>

Editable == {"In Preparation", "On Hold - Missing Data"}
Live     == Editable \cup {"On The Way"}
Statuses == Live \cup {"none", "ended"}

\* A product: a field that is edited and that hasSnapshotChanged compares (attributes
\* are not), where the move has brought it, and its status.
Product == [text : Nat, place : {"old", "new"},
            status : {"Available", "In Transit", "In Transit - Missing Data"}]

NoRun == [at |-> "idle", product |-> None, data |-> None, index |-> 0, version |-> 0]
NoFailure == [at |-> "idle", product |-> None]
Idle  == [at |-> "idle", product |-> None, data |-> None, active |-> FALSE]

\* activeShipment and fp_shipment of a product.
Active(p) == p \in shipment.products /\ shipment.status # "ended"

Quiet       == \A r \in Requests : requests[r] = Idle
Heeding(p)  == \E l \in Listeners : listeners[l].product = p
Free        == {l \in Listeners : listeners[l] = NoRun}
Heeded      == {p \in Products : Heeding(p)}
Do(r, c)    == requests' = [requests EXCEPT ![r] = c]
Finish(r)   == Do(r, Idle)
Run(l, c)   == listeners' = [listeners EXCEPT ![l] = c]
EndRun(l)   == Run(l, NoRun)

\* findIndex: the place of the snapshot of p, 0 if there is none.
IndexOf(p) == SelectInSeq(shipment.snapshots, LAMBDA s : s.product = p)

\* buildSnapshot.
Snapshot(p, d) == [product |-> p, data |-> d]

\* Mutant: names and prices are not compared.
HasSnapshotChangedStatus(old, new) == old.status # new.status \/ old.place # new.place

HasSnapshotChanged(old, new) ==
    old.text # new.text \/ old.status # new.status \/ old.place # new.place

Init ==
    /\ products = [p \in Products |-> [text |-> 0, place |-> "old", status |-> "Available"]]
    /\ shipment = [status |-> "none", products |-> {}, snapshots |-> <<>>, version |-> 0]
    /\ heard = {} /\ behind = {} /\ failed = NoFailure
    /\ listeners = [l \in Listeners |-> NoRun] /\ requests = [r \in Requests |-> Idle]

-----------------------------------------------------------------------------
\* A product is moved with the shipment: maybeCreateShipmentAndUpdateStatus.

NewStatus(s) == IF s = "On Hold - Missing Data" THEN "In Transit - Missing Data" ELSE "In Transit"

\* The first transaction creates the shipment, with the status that its addresses
\* give, or adds the product to it and so raises __v.
Join(r) ==
    /\ requests[r] = Idle
    /\ \E p \in Products \ shipment.products, s \in Editable :
          /\ shipment.status \in {"none", s}
          /\ shipment' = [shipment EXCEPT !.status = s, !.products = @ \cup {p},
                                !.version = IF shipment.status = "none" THEN @ ELSE @ + 1]
          /\ Do(r, [Idle EXCEPT !.at = "settle", !.product = p,
                                !.data = [products[p] EXCEPT !.status = NewStatus(s)]])
    /\ UNCHANGED <<products, heard, listeners, behind, failed>>

\* The second transaction: the status and the place of the product, and a snapshot of
\* it as it sets out (createSnapshots); the shipment in hand has none.
Settle(r) ==
    LET c == requests[r] IN
    /\ c.at = "settle"
    /\ products' = [products EXCEPT ![c.product].place = "new", ![c.product].status = c.data.status]
    /\ shipment' = [shipment EXCEPT !.snapshots = Append(@, Snapshot(c.product, c.data)), !.version = @ + 1]
    /\ Finish(r)
    /\ UNCHANGED <<heard, listeners, behind, failed>>

-----------------------------------------------------------------------------
\* A product is edited: updateEntity.

Edits == FoldFunction(LAMBDA d, n : d.text + n, 0, products)

EditLook(r) ==
    /\ requests[r] = Idle
    /\ \E p \in Products :
          /\ Edits < MaxEdits
          /\ Do(r, [Idle EXCEPT !.at = "write", !.product = p, !.active = Active(p)])
    /\ UNCHANGED <<products, shipment, heard, listeners, behind, failed>>

\* An edit lags if it comes within two seconds of another one that was announced,
\* or while the listener of another one runs.
Lagging(p) == p \in heard \/ Heeding(p)

EditWrite(r) ==
    LET c == requests[r]
        p == c.product
    IN
    /\ c.at = "write" /\ Edits < MaxEdits
    /\ products' = [products EXCEPT ![p].text = @ + 1]
    /\ IF c.active
       THEN /\ Do(r, [c EXCEPT !.at = "announce"])
            /\ behind' = IF Lagging(p) THEN behind \cup {p} ELSE behind \ {p}
       ELSE Finish(r) /\ UNCHANGED behind
    /\ UNCHANGED <<shipment, heard, listeners, failed>>

\* getShipmentSummaryByProductId.
Summary(p) == IF p \in shipment.products /\ shipment.status \in Live THEN shipment.status ELSE None

\* handleProductUpdated, which runs within emit up to its first await.
Announce(r) ==
    LET p == requests[r].product IN
    /\ requests[r].at = "announce"
    /\ IF Summary(p) \in Editable
       THEN /\ heard' = heard \cup {p}
            /\ IF p \in heard THEN UNCHANGED listeners
               ELSE Free # {} /\ Run(CHOOSE l \in Free : TRUE, [NoRun EXCEPT !.at = "product", !.product = p])
            /\ UNCHANGED behind
       ELSE behind' = behind \cup {p} /\ UNCHANGED <<heard, listeners>>
    /\ Finish(r)
    /\ UNCHANGED <<products, shipment, failed>>

\* Two seconds are over: the key that is looked for is another.
TimePasses ==
    /\ heard' = {}
    /\ UNCHANGED <<products, shipment, listeners, requests, behind, failed>>

-----------------------------------------------------------------------------
\* The listener: updateSnapshotsForProduct.

ListenProduct(l) ==
    LET c == listeners[l] IN
    /\ c.at = "product"
    /\ IF Active(c.product)
       THEN Run(l, [c EXCEPT !.at = "shipment", !.data = products[c.product]])
       ELSE EndRun(l)
    /\ UNCHANGED <<products, shipment, heard, requests, behind, failed>>

\* A snapshot that is not there is added; one that has not changed is left alone,
\* unless a field is empty, which counts as a change (blank): it is "" here, but
\* undefined or null where buildSnapshot took it from the product.
ListenShipment(l) ==
    LET c == listeners[l]
        i == IndexOf(c.product)
    IN
    /\ c.at = "shipment"
    /\ \E blank \in BOOLEAN :
          IF /\ shipment.status \in Editable /\ c.product \in shipment.products
             /\ i = 0 \/ blank \/ HasSnapshotChanged(shipment.snapshots[i].data, c.data)
          THEN Run(l, [c EXCEPT !.at = "save", !.index = i, !.version = shipment.version])
          ELSE EndRun(l)
    /\ UNCHANGED <<products, shipment, heard, requests, behind, failed>>

ListenSave(l) ==
    LET c == listeners[l]
        s == Snapshot(c.product, c.data)
    IN
    /\ c.at = "save"
    /\ \/ /\ c.index = 0
          /\ shipment' = [shipment EXCEPT !.snapshots = Append(@, s), !.version = @ + 1]
          /\ UNCHANGED behind
       \/ /\ c.index # 0 /\ c.version = shipment.version
          /\ shipment' = [shipment EXCEPT !.snapshots[c.index] = s]
          /\ UNCHANGED behind
       \/ /\ c.index # 0 /\ c.version # shipment.version     \* VersionError
          /\ behind' = behind \cup {c.product}
          /\ UNCHANGED shipment
    /\ EndRun(l)
    /\ UNCHANGED <<products, heard, requests, failed>>

-----------------------------------------------------------------------------
\* The status of the shipment. Requests that set it come when no other runs.

\* updateProductStatusToInTransit and updateProductStatusToMissingData.
Restated(d, s) ==
    IF s = "In Preparation"
    THEN [d EXCEPT !.status = IF @ = "In Transit - Missing Data" THEN "In Transit" ELSE @]
    ELSE [d EXCEPT !.status = IF @ = "In Transit" THEN "In Transit - Missing Data" ELSE @]

\* createSnapshots: the last snapshot of each product is brought up to date where it
\* differs, and one added where there is none. An empty field counts as a change here
\* as well.
Refreshed(S, data, blank) ==
    LET old     == shipment.snapshots
        lacking == {p \in S : IndexOf(p) = 0}
        news(i) ==
            LET p == old[i].product IN
            /\ p \in S /\ (p \in blank \/ HasSnapshotChanged(old[i].data, data[p]))
            /\ \A j \in i + 1 .. Len(old) : old[j].product # p
    IN  [i \in DOMAIN old |-> IF news(i) THEN Snapshot(old[i].product, data[old[i].product]) ELSE old[i]]
        \o [i \in 1 .. Cardinality(lacking) |-> LET p == SetToSeq(lacking)[i] IN Snapshot(p, data[p])]

VersionHeld == \E l \in Listeners : listeners[l].at = "save" /\ listeners[l].version = shipment.version

\* updateShipmentStatusOnAddressComplete, in one transaction: the status, those of
\* the products, and the snapshots; on the way down of those that changed only. To
\* change a snapshot in its place raises __v if an array of it is written anew; that
\* counts (and is counted) only while a run of the listener holds the current __v.
Readdress ==
    /\ Quiet /\ shipment.status \in Editable
    /\ \E s \in Editable \ {shipment.status}, blank \in SUBSET shipment.products, raise \in {0, 1} :
          LET new == [p \in Products |-> IF p \in shipment.products THEN Restated(products[p], s) ELSE products[p]]
              S   == {p \in shipment.products : s = "In Preparation" \/ new[p] # products[p]}
              all == Refreshed(S, new, blank)
          IN  /\ Len(all) > Len(shipment.snapshots) => raise = 1
              /\ Len(all) = Len(shipment.snapshots) /\ ~VersionHeld => raise = 0
              /\ products' = new
              /\ shipment' = [shipment EXCEPT !.status = s, !.snapshots = all, !.version = @ + raise]
    /\ behind' = behind \cup Heeded
    /\ UNCHANGED <<heard, listeners, requests, failed>>

\* A superadmin, or a cancellation. At the end the products are let go.
SetStatus ==
    /\ Quiet
    /\ \E s \in Live \cup {"ended"} :
          /\ \/ shipment.status \in {"In Preparation", "On The Way"}
             \/ shipment.status = "On Hold - Missing Data" /\ s = "ended"
          /\ shipment' = [shipment EXCEPT !.status = s]
          /\ products' = IF s # "ended" THEN products
                         ELSE [p \in Products |-> IF p \in shipment.products
                                                  THEN [products[p] EXCEPT !.status = "Available"] ELSE products[p]]
    /\ behind' = behind \cup Heeded
    /\ UNCHANGED <<heard, listeners, requests, failed>>

-----------------------------------------------------------------------------
\* Failures: a failing call, or the death of the process. Bound: one of them. The
\* listener logs its own, and nobody tries again.

Fail(c) == failed = NoFailure /\ failed' = [at |-> c.at, product |-> c.product] /\ behind' = behind \cup {c.product}

FailRequest(r) ==
    /\ requests[r] # Idle /\ Fail(requests[r])
    /\ Finish(r)
    /\ UNCHANGED <<products, shipment, heard, listeners>>

FailListener(l) ==
    /\ listeners[l] # NoRun /\ Fail(listeners[l])
    /\ EndRun(l)
    /\ UNCHANGED <<products, shipment, heard, requests>>

Next ==
    \/ \E r \in Requests :
          \/ Join(r) \/ Settle(r) \/ EditLook(r) \/ EditWrite(r) \/ Announce(r) \/ FailRequest(r)
    \/ \E l \in Listeners : ListenProduct(l) \/ ListenShipment(l) \/ ListenSave(l) \/ FailListener(l)
    \/ TimePasses \/ Readdress \/ SetStatus

Spec == Init /\ [][Next]_state

-----------------------------------------------------------------------------
\* Properties.

\* Every variable keeps its shape.
TypeOK ==
    /\ products \in [Products -> Product]
    /\ shipment.status \in Statuses /\ shipment.products \subseteq Products /\ shipment.version \in Nat
    /\ \A i \in DOMAIN shipment.snapshots :
          shipment.snapshots[i].product \in shipment.products /\ shipment.snapshots[i].data \in Product
    /\ UNION {heard, behind} \subseteq Products
    /\ \A l \in Listeners : listeners[l].product \in Products \cup {None}
    /\ \A r \in Requests : requests[r].product \in Products \cup {None}

\* No product has two snapshots, although the request that adds the product, the
\* listener and a change of status all add one that they find missing; unless the
\* joining failed, and the latter two find it missing together.
OneSnapshot ==
    \A i, j \in DOMAIN shipment.snapshots :
        shipment.snapshots[i].product = shipment.snapshots[j].product =>
            i = j \/ failed = [at |-> "settle", product |-> shipment.snapshots[i].product]

\* When nothing is under way, whoever opens a shipment that can still be edited sees
\* its products as they are, in the fields that are compared, unless something failed
\* or an edit came too soon after another (see Lagging), or while the shipment was on
\* its way.
SnapshotsTell ==
    (Quiet /\ Heeded = {} /\ shipment.status \in Editable) =>
        \A p \in shipment.products \ behind :
            \E i \in DOMAIN shipment.snapshots :
                LET s == shipment.snapshots[i] IN
                s.product = p /\ s.data.text = products[p].text /\ s.data.status = products[p].status

\* Snapshots and products fit together.
SnapshotsFit == TypeOK /\ OneSnapshot /\ SnapshotsTell

=============================================================================
