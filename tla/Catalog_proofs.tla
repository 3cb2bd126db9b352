---------------------------- MODULE Catalog_proofs ----------------------------
(***************************************************************************)
(* What holds of Catalog for any number of products, members and requests: *)
(* every variable keeps its shape, and a product has one home at every     *)
(* moment, whatever requests overlap, are aborted or die half-way. And     *)
(* Catalog implements Custody: as the transactions commit, a product       *)
(* appears once, is then in the pool or with one member, moves in single   *)
(* steps, and stays deleted. When requests come one after the other,       *)
(* serial numbers are unique, nothing is lost with a member, and nothing   *)
(* waits for one who is there.                                             *)
(***************************************************************************)
EXTENDS Catalog, TLAPS, FiniteSetTheorems

\* A request that overlaps others never gives a product of one member to another:
\* who gives it away is looked for outside the transaction. Alone, it may.
OverlapAssumption == Operations["together"] \cap {"move", "bulk", "offboard"} = {}

-----------------------------------------------------------------------------
\* The inductive invariant.

\* The documents in which v has the product p, and whether two views agree on one.
Homes(v, p) ==
    {d \in Docs : (d = p /\ v.pool[p] # Absent) \/ (d \in Members /\ v.people[d].has[p] # Absent)}
Same(v, w, d) ==
    /\ d \in Products => v.pool[d] = w.pool[d]
    /\ d \in Members => v.people[d] = w.people[d]

\* Where a request has the product among the documents it wrote, and where it was.
After(q, p)     == Homes(q.view, p) \cap q.writes
Before(v, q, p) == Homes(v, p) \cap q.writes

\* A request in a transaction, of which a deletion puts the product in the pool before
\* it takes it away from its member.
InTransaction(q) == q.op \in Transactions /\ q.at \in {"work", "sync", "mark", "detach"}
HalfDeleted(q)   == q.op = "delete" /\ q.at \in {"mark", "detach"}

\* The documents nobody else wrote are what the snapshot has.
SnapshotValid(v, q) ==
    InTransaction(q) => \A d \in Docs \ (q.dirty \cup q.writes) : Same(q.view, v, d)

\* A product is among the documents written once at most, and was before, unless the
\* request makes it.
OneAfter(v, q, strays) ==
    \A p \in Products \ strays :
        IF HalfDeleted(q) /\ p = q.item
        THEN q.at = "mark" /\ Holders(q.view, p) = {} => v.pool[p] # Absent
        ELSE /\ \A d, e \in After(q, p) : d = e
             /\ After(q, p) # {} => Before(v, q, p) # {} \/ (p \in q.writes /\ Homes(v, p) = {})
OneWritten(q) == HalfDeleted(q) => q.writes = {q.item}

\* Only members that are there have products.
Housed(v)      == \A m \in Members, p \in Products : v.people[m].has[p] # Absent => v.people[m].status # "unused"
MembersUsed(v, q) ==
    /\ InTransaction(q) => Housed(q.view)
    /\ \A m \in q.writes \cap Members : q.view.people[m].status # "unused"
    /\ q.member # None /\ q.op \in Creating \cup {"readdress"} => v.people[q.member].status # "unused"
    /\ q.op = "readdress" /\ InTransaction(q) => q.view.people[q.member].status # "unused"

\* A request that is alone still sees the products it has to move where they are, and
\* creates one under the email of its member.
SeesTodo(v, q) ==
    q.op \in Moving /\ InTransaction(q) =>
        \A m \in Members :
            /\ q.view.people[m].email = v.people[m].email /\ q.view.people[m].status = v.people[m].status
            /\ \A p \in q.todo : q.view.people[m].has[p] = v.people[m].has[p]
CreatesUnderEmail(v, q) ==
    q.op = "create" /\ q.at = "insert" /\ q.member # None => v.people[q.member].email = q.email

Overlapping(q) == q.op \in {"none"} \cup (OperationKinds \ {"move", "bulk", "offboard"})

\* What a request has in each phase.
Phases(q) ==
    /\ q.op = "none" => q = Idle
    /\ q.at \in {"start", "insert", "write", "attach", "dismiss"} => q.writes = {}
    /\ q.op \in {"create", "stock", "edit", "dismiss"} => q.writes = {}
    /\ q.at = "work" /\ q.op # "bulk" => q.writes = {}
    /\ q.at = "work" /\ q.op = "offboard" => q.todo # {}
    /\ q.op \in {"edit", "delete"} => q.item \in Products
    /\ q.op \in Supplying => q.member = None
    /\ q.op \in {"readdress", "offboard", "dismiss"} \/ q.at \in {"inserted", "attach"} => q.member \in Members
    /\ q.sync # {} => q.at = "sync" \/ (q.at = "commit" /\ q.op \in {"import", "supply"})

\* What it has to copy is somewhere, and so is what it changes, as long as nobody
\* wrote the member.
Synced(q)      == \A p \in q.sync : Homes(q.view, p) # {}
EditSees(v, q) ==
    q.op = "edit" /\ q.at = "write" /\ q.member # None /\ q.member \notin q.dirty =>
        v.people[q.member].has[q.item] # Absent

RequestSound(v, q, strays) ==
    /\ Phases(q) /\ Synced(q) /\ EditSees(v, q)
    /\ OneWritten(q) /\ SnapshotValid(v, q) /\ OneAfter(v, q, strays) /\ MembersUsed(v, q)

Exclusive == \A r, s \in Requests : r # s => requests[r].writes \cap requests[s].writes = {}

OneHomeEach(v, strays) == \A p \in Products \ strays : \A d, e \in Homes(v, p) : d = e

UnderEmail(v, strays) ==
    \A m \in Members, p \in Products \ strays :
        v.people[m].has[p] # Absent => v.people[m].has[p].email = v.people[m].email

Solitude ==
    IF Alone
    THEN /\ \A r, s \in Requests : Busy(r) /\ Busy(s) => r = s
         /\ UnderEmail(View, astray)
         /\ \A r \in Requests : SeesTodo(View, requests[r]) /\ CreatesUnderEmail(View, requests[r])
    ELSE \A r \in Requests : Overlapping(requests[r])

IInv ==
    /\ TypeOK /\ Exclusive /\ Solitude
    /\ OneHomeEach(View, astray) /\ Housed(View)
    /\ \A r \in Requests : RequestSound(View, requests[r], astray)

-----------------------------------------------------------------------------
\* Values.

ViewType == [pool : [Products -> Slot], people : [Members -> Person]]

LEMMA AbsentIsNoItem == Absent \notin Item
BY DEF Absent, Item

LEMMA SlotFields ==
    ASSUME NEW i \in Slot, i # Absent
    PROVE  /\ i \in Item
           /\ i.email \in Emails \cup {None} /\ i.named \in BOOLEAN
           /\ i.serial \in Serials \cup {None} /\ i.gone \in BOOLEAN
BY DEF Slot, Item

\* Whatever is written into a product, it stays one.
LEMMA ItemUpdates ==
    ASSUME NEW i \in Item, NEW e \in Emails \cup {None}, NEW b \in BOOLEAN, NEW n \in Serials \cup {None}
    PROVE  /\ [i EXCEPT !.email = e, !.named = b] \in Item
           /\ [i EXCEPT !.email = e] \in Item
           /\ [i EXCEPT !.named = b] \in Item
           /\ [i EXCEPT !.gone = b, !.serial = n] \in Item
           /\ [i EXCEPT !.serial = n] \in Item
           /\ [email |-> e, named |-> b, serial |-> n, gone |-> FALSE] \in Item
BY DEF Item

LEMMA ItemIsSlot == ASSUME NEW i \in Item PROVE i \in Slot /\ i # Absent
BY AbsentIsNoItem DEF Slot

LEMMA ViewFields ==
    ASSUME NEW v \in ViewType
    PROVE  /\ v = [pool |-> v.pool, people |-> v.people]
           /\ v.pool \in [Products -> Slot] /\ v.people \in [Members -> Person]
           /\ \A p \in Products : v.pool[p] \in Slot
           /\ \A m \in Members : /\ v.people[m] \in Person
                                 /\ v.people[m].email \in Emails \cup {None}
                                 /\ v.people[m].has \in [Products -> Slot]
                                 /\ \A p \in Products : v.people[m].has[p] \in Slot
BY DEF ViewType, Person

LEMMA NobodyType ==
    /\ Nobody \in Person /\ Nobody.status = "unused" /\ Nobody.email = None
    /\ \A p \in Products : Nobody.has[p] = Absent
BY DEF Nobody, Person, Slot

LEMMA NoViewType ==
    /\ NoView \in ViewType
    /\ \A p \in Products : NoView.pool[p] = Absent
    /\ \A m \in Members : NoView.people[m] = Nobody
<1>1. [p \in Products |-> Absent] \in [Products -> Slot]  BY DEF Slot
<1>2. [m \in Members |-> Nobody] \in [Members -> Person]  BY NobodyType
<1> QED  BY <1>1, <1>2 DEF NoView, ViewType

LEMMA RequestFields ==
    ASSUME NEW q \in Request
    PROVE  /\ q.op \in OperationKinds \cup {"none"} /\ q.item \in Products \cup {None}
           /\ q.todo \subseteq Products /\ q.member \in Members \cup {None}
           /\ q.email \in Emails \cup {None} /\ q.serial \in Serials \cup {None}
           /\ q.view \in ViewType /\ q.dirty \subseteq Docs /\ q.writes \subseteq Docs
           /\ q.sync \subseteq Products /\ q.copied \subseteq Products
BY DEF Request, ViewType

LEMMA IdleType == Idle \in Request
<1>1. Idle.view = NoView /\ NoView \in [pool : [Products -> Slot], people : [Members -> Person]]
  BY NoViewType DEF Idle, ViewType
<1>2. Idle \in [op : {"none"}, at : {"start"}, item : {None}, todo : {{}}, member : {None}, email : {None},
                serial : {None}, typed : {"exact"}, view : {NoView}, dirty : {{}}, writes : {{}},
                sync : {{}}, copied : {{}}]
  BY DEF Idle
<1> QED  BY <1>1, <1>2 DEF Request

LEMMA NoneIsNoDoc == None \notin Docs /\ None \notin Products /\ None \notin Members
BY ConstantsAssumption DEF Docs

LEMMA DocsDiffer ==
    /\ \A p \in Products : p \in Docs /\ p \notin Members
    /\ \A m \in Members : m \in Docs /\ m \notin Products
    /\ \A p \in Products, m \in Members : p # m
BY ConstantsAssumption DEF Docs

LEMMA ViewType_View == ASSUME TypeOK PROVE View \in ViewType /\ View.pool = pool /\ View.people = people
BY DEF TypeOK, View, ViewType

-----------------------------------------------------------------------------
\* One home, seen by a transaction.

LEMMA HomesAre ==
    ASSUME NEW v \in ViewType, NEW p \in Products
    PROVE  /\ Homes(v, p) \subseteq Docs
           /\ p \in Homes(v, p) <=> Stored(v, p)
           /\ \A m \in Members : m \in Homes(v, p) <=> m \in Holders(v, p)
           /\ \A d \in Homes(v, p) : d = p \/ d \in Holders(v, p)
           /\ Homes(v, p) = {} <=> ~Stored(v, p) /\ Holders(v, p) = {}
BY DocsDiffer DEF Homes, Stored, Holders

\* Views that agree on a document agree on whether it has the product.
LEMMA SameHomes ==
    ASSUME NEW v, NEW w, NEW d \in Docs, Same(v, w, d), NEW p \in Products
    PROVE  d \in Homes(v, p) <=> d \in Homes(w, p)
BY DocsDiffer DEF Same, Homes, Docs

\* A transaction takes documents that nobody wrote since its snapshot: what it sees
\* in them is what is there, so that it has the product once.
TakeBound(v, u, writes, p) ==
    /\ \A d, e \in Homes(u, p) \cap writes : d = e
    /\ Homes(u, p) \cap writes # {} => Homes(v, p) \cap writes # {} \/ (p \in writes /\ Homes(v, p) = {})

LEMMA TakeDocs ==
    ASSUME NEW v, NEW u, NEW dirty, NEW writes, NEW docs \in SUBSET Docs, NEW p \in Products,
           \A d \in Docs \ (dirty \cup writes) : Same(u, v, d),
           docs \cap dirty = {},
           \A d, e \in Homes(v, p) : d = e,
           TakeBound(v, u, writes, p)
    PROVE  TakeBound(v, u, writes \cup docs, p)
<1> DEFINE W == writes \cup docs
           A == Homes(u, p) \cap writes
           B == Homes(v, p) \cap writes
<1>1. \A d \in docs \ writes : d \in Homes(u, p) <=> d \in Homes(v, p)
  BY SameHomes
<1>2. CASE \A d \in docs \ writes : d \notin Homes(v, p)
  BY <1>1, <1>2 DEF TakeBound
<1>3. ASSUME NEW d \in docs \ writes, d \in Homes(v, p) PROVE TakeBound(v, u, W, p)
  <2>1. Homes(v, p) = {d} /\ B = {}
    BY <1>3
  <2>2. A = {}
    BY <2>1 DEF TakeBound
  <2>3. \A e \in Homes(u, p) \cap W : e \in docs \ writes
    BY <2>2
  <2>4. Homes(u, p) \cap W = {d}
    BY <1>1, <1>3, <2>1, <2>3
  <2> QED  BY <2>1, <2>4, <1>3 DEF TakeBound
<1> QED  BY <1>2, <1>3

\* What happens to the product p when a transaction changes its view from u to w:
\* it stays where it is, or goes from the document a to the document b.
Goes(u, w, writes, p) ==
    \/ Homes(w, p) \cap writes = Homes(u, p) \cap writes
    \/ \E a, b \in writes : a \in Homes(u, p) /\ Homes(w, p) \subseteq (Homes(u, p) \ {a}) \cup {b}

LEMMA GoesBound ==
    ASSUME NEW v, NEW u, NEW w, NEW writes, NEW p \in Products,
           TakeBound(v, u, writes, p), Goes(u, w, writes, p)
    PROVE  TakeBound(v, w, writes, p)
<1>1. CASE Homes(w, p) \cap writes = Homes(u, p) \cap writes
  BY <1>1 DEF TakeBound
<1>2. ASSUME NEW a \in writes, NEW b \in writes, a \in Homes(u, p),
             Homes(w, p) \subseteq (Homes(u, p) \ {a}) \cup {b}
      PROVE  TakeBound(v, w, writes, p)
  <2>1. Homes(u, p) \cap writes = {a}
    BY <1>2 DEF TakeBound
  <2>2. Homes(w, p) \cap writes \subseteq {b}
    BY <1>2, <2>1
  <2> QED  BY <2>1, <2>2 DEF TakeBound
<1> QED  BY <1>1, <1>2 DEF Goes

\* What nobody else wrote stays true when others write docs: v becomes w, and the
\* request q becomes q2.
Untouched(v, w, q, q2, docs, strays, strays2) ==
    /\ q2 = q \/ q2 = [q EXCEPT !.dirty = @ \cup docs]
    /\ InTransaction(q) => q2.dirty = q.dirty \cup docs
    /\ q.op = "edit" => q2.dirty = q.dirty \cup docs \/ \A p \in Products : Homes(w, p) = Homes(v, p)
    /\ q.op = "none" => q2 = q
    /\ \A d \in Docs \ docs : Same(v, w, d)
    /\ docs \cap q.writes = {} /\ strays \subseteq strays2
    /\ \A p \in Products \ strays2 : p \in q.writes /\ Homes(v, p) = {} => Homes(w, p) = {}
    /\ \A m \in Members : v.people[m].status # "unused" => w.people[m].status # "unused"

LEMMA OthersWrite ==
    ASSUME NEW v \in ViewType, NEW w \in ViewType, NEW q \in Request, NEW q2 \in Request, NEW docs \in SUBSET Docs,
           NEW strays, NEW strays2, Untouched(v, w, q, q2, docs, strays, strays2),
           RequestSound(v, q, strays)
    PROVE  RequestSound(w, q2, strays2)
<1> USE DEF Untouched
<1>1. /\ q2.op = q.op /\ q2.at = q.at /\ q2.item = q.item /\ q2.todo = q.todo /\ q2.member = q.member
      /\ q2.view = q.view /\ q2.writes = q.writes /\ q2.sync = q.sync /\ q2.email = q.email
      /\ q2.dirty \in {q.dirty, q.dirty \cup docs}
  BY DEF Request
<1>2. Phases(q2)
  BY <1>1 DEF RequestSound, Phases
<1>3. Synced(q2) /\ OneWritten(q2)
  BY <1>1 DEF RequestSound, Synced, OneWritten, HalfDeleted
<1>4. \A d \in q.writes : d \in Docs \ docs
  BY RequestFields
<1>5. \A p \in Products : Before(w, q2, p) = Before(v, q, p) /\ After(q2, p) = After(q, p)
  <2> SUFFICES ASSUME NEW p \in Products
               PROVE  Before(w, q2, p) = Before(v, q, p) /\ After(q2, p) = After(q, p)
    OBVIOUS
  <2>1. \A d \in q.writes : d \in Homes(w, p) <=> d \in Homes(v, p)
    BY <1>4, SameHomes
  <2> QED  BY <1>1, <2>1 DEF Before, After
<1>6. EditSees(w, q2)
  <2> SUFFICES ASSUME q.op = "edit", q.at = "write", q.member # None, q.member \notin q2.dirty
               PROVE  w.people[q.member].has[q.item] # Absent
    BY <1>1 DEF EditSees
  <2>1. q.item \in Products /\ q.member \in Members /\ q.member \in Docs
    BY RequestFields, DocsDiffer DEF RequestSound, Phases
  <2>2. v.people[q.member].has[q.item] # Absent
    BY <1>1 DEF RequestSound, EditSees
  <2>3. CASE q2.dirty = q.dirty \cup docs
    BY <2>1, <2>2, <2>3 DEF Same
  <2>4. CASE Homes(w, q.item) = Homes(v, q.item)
    <3>1. q.member \in Homes(v, q.item)
      BY <2>1, <2>2 DEF Homes
    <3> QED  BY <2>1, <2>4, <3>1, DocsDiffer DEF Homes
  <2> QED  BY <2>1, <2>3, <2>4
<1>7. SnapshotValid(w, q2)
  <2> SUFFICES ASSUME InTransaction(q), NEW d \in Docs \ (q2.dirty \cup q.writes) PROVE Same(q.view, w, d)
    BY <1>1 DEF SnapshotValid, InTransaction
  <2>1. d \in Docs \ docs /\ d \in Docs \ (q.dirty \cup q.writes)
    OBVIOUS
  <2>2. Same(q.view, v, d) /\ Same(v, w, d)
    BY <2>1 DEF RequestSound, SnapshotValid
  <2> QED  BY <2>2 DEF Same
<1>8. OneAfter(w, q2, strays2)
  <2> SUFFICES ASSUME NEW p \in Products \ strays2
               PROVE  IF HalfDeleted(q2) /\ p = q2.item
                      THEN q2.at = "mark" /\ Holders(q2.view, p) = {} => w.pool[p] # Absent
                      ELSE /\ \A d, e \in After(q2, p) : d = e
                           /\ After(q2, p) # {} => Before(w, q2, p) # {} \/ (p \in q2.writes /\ Homes(w, p) = {})
    BY DEF OneAfter
  <2>1. IF HalfDeleted(q) /\ p = q.item
        THEN q.at = "mark" /\ Holders(q.view, p) = {} => v.pool[p] # Absent
        ELSE /\ \A d, e \in After(q, p) : d = e
             /\ After(q, p) # {} => Before(v, q, p) # {} \/ (p \in q.writes /\ Homes(v, p) = {})
    BY DEF RequestSound, OneAfter
  <2>2. HalfDeleted(q2) = HalfDeleted(q)
    BY <1>1 DEF HalfDeleted
  <2>3. CASE HalfDeleted(q) /\ p = q.item
    <3>1. p \in Docs \ docs
      BY <1>4, <2>3 DEF RequestSound, OneWritten
    <3>2. w.pool[p] = v.pool[p]
      BY <3>1 DEF Same
    <3> QED  BY <1>1, <2>1, <2>2, <2>3, <3>2
  <2>4. CASE ~(HalfDeleted(q) /\ p = q.item)
    BY <1>1, <1>5, <2>1, <2>2, <2>4
  <2> QED  BY <2>3, <2>4
<1>9. MembersUsed(w, q2)
  BY <1>1, RequestFields DEF RequestSound, MembersUsed, InTransaction
<1> QED  BY <1>2, <1>3, <1>6, <1>7, <1>8, <1>9 DEF RequestSound

-----------------------------------------------------------------------------
\* Steps of one request that leave the two collections alone.

\* What the invariant asks of a request that works alone, or next to another.
FitsTraffic(q) ==
    IF Alone THEN SeesTodo(View, q) /\ CreatesUnderEmail(View, q) ELSE Overlapping(q)

LEMMA IdleSound ==
    ASSUME NEW v, NEW strays
    PROVE  RequestSound(v, Idle, strays) /\ FitsTraffic(Idle) /\ Idle.writes = {}
<1>1. /\ Idle.op = "none" /\ Idle.at = "start" /\ Idle.writes = {} /\ Idle.sync = {} /\ Idle.member = None
      /\ ~InTransaction(Idle) /\ ~HalfDeleted(Idle)
  BY DEF Idle, InTransaction, HalfDeleted
<1>2. \A p : After(Idle, p) = {}
  BY <1>1 DEF After
<1> QED
  BY <1>1, <1>2 DEF RequestSound, Phases, Synced, EditSees, OneWritten, SnapshotValid, OneAfter,
     MembersUsed, FitsTraffic, SeesTodo, CreatesUnderEmail, Overlapping, Moving, Supplying, Creating

\* The others have nothing in hand that q writes.
Apart(r, q) == \A s \in Requests \ {r} : q.writes \cap requests[s].writes = {}

LEMMA ContinueSafe ==
    ASSUME IInv, NEW r \in Requests, NEW q \in Request, Continue(r, q),
           pool' = pool, people' = people, astray' = astray, traffic' = traffic,
           copies' \in [Products -> Copy], failed' \in BOOLEAN,
           undone' \subseteq Products, renamed' \subseteq Members,
           RequestSound(View, q, astray), FitsTraffic(q), Apart(r, q),
           Alone => Busy(r) \/ Quiet
    PROVE  IInv'
<1>1. View' = View /\ Alone' = Alone
  BY DEF View, Alone
<1>2. requests \in [Requests -> Request] /\ requests' = [requests EXCEPT ![r] = q]
  BY DEF IInv, TypeOK, Continue
<1>3. /\ requests' \in [Requests -> Request] /\ requests'[r] = q
      /\ \A s \in Requests \ {r} : requests'[s] = requests[s]
  BY <1>2
<1>4. TypeOK'
  BY <1>3 DEF IInv, TypeOK
<1>5. Exclusive'
  BY <1>3 DEF IInv, Exclusive, Apart
<1>6. Solitude'
  <2>1. CASE Alone
    <3>1. \A s \in Requests \ {r} : ~Busy(s)
      BY <2>1 DEF IInv, Solitude, Quiet
    <3>2. \A s \in Requests \ {r} : ~Busy(s)'
      BY <1>3, <3>1 DEF Busy
    <3>3. \A s \in Requests : SeesTodo(View, requests'[s]) /\ CreatesUnderEmail(View, requests'[s])
      BY <1>3, <2>1 DEF FitsTraffic, IInv, Solitude
    <3>4. UnderEmail(View, astray)
      BY <2>1 DEF IInv, Solitude
    <3> QED  BY <1>1, <2>1, <3>2, <3>3, <3>4 DEF Solitude
  <2>2. CASE ~Alone
    BY <1>1, <1>3, <2>2 DEF IInv, Solitude, FitsTraffic
  <2> QED  BY <2>1, <2>2
<1>7. \A s \in Requests : RequestSound(View, requests'[s], astray)
  BY <1>3 DEF IInv
<1> QED  BY <1>1, <1>4, <1>5, <1>6, <1>7 DEF IInv

LEMMA FinishSafe ==
    ASSUME IInv, NEW r \in Requests, Finish(r), Busy(r),
           pool' = pool, people' = people, astray' = astray, traffic' = traffic,
           copies' \in [Products -> Copy], failed' \in BOOLEAN,
           undone' \subseteq Products, renamed' \subseteq Members
    PROVE  IInv'
<1>1. RequestSound(View, Idle, astray) /\ FitsTraffic(Idle) /\ Apart(r, Idle)
  BY IdleSound DEF Apart
<1> QED  BY <1>1, IdleType, ContinueSafe DEF Finish

\* What the other variables are worth in steps that leave them alone.
LEMMA GhostTypes ==
    ASSUME IInv
    PROVE  /\ copies \in [Products -> Copy] /\ failed \in BOOLEAN
           /\ undone \subseteq Products /\ renamed \subseteq Members /\ astray \subseteq Products
           /\ View \in ViewType /\ View.pool = pool /\ View.people = people
           /\ pool \in [Products -> Slot] /\ people \in [Members -> Person]
           /\ requests \in [Requests -> Request]
BY ViewType_View DEF IInv, TypeOK

\* What is known of a request.
LEMMA Known ==
    ASSUME IInv, NEW r \in Requests
    PROVE  /\ requests[r] \in Request
           /\ RequestSound(View, requests[r], astray) /\ FitsTraffic(requests[r]) /\ Apart(r, requests[r])
           /\ requests[r].op # "none" => Busy(r)
<1>1. FitsTraffic(requests[r])
  BY DEF IInv, Solitude, FitsTraffic
<1>2. Apart(r, requests[r])
  BY DEF IInv, Exclusive, Apart
<1> QED  BY <1>1, <1>2 DEF IInv, TypeOK, Busy, Idle

LEMMA AbortSafe ==
    ASSUME IInv, NEW r \in Requests, Abort(r), Busy(r),
           pool' = pool, people' = people, astray' = astray, traffic' = traffic,
           copies' \in [Products -> Copy], failed' \in BOOLEAN, renamed' \subseteq Members
    PROVE  IInv'
<1>1. undone' \subseteq Products
  BY Known, RequestFields, GhostTypes DEF Abort
<1> QED  BY <1>1, FinishSafe DEF Abort

-----------------------------------------------------------------------------
\* A transaction writes.

Wrote(q, docs, w, at, sync) ==
    [q EXCEPT !.writes = @ \cup docs, !.view = w, !.at = at, !.sync = sync, !.todo = @ \ sync]

LEMMA WroteFields ==
    ASSUME NEW q \in Request, NEW docs, NEW w, NEW a, NEW sync,
           NEW q2, q2 = Wrote(q, docs, w, a, sync)
    PROVE  /\ q2.op = q.op /\ q2.at = a /\ q2.item = q.item /\ q2.todo = q.todo \ sync
           /\ q2.member = q.member /\ q2.email = q.email /\ q2.view = w /\ q2.dirty = q.dirty
           /\ q2.writes = q.writes \cup docs /\ q2.sync = sync
BY DEF Wrote, Request

LEMMA WroteType ==
    ASSUME NEW q \in Request, NEW docs \in SUBSET Docs, NEW w \in ViewType,
           NEW a \in {"sync", "mark", "commit"}, NEW sync \in SUBSET Products
    PROVE  Wrote(q, docs, w, a, sync) \in Request
BY DEF Wrote, Request, ViewType

\* What the new view of a transaction must be like, whatever it writes.
ViewFits(q, docs, w, sync) ==
    /\ \A d \in Docs \ (q.writes \cup docs) : Same(w, q.view, d)
    /\ \A p \in sync : Homes(w, p) # {}
    /\ \A m \in (q.writes \cup docs) \cap Members : w.people[m].status # "unused"
    /\ Housed(w)
    /\ q.op = "readdress" => w.people[q.member].status # "unused"
    /\ q.op \in Moving =>
          \A m \in Members :
             /\ w.people[m].email = q.view.people[m].email /\ w.people[m].status = q.view.people[m].status
             /\ \A p \in q.todo \ sync : w.people[m].has[p] = q.view.people[m].has[p]

LEMMA WriteSafe ==
    ASSUME IInv, NEW r \in Requests, NEW docs \in SUBSET Docs, NEW w \in ViewType,
           NEW at \in {"sync", "mark", "commit"}, NEW sync \in SUBSET Products,
           Write(r, docs, w, at, sync), Stores, Ghosts, InTransaction(requests[r]),
           at = "sync" \/ sync = {},
           ViewFits(requests[r], docs, w, sync),
           docs \cap requests[r].dirty = {} =>
               LET q2 == Wrote(requests[r], docs, w, at, sync) IN
               OneAfter(View, q2, astray) /\ OneWritten(q2)
    PROVE  IInv'
<1> DEFINE q == requests[r]
           q2 == Wrote(q, docs, w, at, sync)
<1> USE DEF Stores, Ghosts
<1>1. /\ q \in Request /\ RequestSound(View, q, astray) /\ FitsTraffic(q) /\ Apart(r, q) /\ Busy(r)
  BY Known DEF InTransaction, Transactions, Moving, Joining
<1>2. CASE Conflict(r, docs)
  BY <1>1, <1>2, AbortSafe, GhostTypes DEF Write
<1>3. CASE ~Conflict(r, docs)
  <2>1. Continue(r, q2) /\ undone' = undone
    BY <1>3 DEF Write, Wrote
  <2>2. docs \cap q.dirty = {} /\ \A s \in Requests \ {r} : docs \cap requests[s].writes = {}
    BY <1>3 DEF Conflict
  <2>11. q2 \in Request
    BY <1>1, WroteType
  <2>3. /\ q2.op = q.op /\ q2.at = at /\ q2.item = q.item /\ q2.todo = q.todo \ sync
        /\ q2.member = q.member /\ q2.email = q.email /\ q2.view = w /\ q2.dirty = q.dirty
        /\ q2.writes = q.writes \cup docs /\ q2.sync = sync
    <3>1. q2 = Wrote(q, docs, w, at, sync)
      OBVIOUS
    <3> HIDE DEF q2
    <3> QED  BY <1>1, <3>1, WroteFields
  <2>4. Apart(r, q2)
    BY <1>1, <2>2, <2>3 DEF Apart
  <2>5. q.op \notin {"none", "create", "import", "stock", "supply", "edit", "dismiss"}
    BY DEF InTransaction, Transactions, Moving, Joining
  <2>6. Phases(q2) /\ Synced(q2) /\ EditSees(View, q2)
    BY <1>1, <2>3, <2>5 DEF RequestSound, Phases, Synced, EditSees, ViewFits, Supplying
  <2>7. SnapshotValid(View, q2)
    <3> SUFFICES ASSUME NEW d \in Docs \ (q.dirty \cup (q.writes \cup docs)) PROVE Same(w, View, d)
      BY <2>3 DEF SnapshotValid
    <3>1. Same(q.view, View, d)
      BY <1>1 DEF RequestSound, SnapshotValid
    <3>2. Same(w, q.view, d)
      BY DEF ViewFits
    <3> QED  BY <3>1, <3>2 DEF Same
  <2>8. MembersUsed(View, q2)
    BY <1>1, <2>3, <2>5 DEF RequestSound, MembersUsed, ViewFits, Creating
  <2>9. RequestSound(View, q2, astray)
    BY <2>2, <2>6, <2>7, <2>8 DEF RequestSound
  <2>10. FitsTraffic(q2)
    <3>1. CASE Alone
      <4>1. SeesTodo(View, q2)
        <5> SUFFICES ASSUME q.op \in Moving
                     PROVE  \A m \in Members :
                               /\ w.people[m].email = View.people[m].email
                               /\ w.people[m].status = View.people[m].status
                               /\ \A p \in q.todo \ sync : w.people[m].has[p] = View.people[m].has[p]
          BY <2>3 DEF SeesTodo
        <5>1. \A m \in Members :
                 /\ q.view.people[m].email = View.people[m].email
                 /\ q.view.people[m].status = View.people[m].status
                 /\ \A p \in q.todo : q.view.people[m].has[p] = View.people[m].has[p]
          BY <1>1, <3>1 DEF FitsTraffic, SeesTodo
        <5> QED  BY <5>1 DEF ViewFits
      <4>2. CreatesUnderEmail(View, q2)
        BY <2>3, <2>5 DEF CreatesUnderEmail
      <4> QED  BY <3>1, <4>1, <4>2 DEF FitsTraffic
    <3>2. CASE ~Alone
      BY <1>1, <2>3, <3>2 DEF FitsTraffic, Overlapping
    <3> QED  BY <3>1, <3>2
  <2> QED  BY <1>1, <2>1, <2>4, <2>9, <2>10, <2>11, ContinueSafe, GhostTypes
<1> QED  BY <1>2, <1>3

\* A write that is not part of a deletion: every product goes from one of the documents
\* to another, if it goes.
LEMMA GoingSafe ==
    ASSUME IInv, NEW r \in Requests, NEW docs \in SUBSET Docs, NEW w \in ViewType,
           NEW at \in {"sync", "commit"}, NEW sync \in SUBSET Products,
           Write(r, docs, w, at, sync), Stores, Ghosts, InTransaction(requests[r]),
           requests[r].op # "delete",
           at = "sync" \/ sync = {},
           ViewFits(requests[r], docs, w, sync),
           docs \cap requests[r].dirty = {} =>
               \A p \in Products \ astray : Goes(requests[r].view, w, requests[r].writes \cup docs, p)
    PROVE  IInv'
<1> DEFINE q == requests[r]
           q2 == Wrote(q, docs, w, at, sync)
<1>1. q \in Request /\ RequestSound(View, q, astray)
  BY Known
<1>2. /\ q2.op = q.op /\ q2.view = w /\ q2.writes = q.writes \cup docs
  <2>1. q2 = Wrote(q, docs, w, at, sync)
    OBVIOUS
  <2> HIDE DEF q2
  <2> QED  BY <1>1, <2>1, WroteFields
<1>3. ASSUME docs \cap q.dirty = {} PROVE OneAfter(View, q2, astray)
  <2> SUFFICES ASSUME NEW p \in Products \ astray PROVE TakeBound(View, w, q.writes \cup docs, p)
    BY <1>2 DEF OneAfter, HalfDeleted, TakeBound, After, Before
  <2>1. \A d \in Docs \ (q.dirty \cup q.writes) : Same(q.view, View, d)
    BY <1>1 DEF RequestSound, SnapshotValid
  <2>2. TakeBound(View, q.view, q.writes, p)
    BY <1>1 DEF RequestSound, OneAfter, HalfDeleted, TakeBound, After, Before
  <2>3. \A d, e \in Homes(View, p) : d = e
    BY DEF IInv, OneHomeEach
  <2>4. TakeBound(View, q.view, q.writes \cup docs, p)
    BY <1>3, <2>1, <2>2, <2>3, TakeDocs
  <2>5. Goes(q.view, w, q.writes \cup docs, p)
    BY <1>3
  <2> QED  BY <2>4, <2>5, GoesBound
<1>4. OneWritten(q2)
  BY <1>2 DEF OneWritten, HalfDeleted
<1> QED  BY <1>3, <1>4, WriteSafe

-----------------------------------------------------------------------------
\* Steps that no kind of request has to itself.

\* A request that wrote nothing, and is not in a transaction, is sound when its fields
\* are in order.
LEMMA NothingWritten ==
    ASSUME NEW v, NEW q, NEW strays, q.writes = {}, ~InTransaction(q), q.op # "none",
           Phases(q), Synced(q), EditSees(v, q),
           q.member # None /\ q.op \in Creating \cup {"readdress"} => v.people[q.member].status # "unused"
    PROVE  RequestSound(v, q, strays)
<1>1. ~HalfDeleted(q)
  BY DEF HalfDeleted, InTransaction, Transactions
<1>2. \A p : After(q, p) = {}
  BY DEF After
<1> QED
  BY <1>1, <1>2 DEF RequestSound, OneWritten, SnapshotValid, OneAfter, MembersUsed

LEMMA BodyFields ==
    ASSUME IInv, NEW op \in OperationKinds, NEW q \in Bodies(op)
    PROVE  /\ q \in Request
           /\ q.op = op /\ q.at = "start" /\ q.writes = {} /\ q.sync = {}
           /\ op \in {"edit", "delete"} => q.item \in Products
           /\ op \in {"offboard", "readdress", "dismiss"} => q.member \in LiveMembers
           /\ op \notin {"offboard", "readdress", "dismiss"} => q.member = None
<1>1. PICK p \in BodyItems(op), t \in BodyTodos(op), m \in BodyMembers(op),
           e \in BodyEmails(op), s \in BodySerials(op), k \in BodyTypings(op) :
             q = Body(op, p, t, m, e, s, k)
  BY DEF Bodies
<1>2. Listed \subseteq Products /\ LiveMembers \subseteq Members
  BY DEF Listed, LiveMembers
<1>3. t \subseteq Products
  BY <1>2 DEF BodyTodos
<1>4. /\ p \in Products \cup {None} /\ m \in Members \cup {None} /\ e \in Emails \cup {None}
      /\ s \in Serials \cup {None} /\ k \in {"exact", "padded"}
  BY <1>2, ConstantsAssumption DEF BodyItems, BodyMembers, BodyEmails, BodySerials, BodyTypings
<1>5. q \in Request
  BY <1>1, <1>3, <1>4, IdleType DEF Request, Body
<1>6. /\ q.op = op /\ q.at = "start" /\ q.writes = {} /\ q.sync = {}
      /\ q.item = p /\ q.member = m
  BY <1>1 DEF Idle, Body
<1>7. /\ op \in {"edit", "delete"} => p \in Products
      /\ op \in {"offboard", "readdress", "dismiss"} => m \in LiveMembers
      /\ op \notin {"offboard", "readdress", "dismiss"} => m = None
  BY <1>2 DEF BodyItems, BodyMembers
<1> QED  BY <1>5, <1>6, <1>7

LEMMA ArriveSafe ==
    ASSUME OverlapAssumption, IInv, NEW r \in Requests, Arrive(r) PROVE IInv'
<1>1. PICK op \in Operations[traffic] : \E q \in Bodies(op) : Continue(r, q)
  BY DEF Arrive
<1>2. PICK q \in Bodies(op) : Continue(r, q)
  BY <1>1
<1>3. traffic \in Traffic /\ op \in OperationKinds
  BY ConstantsAssumption DEF IInv, TypeOK
<1>4. /\ q \in Request
      /\ q.op = op /\ q.at = "start" /\ q.writes = {} /\ q.sync = {}
      /\ op \in {"edit", "delete"} => q.item \in Products
      /\ op \in {"offboard", "readdress", "dismiss"} => q.member \in LiveMembers
      /\ op \notin {"offboard", "readdress", "dismiss"} => q.member = None
  BY <1>3, BodyFields
<1>5. op # "none"
  BY <1>3 DEF OperationKinds, Moving, Creating, Supplying, Joining
<1>6. ~InTransaction(q)
  BY <1>4 DEF InTransaction
<1>7. q.member \in LiveMembers => q.member \in Members /\ View.people[q.member].status # "unused"
  BY DEF LiveMembers, View
<1>8. Phases(q) /\ Synced(q) /\ EditSees(View, q)
  <2>1. Synced(q) /\ EditSees(View, q)
    BY <1>4 DEF Synced, EditSees
  <2>2. Phases(q)
    <3>1. /\ q.op # "none" /\ q.at = "start" /\ q.writes = {} /\ q.sync = {}
      BY <1>4, <1>5
    <3>2. q.op \in {"readdress", "offboard", "dismiss"} => q.member \in Members
      BY <1>4, <1>7
    <3>3. q.op \in Supplying => q.member = None
      BY <1>4 DEF Supplying
    <3>4. q.op \in {"edit", "delete"} => q.item \in Products
      BY <1>4
    <3> QED  BY <3>1, <3>2, <3>3, <3>4 DEF Phases
  <2> QED  BY <2>1, <2>2
<1>9. RequestSound(View, q, astray)
  BY <1>4, <1>5, <1>6, <1>7, <1>8, NothingWritten
<1>10. FitsTraffic(q)
  BY <1>1, <1>3, <1>4, <1>5, <1>6
  DEF FitsTraffic, SeesTodo, CreatesUnderEmail, Overlapping, OverlapAssumption, Alone
<1>11. Apart(r, q) /\ (Alone => Quiet)
  BY <1>4 DEF Apart, Arrive
<1> QED
  BY <1>2, <1>4, <1>9, <1>10, <1>11, GhostTypes, ContinueSafe
  DEF Arrive, UnchangedStores, UnchangedGhosts

LEMMA BeginSafe == ASSUME IInv, NEW r \in Requests, Begin(r) PROVE IInv'
<1> DEFINE q == requests[r]
<1>1. /\ q \in Request /\ RequestSound(View, q, astray) /\ FitsTraffic(q) /\ Busy(r)
      /\ q.op \in Transactions /\ q.at = "start"
  BY Known DEF Begin, At, Transactions, Moving, Joining
<1>2. PICK at \in {"work", "dismiss"} :
         /\ Continue(r, [q EXCEPT !.view = View, !.dirty = {}, !.at = at])
         /\ at = "dismiss" => q.op = "offboard"
         /\ at = "work" /\ q.op = "offboard" => q.todo # {}
  BY DEF Begin, At
<1> DEFINE q2 == [q EXCEPT !.view = View, !.dirty = {}, !.at = at]
<1>3. View \in ViewType
  BY GhostTypes
<1>4. /\ q2.op = q.op /\ q2.at = at /\ q2.item = q.item /\ q2.todo = q.todo /\ q2.member = q.member
      /\ q2.view = View /\ q2.writes = q.writes /\ q2.sync = q.sync /\ q2.email = q.email
  BY <1>1 DEF Request
<1>5. q2 \in Request
  BY <1>1, <1>3 DEF Request, ViewType
<1>6. q2.writes = {} /\ q2.sync = {} /\ q.op \notin {"none", "edit", "create", "import", "stock", "supply", "dismiss"}
  BY <1>1, <1>4 DEF RequestSound, Phases, Transactions, Moving, Joining
<1>7. RequestSound(View, q2, astray)
  <2>1. Phases(q2) /\ Synced(q2) /\ EditSees(View, q2)
    BY <1>1, <1>2, <1>4, <1>6 DEF RequestSound, Phases, Synced, EditSees, Supplying
  <2>2. ~HalfDeleted(q2) /\ \A p : After(q2, p) = {}
    BY <1>4, <1>6 DEF HalfDeleted, After
  <2>3. OneWritten(q2) /\ OneAfter(View, q2, astray)
    BY <2>2 DEF OneWritten, OneAfter
  <2>4. SnapshotValid(View, q2)
    BY <1>4 DEF SnapshotValid, Same
  <2>5. MembersUsed(View, q2)
    <3>1. q.op = "readdress" => q.member # None /\ View.people[q.member].status # "unused"
      BY <1>1, NoneIsNoDoc DEF RequestSound, MembersUsed, Phases
    <3> QED  BY <1>4, <1>6, <3>1 DEF MembersUsed, IInv, Creating
  <2> QED  BY <2>1, <2>3, <2>4, <2>5 DEF RequestSound
<1>8. FitsTraffic(q2)
  BY <1>1, <1>4, <1>6 DEF FitsTraffic, SeesTodo, CreatesUnderEmail, Overlapping
<1>9. Apart(r, q2)
  BY <1>6 DEF Apart
<1> HIDE DEF q2
<1>10. Continue(r, q2)
  BY <1>2 DEF q2
<1> QED
  BY <1>1, <1>5, <1>7, <1>8, <1>9, <1>10, GhostTypes, ContinueSafe
  DEF Begin, UnchangedStores, UnchangedGhosts

LEMMA SyncedByType ==
    ASSUME IInv, NEW q \in Request, NEW p \in q.sync, Synced(q) PROVE SyncedBy(q, p) \in Copy
<1> DEFINE inPool == Stored(q.view, p)
           m == CHOOSE x \in Holders(q.view, p) : TRUE
           item == IF inPool THEN q.view.pool[p] ELSE q.view.people[m].has[p]
<1>1. p \in Products /\ q.view \in ViewType
  BY RequestFields
<1>2. Homes(q.view, p) # {}
  BY DEF Synced
<1>3. inPool \/ (m \in Members /\ q.view.people[m].has[p] # Absent)
  BY <1>1, <1>2, HomesAre DEF Holders
<1>4. item \in Item
  BY <1>1, <1>3, ViewFields, SlotFields DEF Stored
<1>5. item.gone \in BOOLEAN /\ item.serial \in Serials \cup {None}
  BY <1>4 DEF Item
<1>6. copies[p].serial \in Serials \cup {None}
  BY <1>1 DEF IInv, TypeOK, Copy
<1> DEFINE source == CASE q.op = "join"   -> "products"
                       [] q.op = "import" -> IF item.email # None THEN "members" ELSE "products"
                       [] OTHER           -> IF inPool THEN "products" ELSE "members"
           holder == IF inPool THEN None ELSE IF q.op = "join" THEN Invented ELSE m
           cleared == q.op = "edit" /\ q.serial = None
<1>7. source \in {"none", "products", "members"} /\ holder \in Members \cup {None, Invented}
  BY <1>3
<1>8. SyncedBy(q, p) = Copied(copies[p], source, holder, item, cleared)
  BY DEF SyncedBy
<1> HIDE DEF source, holder, item, cleared
<1> QED  BY <1>5, <1>6, <1>7, <1>8 DEF Copied, Copy

\* A request that goes on without a new view or new writes.
LEMMA GoesOn ==
    ASSUME IInv, NEW r \in Requests, NEW q \in Request, q = requests[r], NEW q2 \in Request,
           q2.op = q.op, q2.item = q.item, q2.todo = q.todo, q2.member = q.member, q2.email = q.email,
           q2.view = q.view, q2.dirty = q.dirty, q2.writes = q.writes, q2.sync \subseteq q.sync,
           q.at = "sync", q2.at \in {"sync", "work", "commit"},
           q2.at = "work" => q.op = "bulk",
           q2.at # "sync" => q2.sync = {},
           q.op # "none"
    PROVE  RequestSound(View, q2, astray) /\ FitsTraffic(q2) /\ Apart(r, q2)
<1>1. RequestSound(View, q, astray) /\ FitsTraffic(q) /\ Apart(r, q)
  BY Known
<1>2. ~HalfDeleted(q) /\ ~HalfDeleted(q2) /\ (InTransaction(q2) => InTransaction(q))
  BY DEF HalfDeleted, InTransaction
<1>3. Phases(q2)
  BY <1>1 DEF RequestSound, Phases
<1>4. Synced(q2) /\ EditSees(View, q2) /\ OneWritten(q2)
  BY <1>1, <1>2 DEF RequestSound, Synced, EditSees, OneWritten
<1>5. SnapshotValid(View, q2)
  BY <1>1, <1>2 DEF RequestSound, SnapshotValid
<1>6. OneAfter(View, q2, astray)
  BY <1>1, <1>2 DEF RequestSound, OneAfter, After, Before
<1>7. MembersUsed(View, q2)
  BY <1>1, <1>2 DEF RequestSound, MembersUsed
<1>8. FitsTraffic(q2)
  BY <1>1, <1>2 DEF FitsTraffic, SeesTodo, CreatesUnderEmail, Overlapping
<1>9. Apart(r, q2)
  BY <1>1 DEF Apart
<1> QED  BY <1>3, <1>4, <1>5, <1>6, <1>7, <1>8, <1>9 DEF RequestSound

LEMMA SyncSafe == ASSUME IInv, NEW r \in Requests, Sync(r) PROVE IInv'
<1> DEFINE q == requests[r]
<1>1. PICK p \in q.sync :
          /\ copies' = [copies EXCEPT ![p] = SyncedBy(q, p)]
          /\ IF q.sync # {p} THEN Continue(r, [q EXCEPT !.sync = @ \ {p}, !.copied = @ \cup {p}])
             ELSE IF q.writes = {} THEN Finish(r)
             ELSE Continue(r, [q EXCEPT !.sync = {}, !.copied = @ \cup {p},
                                  !.at = IF q.op = "bulk" /\ q.todo # {} THEN "work" ELSE "commit"])
  BY DEF Sync
<1>2. /\ q \in Request /\ RequestSound(View, q, astray) /\ q.at = "sync"
      /\ pool' = pool /\ people' = people /\ UnchangedGhosts
  BY Known DEF Sync
<1>3. q.op # "none" /\ Busy(r)
  BY <1>2, Known DEF RequestSound, Phases, Idle
<1>4. copies' \in [Products -> Copy]
  <2>1. SyncedBy(q, p) \in Copy
    BY <1>2, SyncedByType DEF RequestSound
  <2> QED  BY <1>1, <2>1, GhostTypes
<1>5. p \in Products /\ q.copied \cup {p} \subseteq Products
  BY <1>2, RequestFields
<1>6. CASE q.sync # {p}
  <2> DEFINE q2 == [q EXCEPT !.sync = @ \ {p}, !.copied = @ \cup {p}]
  <2>1. q2 \in Request
    BY <1>2, <1>5 DEF Request
  <2>2. /\ q2.op = q.op /\ q2.item = q.item /\ q2.todo = q.todo /\ q2.member = q.member /\ q2.email = q.email
        /\ q2.view = q.view /\ q2.dirty = q.dirty /\ q2.writes = q.writes /\ q2.sync \subseteq q.sync
        /\ q2.at = "sync"
    BY <1>2 DEF Request
  <2>3. Continue(r, q2)
    BY <1>1, <1>6
  <2> HIDE DEF q2
  <2>4. RequestSound(View, q2, astray) /\ FitsTraffic(q2) /\ Apart(r, q2)
    BY <1>2, <1>3, <2>1, <2>2, GoesOn
  <2> QED  BY <1>2, <1>3, <1>4, <2>1, <2>3, <2>4, GhostTypes, ContinueSafe DEF UnchangedGhosts
<1>7. CASE q.sync = {p} /\ q.writes = {}
  BY <1>1, <1>2, <1>3, <1>4, <1>7, GhostTypes, FinishSafe DEF UnchangedGhosts
<1>8. CASE q.sync = {p} /\ q.writes # {}
  <2> DEFINE at == IF q.op = "bulk" /\ q.todo # {} THEN "work" ELSE "commit"
             q2 == [q EXCEPT !.sync = {}, !.copied = @ \cup {p}, !.at = at]
  <2>1. q2 \in Request
    BY <1>2, <1>5 DEF Request
  <2>2. /\ q2.op = q.op /\ q2.item = q.item /\ q2.todo = q.todo /\ q2.member = q.member /\ q2.email = q.email
        /\ q2.view = q.view /\ q2.dirty = q.dirty /\ q2.writes = q.writes /\ q2.sync = {}
        /\ q2.at \in {"work", "commit"} /\ (q2.at = "work" => q.op = "bulk")
    BY <1>2 DEF Request
  <2>3. Continue(r, q2)
    BY <1>1, <1>8
  <2> HIDE DEF q2
  <2>4. RequestSound(View, q2, astray) /\ FitsTraffic(q2) /\ Apart(r, q2)
    BY <1>2, <1>3, <2>1, <2>2, GoesOn
  <2> QED  BY <1>2, <1>3, <1>4, <2>1, <2>3, <2>4, GhostTypes, ContinueSafe DEF UnchangedGhosts
<1> QED  BY <1>6, <1>7, <1>8

LEMMA FailSafe == ASSUME IInv, NEW r \in Requests, Fail(r) PROVE IInv'
<1> DEFINE q == requests[r]
<1>1. Busy(r) /\ failed' = TRUE /\ UnchangedStores /\ UNCHANGED <<astray, renamed, traffic>>
  BY DEF Fail
<1>2. CASE Abort(r)
  BY <1>1, <1>2, AbortSafe, GhostTypes DEF UnchangedStores
<1>3. ASSUME q.op = "delete", Continue(r, [Idle EXCEPT !.op = "delete", !.item = q.item]), undone' = undone
      PROVE  IInv'
  <2> DEFINE q2 == [Idle EXCEPT !.op = "delete", !.item = q.item]
  <2>1. q \in Request /\ q.item \in Products
    BY <1>3, Known DEF RequestSound, Phases
  <2>2. q2 \in Request
    BY <2>1, IdleType DEF Request, OperationKinds
  <2>3. /\ q2.op = "delete" /\ q2.at = "start" /\ q2.item = q.item /\ q2.writes = {} /\ q2.sync = {}
        /\ q2.member = None
    BY DEF Idle
  <2> HIDE DEF q2
  <2>4. ~InTransaction(q2)
    BY <2>3 DEF InTransaction
  <2>5. Phases(q2) /\ Synced(q2) /\ EditSees(View, q2)
    BY <2>1, <2>3 DEF Phases, Synced, EditSees, Supplying
  <2>6. RequestSound(View, q2, astray)
    BY <2>3, <2>4, <2>5, NothingWritten
  <2>7. FitsTraffic(q2) /\ Apart(r, q2)
    BY <2>3, <2>4 DEF FitsTraffic, SeesTodo, CreatesUnderEmail, Overlapping, OperationKinds, Apart
  <2>8. Continue(r, q2)
    BY <1>3 DEF q2
  <2> QED  BY <1>1, <1>3, <2>2, <2>6, <2>7, <2>8, GhostTypes, ContinueSafe DEF UnchangedStores
<1> QED  BY <1>2, <1>3 DEF Fail

-----------------------------------------------------------------------------
\* Steps that look something up.

LEMMA LookSafe ==
    ASSUME IInv, NEW r \in Requests, NEW q \in Request, Continue(r, q), UnchangedStores, UnchangedGhosts,
           Busy(r), q.writes = {}, ~InTransaction(q), q.op # "none",
           Phases(q), Synced(q), EditSees(View, q),
           q.member # None /\ q.op \in Creating \cup {"readdress"} => View.people[q.member].status # "unused",
           CreatesUnderEmail(View, q), ~Alone => Overlapping(q)
    PROVE  IInv'
<1>1. RequestSound(View, q, astray)
  BY NothingWritten
<1>2. FitsTraffic(q) /\ Apart(r, q)
  BY DEF FitsTraffic, SeesTodo, Apart
<1> QED  BY <1>1, <1>2, GhostTypes, ContinueSafe DEF UnchangedStores, UnchangedGhosts

LEMMA LookFinishes ==
    ASSUME IInv, NEW r \in Requests, Finish(r), Busy(r), UnchangedStores, UnchangedGhosts PROVE IInv'
BY GhostTypes, FinishSafe DEF UnchangedStores, UnchangedGhosts

LEMMA OwnedSafe ==
    ASSUME IInv, NEW r \in Requests, At(r, {"create", "import"}, "start"), Owned(r),
           UnchangedStores, UnchangedGhosts
    PROVE  IInv'
<1> DEFINE q == requests[r]
<1>1. /\ q \in Request /\ RequestSound(View, q, astray) /\ FitsTraffic(q) /\ Busy(r)
      /\ q.op \in {"create", "import"} /\ q.at = "start"
  BY Known DEF At
<1>2. PICK m \in IF Found(View, q.email) = {} THEN {None} ELSE Found(View, q.email) :
        Continue(r, [q EXCEPT !.at = "insert", !.member = IF q.email = None THEN None ELSE m])
  BY DEF Owned
<1> DEFINE n == IF q.email = None THEN None ELSE m
           q2 == [q EXCEPT !.at = "insert", !.member = n]
<1>3. n = None \/ (n \in Members /\ View.people[n].status # "unused" /\ View.people[n].email = q.email)
  BY <1>2 DEF Found
<1>4. q2 \in Request
  BY <1>1, <1>3 DEF Request
<1>5. /\ q2.op = q.op /\ q2.at = "insert" /\ q2.member = n /\ q2.email = q.email
      /\ q2.writes = q.writes /\ q2.sync = q.sync
  BY <1>1 DEF Request
<1>6. Continue(r, q2)
  BY <1>2
<1> HIDE DEF q2, n
<1>7. q2.writes = {} /\ q2.sync = {}
  BY <1>1, <1>5 DEF RequestSound, Phases
<1>8. ~InTransaction(q2)
  BY <1>5 DEF InTransaction
<1>9. Phases(q2) /\ Synced(q2) /\ EditSees(View, q2)
  BY <1>1, <1>5, <1>7 DEF Phases, Synced, EditSees, Supplying
<1>10. CreatesUnderEmail(View, q2)
  BY <1>3, <1>5 DEF CreatesUnderEmail
<1>11. ~Alone => Overlapping(q2)
  BY <1>1, <1>5 DEF FitsTraffic, Overlapping
<1> QED
  BY <1>1, <1>3, <1>4, <1>5, <1>6, <1>7, <1>8, <1>9, <1>10, <1>11, LookSafe

LEMMA CreateLookSafe == ASSUME IInv, NEW r \in Requests, CreateLook(r) PROVE IInv'
<1>1. At(r, {"create", "import"}, "start") /\ UnchangedStores /\ UnchangedGhosts /\ Busy(r)
  BY Known DEF CreateLook, At
<1>2. Finish(r) \/ Owned(r)
  BY DEF CreateLook
<1> QED  BY <1>1, <1>2, OwnedSafe, LookFinishes

LEMMA ImportLookSafe == ASSUME IInv, NEW r \in Requests, ImportLook(r) PROVE IInv'
<1>1. At(r, {"create", "import"}, "start") /\ UnchangedStores /\ UnchangedGhosts /\ Busy(r)
  BY Known DEF ImportLook, At
<1>2. Finish(r) \/ Owned(r)
  BY DEF ImportLook
<1> QED  BY <1>1, <1>2, OwnedSafe, LookFinishes

LEMMA SupplyingLookSafe ==
    ASSUME IInv, NEW r \in Requests, At(r, Supplying, "start"), UnchangedStores, UnchangedGhosts,
           Finish(r) \/ Continue(r, [requests[r] EXCEPT !.at = "insert"])
    PROVE  IInv'
<1> DEFINE q == requests[r]
           q2 == [q EXCEPT !.at = "insert"]
<1>1. /\ q \in Request /\ RequestSound(View, q, astray) /\ FitsTraffic(q) /\ Busy(r)
      /\ q.op \in {"stock", "supply"} /\ q.at = "start"
  BY Known DEF At, Supplying
<1>2. CASE Finish(r)
  BY <1>1, <1>2, LookFinishes
<1>3. CASE Continue(r, q2)
  <2>1. q2 \in Request
    BY <1>1 DEF Request
  <2>2. /\ q2.op = q.op /\ q2.at = "insert" /\ q2.member = q.member
        /\ q2.writes = q.writes /\ q2.sync = q.sync
    BY <1>1 DEF Request
  <2> HIDE DEF q2
  <2>3. q2.writes = {} /\ q2.sync = {} /\ q2.member = None
    BY <1>1, <2>2 DEF RequestSound, Phases, Supplying
  <2>4. ~InTransaction(q2)
    BY <2>2 DEF InTransaction
  <2>5. Phases(q2) /\ Synced(q2) /\ EditSees(View, q2) /\ CreatesUnderEmail(View, q2)
    BY <1>1, <2>2, <2>3 DEF Phases, Synced, EditSees, CreatesUnderEmail
  <2>6. ~Alone => Overlapping(q2)
    BY <1>1, <2>2 DEF FitsTraffic, Overlapping
  <2> QED  BY <1>1, <1>3, <2>1, <2>2, <2>3, <2>4, <2>5, <2>6, LookSafe
<1> QED  BY <1>2, <1>3

LEMMA StockLookSafe == ASSUME IInv, NEW r \in Requests, StockLook(r) PROVE IInv'
<1>1. At(r, Supplying, "start")
  BY DEF StockLook, At, Supplying
<1> QED  BY <1>1, SupplyingLookSafe DEF StockLook

LEMMA SupplyLookSafe == ASSUME IInv, NEW r \in Requests, SupplyLook(r) PROVE IInv'
<1>1. At(r, Supplying, "start")
  BY DEF SupplyLook, At, Supplying
<1> QED  BY <1>1, SupplyingLookSafe DEF SupplyLook

LEMMA EditLookSafe == ASSUME IInv, NEW r \in Requests, EditLook(r) PROVE IInv'
<1> DEFINE q == requests[r]
<1>1. /\ q \in Request /\ RequestSound(View, q, astray) /\ FitsTraffic(q) /\ Busy(r)
      /\ q.op = "edit" /\ q.at = "start" /\ UnchangedStores /\ UnchangedGhosts
  BY Known DEF EditLook, At
<1>2. \/ Finish(r)
      \/ \E m \in Holders(View, q.item) \cup {None} :
            Continue(r, [q EXCEPT !.at = "write", !.member = m, !.dirty = {}])
  BY DEF EditLook
<1>3. CASE Finish(r)
  BY <1>1, <1>3, LookFinishes
<1>4. ASSUME NEW m \in Holders(View, q.item) \cup {None},
             Continue(r, [q EXCEPT !.at = "write", !.member = m, !.dirty = {}])
      PROVE  IInv'
  <2> DEFINE q2 == [q EXCEPT !.at = "write", !.member = m, !.dirty = {}]
  <2>1. m \in Members \cup {None}
    BY DEF Holders
  <2>2. q2 \in Request
    BY <1>1, <2>1 DEF Request
  <2>3. /\ q2.op = "edit" /\ q2.at = "write" /\ q2.member = m /\ q2.item = q.item
        /\ q2.writes = q.writes /\ q2.sync = q.sync
    BY <1>1 DEF Request
  <2>4. Continue(r, q2)
    BY <1>4
  <2> HIDE DEF q2
  <2>5. q2.writes = {} /\ q2.sync = {} /\ q2.item \in Products
    BY <1>1, <2>3 DEF RequestSound, Phases
  <2>6. ~InTransaction(q2)
    BY <2>3 DEF InTransaction
  <2>7. Synced(q2) /\ CreatesUnderEmail(View, q2)
    BY <2>3, <2>5 DEF Synced, CreatesUnderEmail
  <2>8. EditSees(View, q2)
    BY <1>4, <2>3 DEF EditSees, Holders
  <2>9. Phases(q2)
    BY <2>3, <2>5 DEF Phases, Supplying
  <2>10. ~Alone => Overlapping(q2)
    BY <1>1, <2>3 DEF FitsTraffic, Overlapping
  <2>11. q2.op \notin Creating \cup {"readdress", "none"}
    BY <2>3 DEF Creating
  <2> QED  BY <1>1, <2>2, <2>4, <2>5, <2>6, <2>7, <2>8, <2>9, <2>10, <2>11, LookSafe
<1> QED  BY <1>2, <1>3, <1>4

LEMMA DismissLookSafe == ASSUME IInv, NEW r \in Requests, DismissLook(r) PROVE IInv'
<1> DEFINE q == requests[r]
           q2 == [q EXCEPT !.op = "dismiss", !.at = "write", !.view = NoView]
<1>1. /\ q \in Request /\ RequestSound(View, q, astray) /\ FitsTraffic(q) /\ Busy(r)
      /\ q.op \in {"dismiss", "offboard"} /\ q.at \in {"start", "dismiss"}
      /\ UnchangedStores /\ UnchangedGhosts
  BY Known DEF DismissLook, At
<1>2. Finish(r) \/ Continue(r, q2)
  BY DEF DismissLook
<1>3. CASE Finish(r)
  BY <1>1, <1>3, LookFinishes
<1>4. CASE Continue(r, q2)
  <2>1. q2 \in Request
    BY <1>1, NoViewType DEF Request, ViewType, OperationKinds
  <2>2. /\ q2.op = "dismiss" /\ q2.at = "write" /\ q2.member = q.member
        /\ q2.writes = q.writes /\ q2.sync = q.sync
    BY <1>1 DEF Request
  <2> HIDE DEF q2
  <2>3. q2.writes = {} /\ q2.sync = {} /\ q2.member \in Members
    BY <1>1, <2>2 DEF RequestSound, Phases, Supplying
  <2>4. ~InTransaction(q2)
    BY <2>2 DEF InTransaction
  <2>5. Phases(q2) /\ Synced(q2) /\ EditSees(View, q2) /\ CreatesUnderEmail(View, q2)
    BY <2>2, <2>3 DEF Phases, Synced, EditSees, CreatesUnderEmail, Supplying
  <2>6. Overlapping(q2)
    BY <2>2 DEF Overlapping, OperationKinds
  <2>7. q2.op \notin Creating \cup {"readdress", "none"}
    BY <2>2 DEF Creating
  <2> QED  BY <1>1, <1>4, <2>1, <2>3, <2>4, <2>5, <2>6, <2>7, LookSafe
<1> QED  BY <1>2, <1>3, <1>4

-----------------------------------------------------------------------------
\* What the helpers make of a view.

NewItem(q) == [email |-> q.email, named |-> q.member # None, serial |-> q.serial, gone |-> FALSE]

LEMMA NewItemType == ASSUME NEW q \in Request PROVE NewItem(q) \in Item /\ NewItem(q) \in Slot /\ NewItem(q) # Absent
<1>1. NewItem(q) \in Item
  BY RequestFields DEF NewItem, Item
<1> QED  BY <1>1, ItemIsSlot

LEMMA FiledFields ==
    ASSUME IInv, NEW q \in Request, NEW p \in Products
    PROVE  /\ Filed(q, p) \in ViewType
           /\ q.member = None =>
                 /\ Filed(q, p).pool = [View.pool EXCEPT ![p] = NewItem(q)]
                 /\ Filed(q, p).people = View.people /\ FiledIn(q, p) = {p}
           /\ q.member # None =>
                 /\ q.member \in Members
                 /\ Filed(q, p).pool = View.pool /\ FiledIn(q, p) = {p, q.member}
                 /\ \A m \in Members :
                       /\ Filed(q, p).people[m].status = View.people[m].status
                       /\ Filed(q, p).people[m].email = View.people[m].email
                 /\ \A m \in Members, x \in Products :
                       Filed(q, p).people[m].has[x] =
                           IF m = q.member /\ x = p THEN NewItem(q) ELSE View.people[m].has[x]
                 /\ \A m \in Members \ {q.member} : Filed(q, p).people[m] = View.people[m]
<1>1. View \in ViewType /\ NewItem(q) \in Slot /\ q.member \in Members \cup {None}
  BY GhostTypes, NewItemType, RequestFields
<1>2. View.pool \in [Products -> Slot] /\ View.people \in [Members -> Person]
  BY <1>1 DEF ViewType
<1>3. CASE q.member = None
  <2>1. Filed(q, p) = [View EXCEPT !.pool[p] = NewItem(q)] /\ FiledIn(q, p) = {p}
    BY <1>3 DEF Filed, FiledIn, NewItem
  <2> QED  BY <1>1, <1>2, <1>3, <2>1 DEF ViewType
<1>4. CASE q.member # None
  <2>1. Filed(q, p) = [View EXCEPT !.people[q.member].has[p] = NewItem(q)] /\ FiledIn(q, p) = {p, q.member}
    BY <1>4 DEF Filed, FiledIn, NewItem
  <2>2. /\ Filed(q, p).pool = View.pool
        /\ Filed(q, p).people = [View.people EXCEPT ![q.member].has[p] = NewItem(q)]
        /\ Filed(q, p) = [pool |-> Filed(q, p).pool, people |-> Filed(q, p).people]
    BY <1>1, <2>1 DEF ViewType
  <2>3. [View.people[q.member] EXCEPT !.has[p] = NewItem(q)] \in Person
    BY <1>1, <1>2, <1>4 DEF Person
  <2>4. Filed(q, p).people \in [Members -> Person]
    BY <1>1, <1>2, <1>4, <2>2, <2>3
  <2>5. Filed(q, p) \in ViewType
    BY <1>2, <2>2, <2>4 DEF ViewType
  <2>6. \A m \in Members : Filed(q, p).people[m] =
            IF m = q.member THEN [View.people[m] EXCEPT !.has[p] = NewItem(q)] ELSE View.people[m]
    BY <1>1, <1>2, <1>4, <2>2
  <2>7. \A m \in Members : View.people[m] \in Person
    BY <1>2
  <2> QED  BY <1>1, <1>4, <2>1, <2>2, <2>5, <2>6, <2>7 DEF Person
<1> QED  BY <1>3, <1>4

LEMMA FiledStatus ==
    ASSUME IInv, NEW q \in Request, NEW p \in Products
    PROVE  \A m \in Members : /\ Filed(q, p).people[m].status = View.people[m].status
                              /\ Filed(q, p).people[m].email = View.people[m].email
<1>1. CASE q.member = None
  <2>1. Filed(q, p).people = View.people
    BY <1>1, FiledFields
  <2> QED  BY <2>1
<1>2. CASE q.member # None
  BY <1>2, FiledFields
<1> QED  BY <1>1, <1>2

\* The new product is where it was filed, and no other product is elsewhere.
LEMMA FiledHomes ==
    ASSUME IInv, NEW q \in Request, NEW p \in Fresh
    PROVE  /\ p \in Products /\ Homes(View, p) = {}
           /\ \E d \in FiledIn(q, p) : Homes(Filed(q, p), p) = {d}
           /\ \A x \in Products \ {p} : Homes(Filed(q, p), x) = Homes(View, x)
           /\ \A d \in Docs \ FiledIn(q, p) : Same(View, Filed(q, p), d)
           /\ FiledIn(q, p) \subseteq Docs
<1>1. p \in Products /\ View \in ViewType /\ Filed(q, p) \in ViewType /\ NewItem(q) # Absent
  BY GhostTypes, FiledFields, NewItemType DEF Fresh
<1>2. Homes(View, p) = {}
  BY <1>1, HomesAre DEF Fresh
<1>3. ~Stored(View, p) /\ \A m \in Members : View.people[m].has[p] = Absent
  BY <1>1, <1>2, HomesAre DEF Holders
<1>4. CASE q.member = None
  <2>1. Filed(q, p).pool = [View.pool EXCEPT ![p] = NewItem(q)] /\ Filed(q, p).people = View.people
        /\ FiledIn(q, p) = {p}
    BY <1>1, <1>4, FiledFields
  <2>2. Homes(Filed(q, p), p) = {p}
    BY <1>1, <1>3, <2>1, DocsDiffer DEF Homes, ViewType
  <2>3. \A x \in Products \ {p} : Homes(Filed(q, p), x) = Homes(View, x)
    BY <1>1, <2>1 DEF Homes, ViewType
  <2> QED  BY <1>1, <1>2, <2>1, <2>2, <2>3, DocsDiffer DEF Same, ViewType
<1>5. CASE q.member # None
  <2>1. /\ q.member \in Members
        /\ Filed(q, p).pool = View.pool /\ FiledIn(q, p) = {p, q.member}
        /\ \A m \in Members, x \in Products :
              Filed(q, p).people[m].has[x] = IF m = q.member /\ x = p THEN NewItem(q) ELSE View.people[m].has[x]
        /\ \A m \in Members \ {q.member} : Filed(q, p).people[m] = View.people[m]
    BY <1>1, <1>5, FiledFields
  <2>2. Homes(Filed(q, p), p) = {q.member}
    BY <1>1, <1>3, <2>1, DocsDiffer DEF Homes, Stored
  <2>3. \A x \in Products \ {p} : Homes(Filed(q, p), x) = Homes(View, x)
    BY <2>1 DEF Homes
  <2> QED  BY <1>1, <1>2, <2>1, <2>2, <2>3, DocsDiffer DEF Same
<1> QED  BY <1>4, <1>5

\* What an attachment makes of a view, product by product and place by place.
AttachedFits(v, m, e, w) ==
    LET S == Waiting(v, e) IN
    /\ S \subseteq Products /\ w \in ViewType
    /\ \A p \in S : w.pool[p] = Absent /\ v.pool[p] # Absent
    /\ \A p \in Products \ S : w.pool[p] = v.pool[p]
    /\ \A n \in Members \ {m} : w.people[n] = v.people[n]
    /\ w.people[m].status = "live" /\ w.people[m].email = e
    /\ \A p \in S : w.people[m].has[p] # Absent /\ w.people[m].has[p].email = e
    /\ \A p \in Products \ S : w.people[m].has[p] = v.people[m].has[p]

AttachedMoves(v, m, e, w) ==
    LET S == Waiting(v, e) IN
    /\ \A p \in S : p \in Homes(v, p) /\ Homes(w, p) = (Homes(v, p) \ {p}) \cup {m}
    /\ \A p \in Products \ S : Homes(w, p) = Homes(v, p)
    /\ \A d \in Docs \ ({m} \cup S) : Same(w, v, d)

LEMMA AttachedFields ==
    ASSUME NEW v \in ViewType, NEW m \in Members, NEW e \in Emails \cup {None}, NEW named \in BOOLEAN
    PROVE  AttachedFits(v, m, e, Attached(v, m, e, named))
<1> DEFINE S == Waiting(v, e)
           w == Attached(v, m, e, named)
           has == [p \in Products |->
                     IF p \in S THEN [v.pool[p] EXCEPT !.named = @ \/ named] ELSE v.people[m].has[p]]
           person == [status |-> "live", email |-> e, has |-> has]
<1>1. v.pool \in [Products -> Slot] /\ v.people \in [Members -> Person] /\ v = [pool |-> v.pool, people |-> v.people]
  BY ViewFields
<1>2. \A p \in S : p \in Products /\ v.pool[p] # Absent /\ v.pool[p] \in Item /\ v.pool[p].email = e
  BY <1>1, SlotFields DEF Waiting, Stored
<1>3. w = [v EXCEPT !.pool = [p \in Products |-> IF p \in S THEN Absent ELSE v.pool[p]], !.people[m] = person]
  BY DEF Attached
<1>4. \A p \in S : has[p] \in Item /\ has[p].email = e
  <2> SUFFICES ASSUME NEW p \in S PROVE has[p] \in Item /\ has[p].email = e
    OBVIOUS
  <2>1. v.pool[p].named \/ named \in BOOLEAN
    BY <1>2 DEF Item
  <2>2. has[p] = [v.pool[p] EXCEPT !.named = @ \/ named]
    BY <1>2
  <2> QED  BY <1>2, <2>1, <2>2 DEF Item
<1>5. \A p \in S : has[p] \in Slot /\ has[p] # Absent
  BY <1>4, ItemIsSlot
<1>6. has \in [Products -> Slot]
  BY <1>5, ViewFields
<1>7. person \in Person
  BY <1>6 DEF Person
<1>8. Absent \in Slot
  BY DEF Slot
<1> DEFINE left == [p \in Products |-> IF p \in S THEN Absent ELSE v.pool[p]]
<1>9. left \in [Products -> Slot] /\ w = [v EXCEPT !.pool = left, !.people[m] = person]
  BY <1>1, <1>3, <1>8
<1>10. /\ w \in ViewType
       /\ w.pool = left
       /\ \A n \in Members \ {m} : w.people[n] = v.people[n]
       /\ w.people[m] = person
  <2> HIDE DEF left, person, w
  <2> QED  BY <1>7, <1>9 DEF ViewType
<1>11. \A p \in Products \ S : has[p] = v.people[m].has[p]
  OBVIOUS
<1> HIDE DEF has
<1>12. S \subseteq Products
  BY <1>2
<1>13. \A p \in S : w.people[m].has[p] # Absent /\ w.people[m].has[p].email = e
  BY <1>4, <1>5, <1>10
<1>14. \A p \in Products : w.pool[p] = IF p \in S THEN Absent ELSE v.pool[p]
  BY <1>10
<1>15. /\ w.people[m].status = "live" /\ w.people[m].email = e
       /\ \A p \in Products \ S : w.people[m].has[p] = v.people[m].has[p]
  BY <1>10, <1>11
<1>16. w \in ViewType /\ \A n \in Members \ {m} : w.people[n] = v.people[n]
  BY <1>10
<1> HIDE DEF w
<1>17. AttachedFits(v, m, e, w)
  BY <1>2, <1>12, <1>13, <1>14, <1>15, <1>16 DEF AttachedFits
<1> QED  BY <1>17 DEF w

\* What waited goes from the pool to the member.
LEMMA AttachedHomes ==
    ASSUME NEW v \in ViewType, NEW m \in Members, NEW e \in Emails \cup {None}, NEW named \in BOOLEAN
    PROVE  AttachedMoves(v, m, e, Attached(v, m, e, named))
<1> DEFINE S == Waiting(v, e)
           w == Attached(v, m, e, named)
<1>1. /\ S \subseteq Products /\ w \in ViewType
      /\ \A p \in S : w.pool[p] = Absent /\ v.pool[p] # Absent
      /\ \A p \in Products \ S : w.pool[p] = v.pool[p]
      /\ \A n \in Members \ {m} : w.people[n] = v.people[n]
      /\ \A p \in S : w.people[m].has[p] # Absent
      /\ \A p \in Products \ S : w.people[m].has[p] = v.people[m].has[p]
  <2>1. AttachedFits(v, m, e, w)
    BY AttachedFields
  <2> HIDE DEF w
  <2> QED  BY <2>1 DEF AttachedFits
<1> HIDE DEF S, w
<1>2. \A p \in S : p \in Homes(v, p) /\ Homes(w, p) = (Homes(v, p) \ {p}) \cup {m}
  BY <1>1, DocsDiffer DEF Homes
<1>3. \A p \in Products \ S : Homes(w, p) = Homes(v, p)
  BY <1>1, DocsDiffer DEF Homes
<1>4. \A d \in Docs \ ({m} \cup S) : Same(w, v, d)
  BY <1>1 DEF Same
<1>5. AttachedMoves(v, m, e, w)
  BY <1>2, <1>3, <1>4 DEF AttachedMoves, S
<1> QED  BY <1>5 DEF w

-----------------------------------------------------------------------------
\* Steps that write, without the others seeing it.

LEMMA FreshApart ==
    ASSUME IInv, NEW p \in Fresh, NEW s \in Requests PROVE p \notin requests[s].writes
BY DEF Fresh, Writing

LEMMA ImportWriteSafe == ASSUME IInv, NEW r \in Requests, ImportWrite(r) PROVE IInv'
<1> DEFINE q == requests[r]
<1>1. /\ q \in Request /\ RequestSound(View, q, astray) /\ FitsTraffic(q) /\ Busy(r)
      /\ q.op = "import" /\ q.at = "insert" /\ UnchangedStores /\ UnchangedGhosts
  BY Known DEF ImportWrite, At
<1>2. CASE Finish(r)
  BY <1>1, <1>2, LookFinishes
<1>3. ASSUME q.member \notin Writing, NEW p \in Fresh,
             Continue(r, [q EXCEPT !.view = Filed(q, p), !.sync = {p}, !.at = "commit", !.writes = FiledIn(q, p)])
      PROVE  IInv'
  <2> DEFINE q2 == [q EXCEPT !.view = Filed(q, p), !.sync = {p}, !.at = "commit", !.writes = FiledIn(q, p)]
  <2>1. /\ p \in Products /\ Homes(View, p) = {}
        /\ \E d \in FiledIn(q, p) : Homes(Filed(q, p), p) = {d}
        /\ \A x \in Products \ {p} : Homes(Filed(q, p), x) = Homes(View, x)
        /\ FiledIn(q, p) \subseteq Docs
    BY <1>1, FiledHomes
  <2>2. Filed(q, p) \in ViewType
    BY <1>1, <2>1, FiledFields
  <2>3. q2 \in Request
    BY <1>1, <2>1, <2>2 DEF Request, ViewType
  <2>4. /\ q2.op = "import" /\ q2.at = "commit" /\ q2.member = q.member /\ q2.sync = {p}
        /\ q2.view = Filed(q, p) /\ q2.writes = FiledIn(q, p)
    BY <1>1 DEF Request
  <2>5. Continue(r, q2)
    BY <1>3
  <2> HIDE DEF q2
  <2>6. Phases(q2) /\ Synced(q2) /\ EditSees(View, q2)
    BY <2>1, <2>4 DEF Phases, Synced, EditSees, Supplying
  <2>7. ~InTransaction(q2) /\ ~HalfDeleted(q2)
    BY <2>4 DEF InTransaction, HalfDeleted
  <2>8. OneAfter(View, q2, astray)
    <3> SUFFICES ASSUME NEW x \in Products \ astray
                 PROVE  /\ \A d, e \in After(q2, x) : d = e
                        /\ After(q2, x) # {} => Before(View, q2, x) # {} \/ (x \in q2.writes /\ Homes(View, x) = {})
      BY <2>7 DEF OneAfter
    <3>1. CASE x = p
      <4>1. p \in FiledIn(q, p)
        BY DEF FiledIn
      <4> QED  BY <2>1, <2>4, <3>1, <4>1 DEF After
    <3>2. CASE x # p
      BY <2>1, <2>4, <3>2 DEF After, Before, IInv, OneHomeEach
    <3> QED  BY <3>1, <3>2
  <2>9. MembersUsed(View, q2)
    <3>1. q.member # None => View.people[q.member].status # "unused"
      BY <1>1 DEF RequestSound, MembersUsed, Creating
    <3>2. \A m \in FiledIn(q, p) \cap Members :
             m = q.member /\ q.member # None /\ Filed(q, p).people[m].status = View.people[m].status
      <4>1. CASE q.member = None
        BY <2>1, <4>1, DocsDiffer DEF FiledIn
      <4>2. CASE q.member # None
        <5>1. FiledIn(q, p) = {p, q.member}
          BY <4>2 DEF FiledIn
        <5>2. \A m \in Members : Filed(q, p).people[m].status = View.people[m].status
          BY <1>1, <2>1, FiledStatus
        <5> QED  BY <2>1, <4>2, <5>1, <5>2, DocsDiffer
      <4> QED  BY <4>1, <4>2
    <3> QED  BY <2>4, <2>7, <3>1, <3>2 DEF MembersUsed
  <2>10. RequestSound(View, q2, astray)
    BY <2>6, <2>7, <2>8, <2>9 DEF RequestSound, OneWritten, SnapshotValid
  <2>11. FitsTraffic(q2)
    BY <1>1, <2>4, <2>7 DEF FitsTraffic, SeesTodo, CreatesUnderEmail, Overlapping
  <2>12. Apart(r, q2)
    BY <1>3, <2>4, FreshApart DEF Apart, FiledIn, Writing
  <2> QED  BY <1>1, <2>3, <2>5, <2>10, <2>11, <2>12, GhostTypes, ContinueSafe
           DEF UnchangedStores, UnchangedGhosts
<1> QED  BY <1>2, <1>3 DEF ImportWrite

LEMMA SupplyWriteSafe == ASSUME IInv, NEW r \in Requests, SupplyWrite(r) PROVE IInv'
<1> DEFINE q == requests[r]
<1>1. /\ q \in Request /\ RequestSound(View, q, astray) /\ FitsTraffic(q) /\ Busy(r)
      /\ q.op = "supply" /\ q.at = "insert" /\ UnchangedStores /\ UnchangedGhosts
  BY Known DEF SupplyWrite, At
<1>2. CASE Finish(r)
  BY <1>1, <1>2, LookFinishes
<1>3. ASSUME NEW p \in Fresh, NEW x \in Fresh, p # x,
             Continue(r, [q EXCEPT !.at = "commit", !.writes = {p, x}, !.sync = {p, x},
                      !.view = [Filed(q, p) EXCEPT !.pool[x] = [Filed(q, p).pool[p] EXCEPT !.serial = None]]])
      PROVE  IInv'
  <2> DEFINE other == [Filed(q, p).pool[p] EXCEPT !.serial = None]
             w == [Filed(q, p) EXCEPT !.pool[x] = other]
             q2 == [q EXCEPT !.at = "commit", !.writes = {p, x}, !.sync = {p, x}, !.view = w]
  <2>1. q.member = None
    BY <1>1 DEF RequestSound, Phases, Supplying
  <2>2. /\ p \in Products /\ Homes(View, p) = {} /\ x \in Products /\ Homes(View, x) = {}
    BY <1>1, FiledHomes
  <2>3. /\ Filed(q, p) \in ViewType /\ Filed(q, p).pool = [View.pool EXCEPT ![p] = NewItem(q)]
        /\ Filed(q, p).people = View.people
    BY <1>1, <2>1, <2>2, FiledFields
  <2>4. other \in Slot /\ other # Absent
    <3>1. Filed(q, p).pool[p] = NewItem(q) /\ NewItem(q) \in Item
      BY <1>1, <2>2, <2>3, GhostTypes, NewItemType DEF ViewType
    <3>2. other \in Item
      BY <3>1 DEF Item
    <3> QED  BY <3>2, ItemIsSlot
  <2>5. /\ w \in ViewType /\ w.people = View.people
        /\ \A y \in Products : w.pool[y] = IF y = x THEN other ELSE Filed(q, p).pool[y]
    <3> HIDE DEF other
    <3> QED  BY <2>2, <2>3, <2>4 DEF ViewType
  <2> HIDE DEF w
  <2>6. \A y \in Products : w.pool[y] = IF y = x THEN other ELSE IF y = p THEN NewItem(q) ELSE View.pool[y]
    BY <2>2, <2>3, <2>5, GhostTypes DEF ViewType
  <2>7. /\ q2.op = "supply" /\ q2.at = "commit" /\ q2.member = None /\ q2.sync = {p, x}
        /\ q2.view = w /\ q2.writes = {p, x}
    BY <1>1, <2>1 DEF Request
  <2>8. q2 \in Request
    BY <1>1, <2>2, <2>5 DEF Request, ViewType, Docs
  <2>9. Continue(r, q2)
    BY <1>3 DEF w
  <2> HIDE DEF q2, other
  <2>10. /\ \A y \in Products \ {p, x} : Homes(w, y) = Homes(View, y)
         /\ Homes(w, p) = {p} /\ Homes(w, x) = {x}
    <3>1. \A y \in Products \ {p, x} : Homes(w, y) = Homes(View, y)
      BY <2>5, <2>6 DEF Homes
    <3>2. NewItem(q) # Absent
      BY <1>1, NewItemType
    <3>3. \A y \in {p, x}, m \in Members : View.people[m].has[y] = Absent
      BY <2>2, DocsDiffer DEF Homes
    <3>4. Homes(w, p) = {p} /\ Homes(w, x) = {x}
      BY <1>3, <2>2, <2>4, <2>5, <2>6, <3>2, <3>3, DocsDiffer DEF Homes
    <3> QED  BY <3>1, <3>4
  <2>11. Phases(q2) /\ Synced(q2) /\ EditSees(View, q2)
    BY <2>7, <2>10 DEF Phases, Synced, EditSees
  <2>12. ~InTransaction(q2) /\ ~HalfDeleted(q2)
    BY <2>7 DEF InTransaction, HalfDeleted
  <2>13. OneAfter(View, q2, astray)
    <3> SUFFICES ASSUME NEW y \in Products \ astray
                 PROVE  /\ \A d, e \in After(q2, y) : d = e
                        /\ After(q2, y) # {} => Before(View, q2, y) # {} \/ (y \in q2.writes /\ Homes(View, y) = {})
      BY <2>12 DEF OneAfter
    <3>1. CASE y \in {p, x}
      BY <2>2, <2>7, <2>10, <3>1 DEF After
    <3>2. CASE y \notin {p, x}
      BY <2>7, <2>10, <3>2 DEF After, Before, IInv, OneHomeEach
    <3> QED  BY <3>1, <3>2
  <2>14. MembersUsed(View, q2)
    BY <2>2, <2>7, <2>12, DocsDiffer DEF MembersUsed
  <2>15. RequestSound(View, q2, astray)
    BY <2>11, <2>12, <2>13, <2>14 DEF RequestSound, OneWritten, SnapshotValid
  <2>16. FitsTraffic(q2)
    BY <1>1, <2>7, <2>12 DEF FitsTraffic, SeesTodo, CreatesUnderEmail, Overlapping
  <2>17. Apart(r, q2)
    BY <1>3, <2>7, FreshApart DEF Apart
  <2> QED  BY <1>1, <2>8, <2>9, <2>15, <2>16, <2>17, GhostTypes, ContinueSafe
           DEF UnchangedStores, UnchangedGhosts
<1> QED  BY <1>2, <1>3 DEF SupplyWrite

LEMMA MarkedType == ASSUME NEW c \in Copy PROVE Marked(c) \in Copy
BY DEF Copy, Marked

LEMMA DeleteMarkSafe == ASSUME IInv, NEW r \in Requests, DeleteMark(r) PROVE IInv'
<1> DEFINE q == requests[r]
           p == q.item
           next == IF Holders(q.view, p) = {} THEN "commit" ELSE "detach"
           q2 == [q EXCEPT !.copied = {p}, !.at = next]
<1>1. /\ q \in Request /\ RequestSound(View, q, astray) /\ FitsTraffic(q) /\ Apart(r, q) /\ Busy(r)
      /\ q.op = "delete" /\ q.at = "mark"
      /\ pool' = pool /\ people' = people /\ UnchangedGhosts
  BY Known DEF DeleteMark, At
<1>2. InTransaction(q) /\ HalfDeleted(q) /\ p \in Products /\ q.sync = {} /\ q.writes = {p}
  BY <1>1 DEF InTransaction, HalfDeleted, Transactions, RequestSound, Phases, OneWritten
<1>3. Continue(r, q2)
  BY DEF DeleteMark
<1>4. copies' \in [Products -> Copy]
  <2>1. copies \in [Products -> Copy]
    BY GhostTypes
  <2>2. Marked(copies[p]) \in Copy
    <3>1. copies[p] \in Copy
      BY <1>2, <2>1
    <3> QED  BY <3>1, MarkedType
  <2>3. copies' = [copies EXCEPT ![p] = IF @.source = "none" THEN @ ELSE Marked(@)]
    BY DEF DeleteMark
  <2> QED  BY <1>2, <2>1, <2>2, <2>3
<1>5. q2 \in Request
  BY <1>1, <1>2 DEF Request
<1>6. /\ q2.op = "delete" /\ q2.at = next /\ q2.item = p /\ q2.view = q.view /\ q2.writes = q.writes
      /\ q2.sync = q.sync /\ q2.dirty = q.dirty /\ q2.member = q.member
  BY <1>1 DEF Request
<1> HIDE DEF q2
<1>7. Phases(q2) /\ Synced(q2) /\ EditSees(View, q2) /\ OneWritten(q2)
  BY <1>1, <1>2, <1>6 DEF RequestSound, Phases, Synced, EditSees, OneWritten, Supplying
<1>8. SnapshotValid(View, q2)
  BY <1>1, <1>2, <1>6 DEF RequestSound, SnapshotValid
<1>9. MembersUsed(View, q2)
  BY <1>1, <1>2, <1>6 DEF RequestSound, MembersUsed, Creating
<1>10. OneAfter(View, q2, astray)
  <2> SUFFICES ASSUME NEW x \in Products \ astray
               PROVE  IF HalfDeleted(q2) /\ x = q2.item
                      THEN q2.at = "mark" /\ Holders(q2.view, x) = {} => View.pool[x] # Absent
                      ELSE /\ \A d, e \in After(q2, x) : d = e
                           /\ After(q2, x) # {} => Before(View, q2, x) # {} \/ (x \in q2.writes /\ Homes(View, x) = {})
    BY DEF OneAfter
  <2>1. CASE x # p
    BY <1>1, <1>6, <2>1 DEF RequestSound, OneAfter, After, Before
  <2>2. CASE x = p /\ next = "detach"
    BY <1>6, <2>2 DEF HalfDeleted
  <2>3. CASE x = p /\ next = "commit"
    <3>1. View.pool[p] # Absent
      BY <1>1, <1>2, <2>3 DEF RequestSound, OneAfter
    <3>2. p \in Before(View, q2, p)
      BY <1>2, <1>6, <3>1, DocsDiffer DEF Before, Homes
    <3> QED  BY <1>2, <1>6, <2>3, <3>2 DEF After, HalfDeleted
  <2> QED  BY <2>1, <2>2, <2>3
<1>11. RequestSound(View, q2, astray)
  BY <1>7, <1>8, <1>9, <1>10 DEF RequestSound
<1>12. FitsTraffic(q2)
  BY <1>1, <1>6 DEF FitsTraffic, SeesTodo, CreatesUnderEmail, Overlapping, Moving
<1>13. Apart(r, q2)
  BY <1>1, <1>6 DEF Apart
<1> QED  BY <1>1, <1>3, <1>4, <1>5, <1>11, <1>12, <1>13, GhostTypes, ContinueSafe
         DEF UnchangedGhosts

LEMMA EnrolWriteSafe == ASSUME IInv, NEW r \in Requests, EnrolWrite(r) PROVE IInv'
<1> DEFINE q == requests[r]
<1>1. /\ q \in Request /\ RequestSound(View, q, astray) /\ FitsTraffic(q) /\ Busy(r)
      /\ q.op = "enrol" /\ q.at = "work" /\ Stores /\ Ghosts
  BY Known DEF EnrolWrite, At
<1>2. CASE Abort(r)
  BY <1>1, <1>2, AbortSafe, GhostTypes DEF Stores, Ghosts
<1>3. ASSUME NEW m \in Members, m \notin Writing, undone' = undone,
             Continue(r, [q EXCEPT !.member = m, !.writes = {m}, !.at = "inserted",
                      !.view.people[m] = [Nobody EXCEPT !.status = "live", !.email = q.email]])
      PROVE  IInv'
  <2> DEFINE person == [Nobody EXCEPT !.status = "live", !.email = q.email]
             w == [q.view EXCEPT !.people[m] = person]
             q2 == [q EXCEPT !.member = m, !.writes = {m}, !.at = "inserted", !.view = w]
  <2>1. person \in Person /\ person.status = "live" /\ \A p \in Products : person.has[p] = Absent
    BY <1>1, NobodyType, RequestFields DEF Person
  <2> HIDE DEF person
  <2>2. w \in ViewType /\ w.people[m] = person
    <3>1. q.view \in ViewType
      BY <1>1, RequestFields
    <3> QED  BY <2>1, <3>1 DEF ViewType
  <2>3. Continue(r, q2)
    BY <1>1, <1>3 DEF person
  <2> HIDE DEF w
  <2>4. q2 \in Request
    BY <1>1, <2>2 DEF Request, ViewType, Docs
  <2>5. /\ q2.op = "enrol" /\ q2.at = "inserted" /\ q2.member = m /\ q2.sync = q.sync
        /\ q2.view = w /\ q2.writes = {m}
    BY <1>1 DEF Request
  <2> HIDE DEF q2
  <2>6. q2.sync = {}
    BY <1>1, <2>5 DEF RequestSound, Phases
  <2>7. Phases(q2) /\ Synced(q2) /\ EditSees(View, q2)
    BY <2>5, <2>6 DEF Phases, Synced, EditSees, Supplying
  <2>8. ~InTransaction(q2) /\ ~HalfDeleted(q2)
    BY <2>5 DEF InTransaction, HalfDeleted
  <2>9. \A p \in Products : After(q2, p) = {}
    BY <2>1, <2>2, <2>5, DocsDiffer DEF After, Homes
  <2>10. MembersUsed(View, q2)
    BY <2>1, <2>2, <2>5, <2>8 DEF MembersUsed, Creating
  <2>11. RequestSound(View, q2, astray)
    BY <2>7, <2>8, <2>9, <2>10 DEF RequestSound, OneWritten, SnapshotValid, OneAfter
  <2>12. FitsTraffic(q2)
    BY <1>1, <2>5, <2>8 DEF FitsTraffic, SeesTodo, CreatesUnderEmail, Overlapping
  <2>13. Apart(r, q2)
    BY <1>3, <2>5 DEF Apart, Writing
  <2> QED  BY <1>1, <1>3, <2>3, <2>4, <2>11, <2>12, <2>13, GhostTypes, ContinueSafe
           DEF Stores, Ghosts
<1>4. Abort(r) \/ \E m \in Members :
          /\ m \notin Writing /\ undone' = undone
          /\ Continue(r, [q EXCEPT !.member = m, !.writes = {m}, !.at = "inserted",
                 !.view.people[m] = [Nobody EXCEPT !.status = "live", !.email = q.email]])
  BY DEF EnrolWrite
<1> QED  BY <1>2, <1>3, <1>4

LEMMA EnrolAttachSafe == ASSUME IInv, NEW r \in Requests, EnrolAttach(r) PROVE IInv'
<1> DEFINE q == requests[r]
           m == q.member
           S == Waiting(View, q.email)
           w == Attached(View, m, q.email, TRUE)
           q2 == [q EXCEPT !.view = w, !.writes = {m} \cup S, !.sync = S, !.at = "sync"]
<1>1. /\ q \in Request /\ RequestSound(View, q, astray) /\ FitsTraffic(q) /\ Busy(r)
      /\ q.op = "enrol" /\ q.at = "attach" /\ UnchangedStores /\ UnchangedGhosts
  BY Known DEF EnrolAttach, At
<1>2. /\ m \in Members /\ q.email \in Emails \cup {None} /\ View \in ViewType
  BY <1>1, RequestFields, GhostTypes DEF RequestSound, Phases
<1>3. Finish(r) \/ (({m} \cup S) \cap Writing = {} /\ Continue(r, q2))
  BY <1>1 DEF EnrolAttach, Request
<1>4. CASE Finish(r)
  BY <1>1, <1>4, LookFinishes
<1>5. CASE ({m} \cup S) \cap Writing = {} /\ Continue(r, q2)
  <2>0. AttachedFits(View, m, q.email, w) /\ AttachedMoves(View, m, q.email, w)
    BY <1>2, AttachedFields, AttachedHomes, Zenon
  <2> HIDE DEF w
  <2>1. /\ S \subseteq Products /\ w \in ViewType
        /\ \A n \in Members \ {m} : w.people[n] = View.people[n]
        /\ w.people[m].status = "live"
    BY <2>0 DEF AttachedFits
  <2>2. /\ \A p \in S : p \in Homes(View, p) /\ Homes(w, p) = (Homes(View, p) \ {p}) \cup {m}
        /\ \A p \in Products \ S : Homes(w, p) = Homes(View, p)
        /\ \A d \in Docs \ ({m} \cup S) : Same(w, View, d)
    BY <2>0 DEF AttachedMoves
  <2> HIDE DEF S
  <2>3. q2 \in Request
    BY <1>1, <1>2, <2>1 DEF Request, ViewType, Docs
  <2>4. /\ q2.op = "enrol" /\ q2.at = "sync" /\ q2.member = m /\ q2.sync = S
        /\ q2.view = w /\ q2.writes = {m} \cup S
    BY <1>1 DEF Request
  <2> HIDE DEF q2
  <2>5. Phases(q2) /\ Synced(q2) /\ EditSees(View, q2)
    BY <1>2, <2>2, <2>4 DEF Phases, Synced, EditSees, Supplying
  <2>6. ~HalfDeleted(q2)
    BY <2>4 DEF HalfDeleted
  <2>7. SnapshotValid(View, q2)
    BY <2>2, <2>4 DEF SnapshotValid
  <2>8. OneAfter(View, q2, astray)
    <3> SUFFICES ASSUME NEW p \in Products \ astray
                 PROVE  /\ \A d, e \in After(q2, p) : d = e
                        /\ After(q2, p) # {} => Before(View, q2, p) # {} \/ (p \in q2.writes /\ Homes(View, p) = {})
      BY <2>6 DEF OneAfter
    <3>1. \A d, e \in Homes(View, p) : d = e
      BY DEF IInv, OneHomeEach
    <3>2. CASE p \in S
      BY <2>2, <2>4, <3>1, <3>2 DEF After, Before
    <3>3. CASE p \notin S
      BY <2>2, <2>4, <3>1, <3>3 DEF After, Before
    <3> QED  BY <3>2, <3>3
  <2>9. Housed(w)
    <3>1. Housed(View)
      BY DEF IInv
    <3> QED  BY <2>1, <3>1 DEF Housed
  <2>10. MembersUsed(View, q2)
    <3>1. \A n \in Members : n \in {m} \cup S => n = m
      BY <2>1, DocsDiffer
    <3> QED  BY <2>1, <2>4, <2>9, <3>1 DEF MembersUsed, Creating
  <2>11. RequestSound(View, q2, astray)
    BY <2>5, <2>6, <2>7, <2>8, <2>10 DEF RequestSound, OneWritten
  <2>12. FitsTraffic(q2)
    BY <1>1, <2>4 DEF FitsTraffic, SeesTodo, CreatesUnderEmail, Overlapping, Moving
  <2>13. Apart(r, q2)
    BY <1>5, <2>4 DEF Apart, Writing
  <2> QED  BY <1>1, <1>5, <2>3, <2>11, <2>12, <2>13, GhostTypes, ContinueSafe
           DEF UnchangedStores, UnchangedGhosts
<1> QED  BY <1>3, <1>4, <1>5

-----------------------------------------------------------------------------
\* Moving products.

\* w is the view v with i in the pool and j with the member n, as its product p.
PutFits(v, w, p, n, i, j) ==
    /\ w \in ViewType
    /\ \A x \in Products : w.pool[x] = IF x = p THEN i ELSE v.pool[x]
    /\ \A k \in Members : /\ w.people[k].status = v.people[k].status
                          /\ w.people[k].email = v.people[k].email
    /\ \A k \in Members, x \in Products :
          w.people[k].has[x] = IF k = n /\ x = p THEN j ELSE v.people[k].has[x]
    /\ \A k \in Members \ {n} : w.people[k] = v.people[k]

LEMMA PutIs ==
    ASSUME NEW v \in ViewType, NEW w, NEW p \in Products, NEW n \in Members, NEW i \in Slot, NEW j \in Slot,
           w = [pool |-> [v.pool EXCEPT ![p] = i], people |-> [v.people EXCEPT ![n].has[p] = j]]
    PROVE  PutFits(v, w, p, n, i, j)
<1> DEFINE person == [v.people[n] EXCEPT !.has[p] = j]
<1>1. v.pool \in [Products -> Slot] /\ v.people \in [Members -> Person] /\ v.people[n] \in Person
  BY ViewFields
<1>2. /\ person \in Person /\ person.status = v.people[n].status /\ person.email = v.people[n].email
      /\ \A x \in Products : person.has[x] = IF x = p THEN j ELSE v.people[n].has[x]
  BY <1>1 DEF Person
<1>3. w.people = [v.people EXCEPT ![n] = person] /\ w.pool = [v.pool EXCEPT ![p] = i]
  OBVIOUS
<1> HIDE DEF person
<1>4. w \in ViewType
  BY <1>1, <1>2, <1>3 DEF ViewType
<1>5. \A x \in Products : w.pool[x] = IF x = p THEN i ELSE v.pool[x]
  BY <1>1, <1>3
<1>6. w.people[n] = person /\ \A k \in Members \ {n} : w.people[k] = v.people[k]
  BY <1>1, <1>3
<1>7. \A k \in Members : w.people[k].status = v.people[k].status /\ w.people[k].email = v.people[k].email
  BY <1>2, <1>6
<1>8. \A k \in Members, x \in Products :
          w.people[k].has[x] = IF k = n /\ x = p THEN j ELSE v.people[k].has[x]
  <2>1. \A x \in Products : w.people[n].has[x] = IF x = p THEN j ELSE v.people[n].has[x]
    BY <1>2, <1>6
  <2>2. \A k \in Members \ {n} : \A x \in Products : w.people[k].has[x] = v.people[k].has[x]
    BY <1>6
  <2> QED  BY <2>1, <2>2
<1> QED  BY <1>4, <1>5, <1>6, <1>7, <1>8 DEF PutFits

\* Only the product p goes anywhere.
LEMMA PutElsewhere ==
    ASSUME NEW v, NEW w, NEW p \in Products, NEW n \in Members, NEW i, NEW j, PutFits(v, w, p, n, i, j)
    PROVE  /\ \A x \in Products \ {p} : Homes(w, x) = Homes(v, x)
           /\ \A d \in Docs \ {p, n} : Same(w, v, d)
<1>1. \A x \in Products \ {p} : Homes(w, x) = Homes(v, x)
  BY DEF PutFits, Homes
<1>2. \A d \in Docs \ {p, n} : Same(w, v, d)
  BY DEF PutFits, Same
<1> QED  BY <1>1, <1>2

LEMMA PutSomewhere ==
    ASSUME NEW v, NEW w, NEW p \in Products, NEW n \in Members, NEW i, NEW j, PutFits(v, w, p, n, i, j),
           i # Absent \/ j # Absent
    PROVE  Homes(w, p) # {}
BY DocsDiffer DEF PutFits, Homes

LEMMA PutOut ==
    ASSUME NEW v, NEW w, NEW p \in Products, NEW n \in Members, NEW j, PutFits(v, w, p, n, Absent, j)
    PROVE  Homes(w, p) \subseteq (Homes(v, p) \ {p}) \cup {n}
BY DocsDiffer DEF PutFits, Homes

LEMMA PutIn ==
    ASSUME NEW v, NEW w, NEW p \in Products, NEW n \in Members, NEW i, PutFits(v, w, p, n, i, Absent)
    PROVE  Homes(w, p) \subseteq (Homes(v, p) \ {n}) \cup {p}
BY DocsDiffer DEF PutFits, Homes

LEMMA PutViewFits ==
    ASSUME IInv, NEW r \in Requests, InTransaction(requests[r]), requests[r].op \in Moving,
           NEW w, NEW p \in Products, NEW n \in Members, NEW i \in Slot, NEW j \in Slot,
           PutFits(requests[r].view, w, p, n, i, j), i # Absent \/ j # Absent,
           requests[r].view.people[n].status # "unused"
    PROVE  ViewFits(requests[r], {p, n}, w, {p})
<1> DEFINE q == requests[r]
           v == q.view
<1>1. q \in Request /\ RequestSound(View, q, astray) /\ v \in ViewType
  BY Known, RequestFields
<1>2. Housed(v) /\ \A m \in q.writes \cap Members : v.people[m].status # "unused"
  BY <1>1 DEF RequestSound, MembersUsed
<1>3. Homes(w, p) # {} /\ \A d \in Docs \ {p, n} : Same(w, v, d)
  BY PutSomewhere, PutElsewhere
<1>4. /\ \A k \in Members : w.people[k].status = v.people[k].status /\ w.people[k].email = v.people[k].email
      /\ \A k \in Members, x \in Products :
            w.people[k].has[x] = IF k = n /\ x = p THEN j ELSE v.people[k].has[x]
  BY DEF PutFits
<1>5. Housed(w)
  BY <1>2, <1>4 DEF Housed
<1>6. \A m \in (q.writes \cup {p, n}) \cap Members : w.people[m].status # "unused"
  BY <1>2, <1>4, DocsDiffer
<1>7. \A m \in Members : \A x \in q.todo \ {p} : w.people[m].has[x] = v.people[m].has[x]
  BY <1>1, <1>4, RequestFields
<1>8. q.op # "readdress"
  BY DEF Moving
<1> QED  BY <1>3, <1>4, <1>5, <1>6, <1>7, <1>8 DEF ViewFits

\* What a move is about to move, and to where.
LEMMA Moves ==
    ASSUME IInv, NEW r \in Requests, At(r, Moving, "work"), NEW o \in Ordered(requests[r])
    PROVE  /\ o[1] \in requests[r].todo /\ o[1] \in Products /\ o[2] \in Emails \cup {None}
           /\ requests[r] \in Request /\ RequestSound(View, requests[r], astray) /\ Busy(r)
           /\ InTransaction(requests[r]) /\ requests[r].op \in Moving
           /\ requests[r].view \in ViewType
           /\ o[2] # None => Alone
<1> DEFINE q == requests[r]
<1>1. q \in Request /\ RequestSound(View, q, astray) /\ FitsTraffic(q) /\ q.op \in Moving /\ q.at = "work"
      /\ q.view \in ViewType /\ Busy(r)
  BY Known, RequestFields DEF At, Moving
<1>2. q.op = "offboard" => q.todo # {}
  BY <1>1 DEF RequestSound, Phases
<1>3. o[1] \in q.todo /\ o[2] \in Emails \cup {None}
  BY <1>2 DEF Ordered, Relocations, Reassignments
<1>4. o[2] # None => q.op # "return"
  BY DEF Ordered
<1>5. o[2] # None => Alone
  BY <1>1, <1>4 DEF FitsTraffic, Overlapping, Moving, OperationKinds
<1> QED  BY <1>1, <1>3, <1>5, RequestFields DEF InTransaction, Transactions

LEMMA FromPoolSafe ==
    ASSUME IInv, NEW r \in Requests, At(r, Moving, "work"), NEW o \in Ordered(requests[r]),
           Stored(requests[r].view, o[1]), FromPool(r, o[1], o[2]), Stores, Ghosts
    PROVE  IInv'
<1> DEFINE q == requests[r]
           v == q.view
           p == o[1]
           e == o[2]
<1>1. /\ p \in q.todo /\ p \in Products /\ e \in Emails \cup {None}
      /\ q \in Request /\ RequestSound(View, q, astray) /\ Busy(r)
      /\ InTransaction(q) /\ q.op \in Moving /\ v \in ViewType
  BY Moves
<1>2. CASE Abort(r)
  BY <1>1, <1>2, AbortSafe, GhostTypes DEF Stores, Ghosts
<1>3. CASE UpdatedThere(r, p)
  <2>1. Homes(v, p) # {}
    BY <1>1, HomesAre
  <2>2. Housed(v) /\ \A m \in q.writes \cap Members : v.people[m].status # "unused"
    BY <1>1 DEF RequestSound, MembersUsed
  <2>3. ViewFits(q, {p}, v, {p})
    BY <1>1, <2>1, <2>2, DocsDiffer DEF ViewFits, Same, Moving
  <2>4. \A x \in Products \ astray : Goes(v, v, q.writes \cup {p}, x)
    BY DEF Goes
  <2>5. Write(r, {p}, v, "sync", {p}) /\ {p} \in SUBSET Docs /\ {p} \in SUBSET Products /\ q.op # "delete"
    BY <1>1, <1>3 DEF UpdatedThere, Docs, Moving
  <2> QED  BY <1>1, <2>3, <2>4, <2>5, GoingSafe
<1>4. ASSUME NEW n \in Found(v, e),
             Write(r, {p, n},
                 [pool   |-> [v.pool EXCEPT ![p] = Absent],
                  people |-> [v.people EXCEPT ![n].has[p] = [v.pool[p] EXCEPT !.email = e, !.named = TRUE]]],
                 "sync", {p})
      PROVE  IInv'
  <2> DEFINE j == [v.pool[p] EXCEPT !.email = e, !.named = TRUE]
             w == [pool |-> [v.pool EXCEPT ![p] = Absent], people |-> [v.people EXCEPT ![n].has[p] = j]]
  <2>1. n \in Members /\ v.people[n].status # "unused"
    BY DEF Found
  <2>2. v.pool[p] # Absent /\ v.pool[p] \in Item
    BY <1>1, ViewFields, SlotFields DEF Stored
  <2>3. j \in Slot /\ j # Absent /\ Absent \in Slot
    BY <1>1, <2>2, ItemUpdates, ItemIsSlot DEF Slot
  <2>4. Write(r, {p, n}, w, "sync", {p})
    BY <1>4
  <2> HIDE DEF j
  <2>6. PutFits(v, w, p, n, Absent, j)
    BY <1>1, <2>1, <2>3, PutIs
  <2> HIDE DEF w
  <2>7. ViewFits(q, {p, n}, w, {p})
    BY <1>1, <2>1, <2>3, <2>6, PutViewFits
  <2>8. w \in ViewType
    BY <2>6 DEF PutFits
  <2>9. \A x \in Products \ astray : Goes(v, w, q.writes \cup {p, n}, x)
    <3>1. \A x \in Products \ {p} : Homes(w, x) = Homes(v, x)
      BY <1>1, <2>1, <2>6, PutElsewhere
    <3>2. p \in Homes(v, p) /\ Homes(w, p) \subseteq (Homes(v, p) \ {p}) \cup {n}
      BY <1>1, <2>1, <2>6, HomesAre, PutOut
    <3> QED  BY <3>1, <3>2 DEF Goes
  <2>10. {p, n} \in SUBSET Docs /\ {p} \in SUBSET Products /\ q.op # "delete"
    BY <1>1, <2>1 DEF Docs, Moving
  <2> QED  BY <1>1, <2>4, <2>7, <2>8, <2>9, <2>10, GoingSafe
<1> QED  BY <1>2, <1>3, <1>4 DEF FromPool

LEMMA ToPoolSafe ==
    ASSUME IInv, NEW r \in Requests, At(r, Moving, "work"), NEW o \in Ordered(requests[r]),
           NEW m \in Holders(requests[r].view, o[1]),
           ToPool(r, o[1], requests[r].view.people[m].has[o[1]], m), Stores, Ghosts
    PROVE  IInv'
<1> DEFINE q == requests[r]
           v == q.view
           p == o[1]
           item == v.people[m].has[p]
           i == [item EXCEPT !.email = None, !.named = FALSE]
           w == [pool |-> [v.pool EXCEPT ![p] = i], people |-> [v.people EXCEPT ![m].has[p] = Absent]]
<1>1. /\ p \in q.todo /\ p \in Products
      /\ q \in Request /\ RequestSound(View, q, astray) /\ Busy(r)
      /\ InTransaction(q) /\ q.op \in Moving /\ v \in ViewType
  BY Moves
<1>2. m \in Members /\ item # Absent /\ item \in Item
  BY <1>1, ViewFields, SlotFields DEF Holders
<1>3. i \in Slot /\ i # Absent /\ Absent \in Slot
  BY <1>2, ItemUpdates, ItemIsSlot DEF Slot
<1>4. v.people[m].status # "unused"
  BY <1>1, <1>2 DEF RequestSound, MembersUsed, Housed
<1>5. Write(r, {p, m}, w, "sync", {p})
  BY DEF ToPool
<1> HIDE DEF i
<1>7. PutFits(v, w, p, m, i, Absent)
  BY <1>1, <1>2, <1>3, PutIs
<1> HIDE DEF w
<1>8. ViewFits(q, {p, m}, w, {p})
  BY <1>1, <1>2, <1>3, <1>4, <1>7, PutViewFits
<1>9. w \in ViewType
  BY <1>7 DEF PutFits
<1>10. \A x \in Products \ astray : Goes(v, w, q.writes \cup {p, m}, x)
  <2>1. \A x \in Products \ {p} : Homes(w, x) = Homes(v, x)
    BY <1>1, <1>2, <1>7, PutElsewhere
  <2>2. m \in Homes(v, p) /\ Homes(w, p) \subseteq (Homes(v, p) \ {m}) \cup {p}
    BY <1>1, <1>2, <1>7, HomesAre, PutIn
  <2> QED  BY <2>1, <2>2 DEF Goes
<1>11. {p, m} \in SUBSET Docs /\ {p} \in SUBSET Products /\ q.op # "delete"
  BY <1>1, <1>2 DEF Docs, Moving
<1> QED  BY <1>1, <1>5, <1>8, <1>9, <1>10, <1>11, GoingSafe

\* The member n gets j as its product p, and the members of c lose theirs.
Given(v, p, n, c, j) ==
    [v EXCEPT !.people = [m \in Members |->
        IF m = n THEN [v.people[m] EXCEPT !.has[p] = j]
        ELSE IF m \in c THEN [v.people[m] EXCEPT !.has[p] = Absent] ELSE v.people[m]]]

GivenFits(v, p, n, c, j, w) ==
    /\ w \in ViewType /\ w.pool = v.pool
    /\ \A k \in Members : w.people[k].status = v.people[k].status /\ w.people[k].email = v.people[k].email
    /\ \A k \in Members, x \in Products \ {p} : w.people[k].has[x] = v.people[k].has[x]
    /\ w.people[n].has[p] = j /\ \A k \in c \ {n} : w.people[k].has[p] = Absent
    /\ \A k \in Members \ ({n} \cup c) : w.people[k] = v.people[k]

LEMMA GivenFields ==
    ASSUME NEW v \in ViewType, NEW p \in Products, NEW n \in Members, NEW c \in SUBSET Members, NEW j \in Slot
    PROVE  GivenFits(v, p, n, c, j, Given(v, p, n, c, j))
<1> DEFINE w == Given(v, p, n, c, j)
           put(i, k) == [v.people[k] EXCEPT !.has[p] = i]
           people2 == [m \in Members |-> IF m = n THEN put(j, m) ELSE IF m \in c THEN put(Absent, m) ELSE v.people[m]]
<1>1. v.people \in [Members -> Person] /\ v.pool \in [Products -> Slot]
  BY ViewFields
<1>2. ASSUME NEW i \in Slot, NEW k \in Members
      PROVE  /\ put(i, k) \in Person /\ put(i, k).status = v.people[k].status /\ put(i, k).email = v.people[k].email
             /\ put(i, k).has[p] = i
             /\ \A x \in Products \ {p} : put(i, k).has[x] = v.people[k].has[x]
  <2>1. v.people[k] \in Person
    BY <1>1
  <2> QED  BY <2>1 DEF Person
<1>3. Absent \in Slot
  BY DEF Slot
<1>4. w = [v EXCEPT !.people = people2]
  BY DEF Given
<1> HIDE DEF put
<1>5. people2 \in [Members -> Person]
  BY <1>1, <1>2, <1>3
<1>6. /\ people2[n] = put(j, n) /\ \A k \in c \ {n} : people2[k] = put(Absent, k)
      /\ \A k \in Members \ ({n} \cup c) : people2[k] = v.people[k]
  OBVIOUS
<1> HIDE DEF people2, w
<1>7. w \in ViewType /\ w.pool = v.pool /\ w.people = people2
  BY <1>1, <1>4, <1>5 DEF ViewType
<1>8. \A k \in Members : k = n \/ k \in c \ {n} \/ k \in Members \ ({n} \cup c)
  OBVIOUS
<1>9. \A k \in Members : /\ w.people[k].status = v.people[k].status
                         /\ w.people[k].email = v.people[k].email
  BY <1>2, <1>3, <1>6, <1>7, <1>8
<1>10. \A k \in Members : \A x \in Products \ {p} : w.people[k].has[x] = v.people[k].has[x]
  BY <1>2, <1>3, <1>6, <1>7, <1>8
<1>11. w.people[n].has[p] = j /\ \A k \in c \ {n} : w.people[k].has[p] = Absent
  BY <1>2, <1>3, <1>6, <1>7
<1>12. \A k \in Members \ ({n} \cup c) : w.people[k] = v.people[k]
  BY <1>6, <1>7
<1>13. GivenFits(v, p, n, c, j, w)
  BY <1>7, <1>9, <1>10, <1>11, <1>12 DEF GivenFits
<1> QED  BY <1>13 DEF w

LEMMA ToMemberSafe ==
    ASSUME IInv, NEW r \in Requests, At(r, Moving, "work"), NEW o \in Ordered(requests[r]),
           ~Stored(requests[r].view, o[1]), o[2] # None,
           NEW m \in Holders(requests[r].view, o[1]),
           o[2] # requests[r].view.people[m].has[o[1]].email,
           ToMember(r, o[1], requests[r].view.people[m].has[o[1]], o[2]), Stores, Ghosts
    PROVE  IInv'
<1> DEFINE q == requests[r]
           v == q.view
           p == o[1]
           e == o[2]
           item == v.people[m].has[p]
           c == Giving(p, item)
           j == [item EXCEPT !.email = e, !.named = TRUE]
<1>1. /\ p \in q.todo /\ p \in Products /\ e \in Emails \cup {None}
      /\ q \in Request /\ RequestSound(View, q, astray) /\ Busy(r)
      /\ InTransaction(q) /\ q.op \in Moving /\ v \in ViewType /\ Alone
  BY Moves
<1>2. m \in Members /\ item # Absent /\ item \in Item
  BY <1>1, ViewFields, SlotFields DEF Holders
<1>3. j \in Slot /\ j # Absent
  BY <1>1, <1>2, ItemUpdates, ItemIsSlot
<1>4. /\ c \subseteq Members /\ View.people = people
      /\ \A k \in Members : k \in c <=> /\ View.people[k].status # "unused" /\ View.people[k].email = item.email
                                        /\ View.people[k].has[p] # Absent
  BY GhostTypes DEF Giving, Found
\* Nobody else is there: the transaction sees where the product is.
<1>5. /\ \A k \in Members : /\ v.people[k].email = View.people[k].email /\ v.people[k].status = View.people[k].status
                            /\ v.people[k].has[p] = View.people[k].has[p]
  <2>1. SeesTodo(View, q)
    BY <1>1, Known DEF FitsTraffic
  <2> QED  BY <1>1, <2>1 DEF SeesTodo
<1>6. CASE Abort(r)
  BY <1>1, <1>6, AbortSafe, GhostTypes DEF Stores, Ghosts
<1>7. ASSUME NEW n \in Found(v, e), Write(r, {n} \cup c, Given(v, p, n, c, j), "sync", {p}) PROVE IInv'
  <2> DEFINE w == Given(v, p, n, c, j)
             docs == {n} \cup c
  <2>1. n \in Members /\ v.people[n].status # "unused" /\ v.people[n].email = e
    BY DEF Found
  <2> HIDE DEF c, item, j
  <2>2. /\ w \in ViewType /\ w.pool = v.pool
        /\ \A k \in Members : w.people[k].status = v.people[k].status /\ w.people[k].email = v.people[k].email
        /\ \A k \in Members, x \in Products \ {p} : w.people[k].has[x] = v.people[k].has[x]
        /\ w.people[n].has[p] = j /\ \A k \in c \ {n} : w.people[k].has[p] = Absent
        /\ \A k \in Members \ docs : w.people[k] = v.people[k]
    <3>1. GivenFits(v, p, n, c, j, w)
      BY <1>1, <1>3, <1>4, <2>1, GivenFields
    <3> HIDE DEF w
    <3> QED  BY <3>1 DEF GivenFits
  <2>3. Write(r, docs, w, "sync", {p})
    BY <1>7
  <2> HIDE DEF w
  <2>4. docs \in SUBSET Docs /\ {p} \in SUBSET Products /\ q.op # "delete" /\ q.op # "readdress"
    BY <1>1, <1>4, <2>1 DEF Docs, Moving
  <2>5. Housed(v) /\ \A k \in q.writes \cap Members : v.people[k].status # "unused"
    BY <1>1 DEF RequestSound, MembersUsed
  <2>6. ViewFits(q, docs, w, {p})
    <3>1. \A d \in Docs \ (q.writes \cup docs) : Same(w, v, d)
      BY <2>2 DEF Same
    <3>2. n \in Homes(w, p)
      BY <1>3, <2>1, <2>2, DocsDiffer DEF Homes
    <3>3. \A k \in (q.writes \cup docs) \cap Members : w.people[k].status # "unused"
      <4> SUFFICES ASSUME NEW k \in (q.writes \cup docs) \cap Members PROVE v.people[k].status # "unused"
        BY <2>2
      <4>1. CASE k \in q.writes
        BY <2>5, <4>1
      <4>2. CASE k = n
        BY <2>1, <4>2
      <4>3. CASE k \in c
        BY <1>4, <1>5, <4>3
      <4> QED  BY <4>1, <4>2, <4>3
    <3>4. Housed(w)
      <4> SUFFICES ASSUME NEW k \in Members, NEW x \in Products, w.people[k].has[x] # Absent
                   PROVE  v.people[k].status # "unused"
        BY <2>2 DEF Housed
      <4>1. CASE k \in docs
        BY <1>4, <1>5, <2>1, <4>1
      <4>2. CASE k \notin docs
        BY <2>2, <2>5, <4>2 DEF Housed
      <4> QED  BY <4>1, <4>2
    <3>5. \A k \in Members : \A x \in q.todo \ {p} : w.people[k].has[x] = v.people[k].has[x]
      BY <1>1, <2>2, RequestFields
    <3> QED  BY <2>2, <2>4, <3>1, <3>2, <3>3, <3>4, <3>5 DEF ViewFits
  <2>7. ASSUME NEW x \in Products \ astray PROVE Goes(v, w, q.writes \cup docs, x)
    <3>1. CASE x # p
      <4>1. Homes(w, x) = Homes(v, x)
        BY <2>2, <3>1 DEF Homes
      <4> QED  BY <4>1 DEF Goes
    <3>2. CASE x = p
      <4>1. View.people[m].has[p].email = View.people[m].email
        BY <1>1, <1>2, <1>5, <2>7, <3>2 DEF IInv, Solitude, UnderEmail, item
      <4>2. View.people[m].status # "unused"
        BY <1>1, <1>2, <1>5 DEF IInv, Housed, item
      <4>3. m \in c
        BY <1>2, <1>4, <1>5, <4>1, <4>2 DEF item
      <4>4. m # n
        BY <1>2, <1>5, <2>1, <4>1 DEF item
      <4>5. m \in Homes(v, p) /\ p \notin Homes(v, p)
        BY <1>1, <1>2, HomesAre
      <4>6. Homes(w, p) \subseteq (Homes(v, p) \ {m}) \cup {n}
        <5> SUFFICES ASSUME NEW d \in Homes(w, p), d # n PROVE d \in Homes(v, p) /\ d # m
          OBVIOUS
        <5>1. d # p
          BY <1>1, <2>2, <4>5, DocsDiffer DEF Homes
        <5>2. d \in Members /\ w.people[d].has[p] # Absent
          BY <5>1 DEF Homes
        <5>3. d \notin c
          BY <2>2, <5>2
        <5>4. v.people[d].has[p] # Absent
          BY <2>2, <5>2, <5>3
        <5> QED  BY <4>3, <5>2, <5>3, <5>4, DocsDiffer DEF Homes
      <4> QED  BY <3>2, <4>3, <4>5, <4>6 DEF Goes
    <3> QED  BY <3>1, <3>2
  <2> HIDE DEF docs
  <2> QED  BY <1>1, <2>2, <2>3, <2>4, <2>6, <2>7, GoingSafe
<1> QED  BY <1>6, <1>7 DEF ToMember, Given

LEMMA MoveItemSafe == ASSUME IInv, NEW r \in Requests, MoveItem(r) PROVE IInv'
<1> DEFINE q == requests[r]
<1>1. PICK o \in Ordered(q) :
          IF Stored(q.view, o[1]) THEN FromPool(r, o[1], o[2])
          ELSE IF Holders(q.view, o[1]) = {} THEN Abort(r)
          ELSE FromMember(r, o[1], o[2])
  BY DEF MoveItem
<1>2. At(r, Moving, "work") /\ Stores /\ Ghosts
  BY DEF MoveItem
<1>3. CASE Stored(q.view, o[1])
  BY <1>1, <1>2, <1>3, FromPoolSafe
<1>4. CASE Abort(r)
  BY <1>2, <1>4, Moves, AbortSafe, GhostTypes DEF Stores, Ghosts
<1>5. CASE ~Stored(q.view, o[1]) /\ FromMember(r, o[1], o[2]) /\ ~Abort(r)
  <2>1. PICK m \in Holders(q.view, o[1]) :
            IF o[2] = None THEN ToPool(r, o[1], q.view.people[m].has[o[1]], m)
            ELSE /\ o[2] # q.view.people[m].has[o[1]].email
                 /\ ToMember(r, o[1], q.view.people[m].has[o[1]], o[2])
    BY <1>5 DEF FromMember
  <2>2. CASE o[2] = None
    BY <1>2, <2>1, <2>2, ToPoolSafe
  <2>3. CASE o[2] # None
    BY <1>2, <1>5, <2>1, <2>3, ToMemberSafe
  <2> QED  BY <2>2, <2>3
<1> QED  BY <1>1, <1>3, <1>4, <1>5

-----------------------------------------------------------------------------
\* Deleting.

LEMMA DeletedType == ASSUME NEW i \in Item PROVE Deleted(i) \in Slot /\ Deleted(i) # Absent
<1>1. Deleted(i) \in Item
  BY ItemUpdates DEF Deleted
<1> QED  BY <1>1, ItemIsSlot

LEMMA DeleteWriteSafe == ASSUME IInv, NEW r \in Requests, DeleteWrite(r) PROVE IInv'
<1> DEFINE q == requests[r]
           v == q.view
           p == q.item
<1>1. /\ q \in Request /\ RequestSound(View, q, astray) /\ Busy(r) /\ v \in ViewType
      /\ q.op = "delete" /\ q.at = "work" /\ Stores /\ Ghosts
  BY Known, RequestFields DEF DeleteWrite, At
<1>2. InTransaction(q) /\ p \in Products /\ q.writes = {}
  BY <1>1 DEF InTransaction, Transactions, RequestSound, Phases
<1>3. CASE Abort(r)
  BY <1>1, <1>3, AbortSafe, GhostTypes DEF Stores, Ghosts
<1>4. ASSUME NEW i \in Item, Write(r, {p}, [v EXCEPT !.pool[p] = Deleted(i)], "mark", {}),
             v.pool[p] # Absent \/ Holders(v, p) # {}
      PROVE  IInv'
  <2> DEFINE w == [v EXCEPT !.pool[p] = Deleted(i)]
             q2 == Wrote(q, {p}, w, "mark", {})
  <2>1. w \in ViewType /\ w.people = v.people /\ \A x \in Products \ {p} : w.pool[x] = v.pool[x]
    BY <1>1, <1>2, DeletedType DEF ViewType
  <2>2. Write(r, {p}, w, "mark", {})
    BY <1>4
  <2> HIDE DEF w
  <2>3. Housed(v) /\ {p} \in SUBSET Docs /\ {} \in SUBSET Products
    BY <1>1, <1>2 DEF RequestSound, MembersUsed, Docs
  <2>4. ViewFits(q, {p}, w, {})
    BY <1>1, <1>2, <2>1, <2>3, DocsDiffer DEF ViewFits, Same, Housed, Moving
  <2>5. /\ q2.op = "delete" /\ q2.at = "mark" /\ q2.item = p /\ q2.view = w /\ q2.writes = {p}
    <3>1. q2 = Wrote(q, {p}, w, "mark", {})
      OBVIOUS
    <3> HIDE DEF q2
    <3> QED  BY <1>1, <1>2, <3>1, WroteFields
  <2> HIDE DEF q2
  <2>6. OneWritten(q2)
    BY <2>5 DEF OneWritten
  <2>7. ASSUME {p} \cap q.dirty = {} PROVE OneAfter(View, q2, astray)
    <3> SUFFICES ASSUME NEW x \in Products \ astray
                 PROVE  IF x = p THEN Holders(w, p) = {} => View.pool[p] # Absent ELSE After(q2, x) = {}
      BY <2>5 DEF OneAfter, HalfDeleted
    <3>1. Same(v, View, p)
      BY <1>1, <1>2, <2>3, <2>7 DEF RequestSound, SnapshotValid
    <3>2. Holders(w, p) = Holders(v, p)
      BY <2>1 DEF Holders
    <3>3. CASE x = p
      BY <1>2, <1>4, <3>1, <3>2, <3>3 DEF Same
    <3>4. CASE x # p
      BY <1>2, <2>5, <3>4, DocsDiffer DEF After, Homes
    <3> QED  BY <3>3, <3>4
  <2> QED  BY <1>1, <1>2, <2>1, <2>2, <2>3, <2>4, <2>6, <2>7, WriteSafe DEF q2
<1>5. CASE Stored(v, p) /\ Write(r, {p}, [v EXCEPT !.pool[p] = Deleted(@)], "mark", {})
  <2>1. v.pool[p] \in Item /\ v.pool[p] # Absent
    BY <1>1, <1>2, <1>5, ViewFields, SlotFields DEF Stored
  <2>2. Write(r, {p}, [v EXCEPT !.pool[p] = Deleted(v.pool[p])], "mark", {})
    BY <1>5
  <2> QED  BY <1>4, <2>1, <2>2
<1>6. ASSUME NEW m \in Holders(v, p),
             Write(r, {p}, [v EXCEPT !.pool[p] = Deleted(v.people[m].has[p])], "mark", {})
      PROVE  IInv'
  <2>1. v.people[m].has[p] \in Item /\ Holders(v, p) # {}
    BY <1>1, <1>2, ViewFields, SlotFields DEF Holders
  <2> QED  BY <1>4, <1>6, <2>1
<1> QED  BY <1>3, <1>5, <1>6 DEF DeleteWrite

LEMMA DeleteDetachSafe == ASSUME IInv, NEW r \in Requests, DeleteDetach(r) PROVE IInv'
<1> DEFINE q == requests[r]
           v == q.view
           p == q.item
<1>1. /\ q \in Request /\ RequestSound(View, q, astray) /\ Busy(r) /\ v \in ViewType
      /\ q.op = "delete" /\ q.at = "detach" /\ Stores /\ Ghosts
  BY Known, RequestFields DEF DeleteDetach, At
<1>2. InTransaction(q) /\ p \in Products /\ q.writes = {p}
  BY <1>1 DEF InTransaction, Transactions, RequestSound, Phases, OneWritten, HalfDeleted
<1>3. PICK m \in Holders(v, p) : Write(r, {m}, [v EXCEPT !.people[m].has[p] = Absent], "commit", {})
  BY DEF DeleteDetach
<1> DEFINE person == [v.people[m] EXCEPT !.has[p] = Absent]
           w == [v EXCEPT !.people[m] = person]
           q2 == Wrote(q, {m}, w, "commit", {})
<1>4. m \in Members /\ v.people[m].has[p] # Absent /\ v.people[m] \in Person
  BY <1>1, <1>2, ViewFields DEF Holders
<1>5. /\ person \in Person /\ person.status = v.people[m].status /\ person.has[p] = Absent
      /\ \A x \in Products \ {p} : person.has[x] = v.people[m].has[x]
  BY <1>2, <1>4 DEF Person, Slot
<1>6. Write(r, {m}, w, "commit", {})
  BY <1>3
<1> HIDE DEF person
<1>7. w \in ViewType /\ w.pool = v.pool /\ w.people[m] = person /\ \A n \in Members \ {m} : w.people[n] = v.people[n]
  BY <1>1, <1>4, <1>5 DEF ViewType
<1> HIDE DEF w
<1>8. Housed(v) /\ {m} \in SUBSET Docs /\ {} \in SUBSET Products
  BY <1>1, <1>2, <1>4 DEF RequestSound, MembersUsed, Docs
<1>9. ViewFits(q, {m}, w, {})
  <2>1. Housed(w) /\ w.people[m].status # "unused"
    BY <1>2, <1>4, <1>5, <1>7, <1>8 DEF Housed
  <2>2. \A n \in (q.writes \cup {m}) \cap Members : n = m
    BY <1>2, DocsDiffer
  <2>3. \A d \in Docs \ (q.writes \cup {m}) : Same(w, v, d)
    BY <1>7 DEF Same
  <2> QED  BY <1>1, <2>1, <2>2, <2>3 DEF ViewFits, Moving
<1>10. /\ q2.op = "delete" /\ q2.at = "commit" /\ q2.view = w /\ q2.writes = {p, m}
  <2>1. q2 = Wrote(q, {m}, w, "commit", {})
    OBVIOUS
  <2> HIDE DEF q2
  <2> QED  BY <1>1, <1>2, <2>1, WroteFields
<1> HIDE DEF q2
<1>11. OneWritten(q2)
  BY <1>10 DEF OneWritten, HalfDeleted
<1>12. ASSUME {m} \cap q.dirty = {} PROVE OneAfter(View, q2, astray)
  <2> SUFFICES ASSUME NEW x \in Products \ astray
               PROVE  /\ \A d, e \in After(q2, x) : d = e
                      /\ After(q2, x) # {} => Before(View, q2, x) # {}
    BY <1>10 DEF OneAfter, HalfDeleted
  <2>1. Same(v, View, m)
    BY <1>1, <1>2, <1>4, <1>8, <1>12, DocsDiffer DEF RequestSound, SnapshotValid
  <2>2. View.people[m] = v.people[m]
    BY <1>4, <2>1 DEF Same
  <2>3. CASE x = p
    <3>1. m \in Before(View, q2, x)
      BY <1>4, <1>8, <1>10, <2>2, <2>3 DEF Before, Homes
    <3>2. m \notin After(q2, x)
      BY <1>4, <1>5, <1>7, <1>10, <2>3, DocsDiffer DEF After, Homes
    <3> QED  BY <1>10, <3>1, <3>2 DEF After
  <2>4. CASE x # p
    <3>1. p \notin After(q2, x)
      BY <1>2, <1>10, <2>4, DocsDiffer DEF After, Homes
    <3>2. m \in After(q2, x) => m \in Before(View, q2, x)
      BY <1>4, <1>5, <1>7, <1>8, <1>10, <2>2, <2>4, DocsDiffer DEF After, Before, Homes
    <3> QED  BY <1>10, <3>1, <3>2 DEF After
  <2> QED  BY <2>3, <2>4
<1> QED  BY <1>1, <1>2, <1>6, <1>7, <1>8, <1>9, <1>11, <1>12, WriteSafe DEF q2

-----------------------------------------------------------------------------
\* Members.

LEMMA JoinWriteSafe == ASSUME IInv, NEW r \in Requests, JoinWrite(r) PROVE IInv'
<1> DEFINE q == requests[r]
           v == q.view
           S == Waiting(v, q.email)
           next == IF S = {} THEN "commit" ELSE "sync"
<1>1. /\ q \in Request /\ RequestSound(View, q, astray) /\ Busy(r) /\ v \in ViewType
      /\ q.op = "join" /\ q.at = "work" /\ q.email \in Emails \cup {None} /\ Stores /\ Ghosts
  BY Known, RequestFields DEF JoinWrite, At
<1>2. InTransaction(q) /\ q.writes = {}
  BY <1>1 DEF InTransaction, Transactions, Joining, RequestSound, Phases
<1>3. CASE Abort(r)
  BY <1>1, <1>3, AbortSafe, GhostTypes DEF Stores, Ghosts
<1>4. ASSUME NEW m \in Members, Write(r, {m} \cup S, Attached(v, m, q.email, FALSE), next, S) PROVE IInv'
  <2> DEFINE w == Attached(v, m, q.email, FALSE)
  <2>1. AttachedFits(v, m, q.email, w) /\ AttachedMoves(v, m, q.email, w)
    BY <1>1, AttachedFields, AttachedHomes, Zenon
  <2>2. Write(r, {m} \cup S, w, next, S)
    BY <1>4
  <2> HIDE DEF w
  <2>3. /\ S \subseteq Products /\ w \in ViewType
        /\ \A n \in Members \ {m} : w.people[n] = v.people[n]
        /\ w.people[m].status = "live"
    BY <2>1 DEF AttachedFits
  <2>4. /\ \A p \in S : p \in Homes(v, p) /\ Homes(w, p) = (Homes(v, p) \ {p}) \cup {m}
        /\ \A p \in Products \ S : Homes(w, p) = Homes(v, p)
        /\ \A d \in Docs \ ({m} \cup S) : Same(w, v, d)
    BY <2>1 DEF AttachedMoves
  <2>5. next \in {"sync", "commit"} /\ (next = "sync" \/ S = {})
    OBVIOUS
  <2> HIDE DEF S, next
  <2>6. Housed(v) /\ {m} \cup S \in SUBSET Docs /\ S \in SUBSET Products
    BY <1>1, <1>2, <2>3 DEF RequestSound, MembersUsed, Docs
  <2>7. ViewFits(q, {m} \cup S, w, S)
    <3>1. Housed(w)
      BY <2>3, <2>6 DEF Housed
    <3>2. \A n \in (q.writes \cup ({m} \cup S)) \cap Members : n = m
      BY <1>2, <2>3, DocsDiffer
    <3> QED  BY <1>1, <2>3, <2>4, <3>1, <3>2 DEF ViewFits, Moving
  <2>8. \A x \in Products \ astray : Goes(v, w, q.writes \cup ({m} \cup S), x)
    BY <2>4 DEF Goes
  <2> QED  BY <1>1, <1>2, <2>2, <2>3, <2>5, <2>6, <2>7, <2>8, GoingSafe
<1> QED  BY <1>3, <1>4 DEF JoinWrite

LEMMA ReaddressedFields ==
    ASSUME NEW person \in Person, NEW e \in Emails \cup {None}
    PROVE  /\ Readdressed(person, e) \in Person
           /\ Readdressed(person, e).status = person.status
           /\ \A p \in Products : Readdressed(person, e).has[p] # Absent <=> person.has[p] # Absent
<1> DEFINE has == [p \in Products |->
                     IF person.has[p] # Absent /\ person.has[p].named /\ person.has[p].email = person.email
                     THEN [person.has[p] EXCEPT !.email = e] ELSE person.has[p]]
<1>1. \A p \in Products : person.has[p] \in Slot
  BY DEF Person
<1>2. \A p \in Products : person.has[p] # Absent =>
          [person.has[p] EXCEPT !.email = e] \in Slot /\ [person.has[p] EXCEPT !.email = e] # Absent
  BY <1>1, SlotFields, ItemUpdates, ItemIsSlot
<1>3. has \in [Products -> Slot] /\ \A p \in Products : has[p] # Absent <=> person.has[p] # Absent
  BY <1>1, <1>2
<1>4. Readdressed(person, e) = [person EXCEPT !.email = e, !.has = has]
  BY DEF Readdressed
<1> HIDE DEF has
<1> QED  BY <1>3, <1>4 DEF Person

LEMMA ReaddressWriteSafe == ASSUME IInv, NEW r \in Requests, ReaddressWrite(r) PROVE IInv'
<1> DEFINE q == requests[r]
           v == q.view
           m == q.member
           person == Readdressed(v.people[m], q.email)
           w == [v EXCEPT !.people[m] = person]
<1>1. /\ q \in Request /\ RequestSound(View, q, astray) /\ Busy(r) /\ v \in ViewType
      /\ q.op = "readdress" /\ q.at = "work" /\ q.email \in Emails \cup {None} /\ Stores /\ Ghosts
  BY Known, RequestFields DEF ReaddressWrite, At
<1>2. InTransaction(q) /\ q.writes = {} /\ m \in Members
  BY <1>1 DEF InTransaction, Transactions, RequestSound, Phases
<1>3. CASE Abort(r)
  BY <1>1, <1>3, AbortSafe, GhostTypes DEF Stores, Ghosts
<1>4. CASE Write(r, {m}, [v EXCEPT !.people[m] = Readdressed(@, q.email)], "commit", {})
  <2>1. Write(r, {m}, w, "commit", {})
    BY <1>4
  <2>2. v.people[m] \in Person /\ Housed(v) /\ v.people[m].status # "unused"
    BY <1>1, <1>2, ViewFields DEF RequestSound, MembersUsed
  <2>3. /\ person \in Person /\ person.status = v.people[m].status
        /\ \A p \in Products : person.has[p] # Absent <=> v.people[m].has[p] # Absent
    BY <1>1, <2>2, ReaddressedFields
  <2> HIDE DEF person
  <2>4. /\ w \in ViewType /\ w.pool = v.pool /\ w.people[m] = person
        /\ \A n \in Members \ {m} : w.people[n] = v.people[n]
    BY <1>1, <1>2, <2>3 DEF ViewType
  <2> HIDE DEF w
  <2>5. \A x \in Products : Homes(w, x) = Homes(v, x)
    BY <1>2, <2>3, <2>4 DEF Homes
  <2>6. ViewFits(q, {m}, w, {})
    <3>1. Housed(w)
      BY <2>2, <2>3, <2>4 DEF Housed
    <3>2. \A d \in Docs \ {m} : Same(w, v, d)
      BY <2>4 DEF Same
    <3> QED  BY <1>1, <1>2, <2>2, <2>3, <2>4, <3>1, <3>2 DEF ViewFits, Moving
  <2>7. \A x \in Products \ astray : Goes(v, w, q.writes \cup {m}, x)
    BY <2>5 DEF Goes
  <2>8. {m} \in SUBSET Docs /\ {} \in SUBSET Products
    BY <1>2 DEF Docs
  <2> QED  BY <1>1, <1>2, <2>1, <2>4, <2>6, <2>7, <2>8, GoingSafe
<1> QED  BY <1>3, <1>4 DEF ReaddressWrite

-----------------------------------------------------------------------------
\* Steps that change the two collections.

\* r writes docs, after which the collections are w, and goes on as q2. What the others
\* rely on is that nobody of them has these documents, and that a product they create
\* comes from nowhere else.
StoreFits(r, docs, w, strays) ==
    /\ w \in ViewType /\ docs \in SUBSET Docs
    /\ \A s \in Requests \ {r} : docs \cap requests[s].writes = {}
    /\ \A d \in Docs \ docs : Same(View, w, d)
    /\ requests[r].op \in InPlace => \A p \in Products : Homes(w, p) = Homes(View, p)
    /\ \A p \in Products \ strays : \A s \in Requests \ {r} :
          p \in requests[s].writes /\ Homes(View, p) = {} => Homes(w, p) = {}
    /\ \A m \in Members : View.people[m].status # "unused" => w.people[m].status # "unused"
    /\ OneHomeEach(w, strays) /\ Housed(w)
    /\ Alone => UnderEmail(w, strays)

NextFits(r, q2, w, strays) ==
    /\ RequestSound(w, q2, strays) /\ q2.writes \subseteq requests[r].writes
    /\ IF Alone THEN SeesTodo(w, q2) /\ CreatesUnderEmail(w, q2) ELSE Overlapping(q2)

LEMMA OthersGoOn ==
    ASSUME IInv, NEW r \in Requests, NEW docs, NEW w, NEW strays, astray \subseteq strays, StoreFits(r, docs, w, strays),
           NEW s \in Requests \ {r}, NEW q2,
           q2 = IF requests[s] = Idle \/ {requests[r].op, requests[s].op} \subseteq InPlace THEN requests[s]
                ELSE [requests[s] EXCEPT !.dirty = @ \cup docs]
    PROVE  RequestSound(w, q2, strays) /\ q2 \in Request /\ q2.op = requests[s].op /\ q2.writes = requests[s].writes
<1> DEFINE q == requests[s]
<1>1. q \in Request /\ RequestSound(View, q, astray) /\ View \in ViewType
  BY Known, GhostTypes
<1>2. docs \in SUBSET Docs /\ w \in ViewType
  BY DEF StoreFits
<1>3. q2 = q \/ q2 = [q EXCEPT !.dirty = @ \cup docs]
  OBVIOUS
<1>4. q2 \in Request
  BY <1>1, <1>2, <1>3 DEF Request
<1>5. q.op = "none" => q = Idle
  BY <1>1 DEF RequestSound, Phases
<1>6. InTransaction(q) => q2.dirty = q.dirty \cup docs
  <2> SUFFICES ASSUME InTransaction(q) PROVE q2.dirty = q.dirty \cup docs
    OBVIOUS
  <2>1. q.op \notin InPlace /\ q # Idle
    BY DEF InTransaction, Transactions, Moving, Joining, InPlace, Idle
  <2>2. q2 = [q EXCEPT !.dirty = @ \cup docs]
    BY <2>1
  <2> QED  BY <1>1, <2>2 DEF Request
<1>7. q.op = "edit" => q2.dirty = q.dirty \cup docs \/ \A p \in Products : Homes(w, p) = Homes(View, p)
  <2> SUFFICES ASSUME q.op = "edit", requests[r].op \notin InPlace PROVE q2.dirty = q.dirty \cup docs
    BY DEF StoreFits
  <2>1. q # Idle
    BY DEF Idle
  <2>2. q2 = [q EXCEPT !.dirty = @ \cup docs]
    BY <2>1
  <2> QED  BY <1>1, <2>2 DEF Request
<1>8. q2.op = q.op /\ q2.writes = q.writes
  BY <1>1, <1>3 DEF Request
<1>9. q.op = "none" => q2 = q
  BY <1>5
<1> HIDE DEF q
<1>10. RequestSound(w, q2, strays)
  <2>1. docs \cap q.writes = {}
    BY DEF StoreFits, q
  <2>2. \A p \in Products \ strays : p \in q.writes /\ Homes(View, p) = {} => Homes(w, p) = {}
    BY DEF StoreFits, q
  <2>3. /\ \A d \in Docs \ docs : Same(View, w, d)
        /\ \A m \in Members : View.people[m].status # "unused" => w.people[m].status # "unused"
    BY DEF StoreFits
  <2>4. Untouched(View, w, q, q2, docs, astray, strays)
    BY <1>3, <1>6, <1>7, <1>9, <2>1, <2>2, <2>3 DEF Untouched
  <2> QED  BY <1>1, <1>2, <1>4, <2>4, OthersWrite
<1> QED  BY <1>4, <1>8, <1>10 DEF q

LEMMA StoreSafe ==
    ASSUME IInv, NEW r \in Requests, NEW docs, NEW q2 \in Request, Touch(r, q2, docs), Busy(r),
           StoreFits(r, docs, View', astray'), NextFits(r, q2, View', astray'),
           traffic' = traffic, astray \subseteq astray', astray' \subseteq Products,
           copies' \in [Products -> Copy], failed' \in BOOLEAN,
           undone' \subseteq Products, renamed' \subseteq Members
    PROVE  IInv'
<1>1. /\ requests' = [s \in Requests |-> requests'[s]] /\ requests'[r] = q2
      /\ \A s \in Requests \ {r} :
            requests'[s] = IF requests[s] = Idle \/ {requests[r].op, requests[s].op} \subseteq InPlace
                           THEN requests[s] ELSE [requests[s] EXCEPT !.dirty = @ \cup docs]
  BY DEF Touch
<1>2. \A s \in Requests \ {r} :
          /\ RequestSound(View', requests'[s], astray') /\ requests'[s] \in Request
          /\ requests'[s].op = requests[s].op /\ requests'[s].writes = requests[s].writes
  BY <1>1, OthersGoOn
<1>3. requests' \in [Requests -> Request]
  BY <1>1, <1>2
<1>4. View' \in ViewType
  BY DEF StoreFits
<1>5. pool' \in [Products -> Slot] /\ people' \in [Members -> Person]
  BY <1>4 DEF View, ViewType
<1>6. TypeOK'
  BY <1>3, <1>5 DEF IInv, TypeOK
<1>7. Exclusive'
  BY <1>1, <1>2 DEF IInv, Exclusive, NextFits
<1>8. OneHomeEach(View', astray') /\ Housed(View')
  BY DEF StoreFits
<1>9. \A s \in Requests : RequestSound(View', requests'[s], astray')
  BY <1>1, <1>2 DEF NextFits
<1>10. Solitude'
  <2>1. Alone' = Alone
    BY DEF Alone
  <2>2. CASE Alone
    <3>1. \A s \in Requests \ {r} : requests[s] = Idle
      BY <2>2 DEF IInv, Solitude, Busy
    <3>2. \A s \in Requests \ {r} : requests'[s] = Idle
      BY <1>1, <3>1
    <3>3. \A s, t \in Requests : Busy(s)' /\ Busy(t)' => s = t
      BY <3>2 DEF Busy
    <3>4. \A s \in Requests : SeesTodo(View', requests'[s]) /\ CreatesUnderEmail(View', requests'[s])
      <4>1. SeesTodo(View', Idle) /\ CreatesUnderEmail(View', Idle)
        BY DEF SeesTodo, CreatesUnderEmail, Idle, Moving
      <4> QED  BY <1>1, <2>2, <3>2, <4>1 DEF NextFits
    <3>5. UnderEmail(View', astray')
      BY <2>2 DEF StoreFits
    <3> QED  BY <2>1, <2>2, <3>3, <3>4, <3>5 DEF Solitude
  <2>3. CASE ~Alone
    <3>1. \A s \in Requests \ {r} : Overlapping(requests'[s])
      BY <1>2, <2>3 DEF IInv, Solitude, Overlapping
    <3> QED  BY <1>1, <2>1, <2>3, <3>1 DEF Solitude, NextFits
  <2> QED  BY <2>2, <2>3
<1> QED  BY <1>6, <1>7, <1>8, <1>9, <1>10 DEF IInv

LEMMA CommitTypes ==
    ASSUME NEW q \in Request, q.at \in {"commit", "inserted"}
    PROVE  /\ AfterCommit(q) \in Request /\ AfterCommit(q).writes = {}
           /\ \/ AfterCommit(q) = Idle
              \/ /\ q.op \in {"import", "supply"} /\ AfterCommit(q).op = q.op /\ AfterCommit(q).at = "sync"
                 /\ AfterCommit(q).view = q.view /\ AfterCommit(q).sync = q.sync
                 /\ AfterCommit(q).member = q.member
              \/ /\ q.op \in {"offboard", "enrol"} /\ AfterCommit(q).op = q.op
                 /\ AfterCommit(q).at \in {"start", "attach"}
                 /\ AfterCommit(q).at = "attach" => q.at = "inserted"
                 /\ AfterCommit(q).sync = q.sync /\ AfterCommit(q).member = q.member
<1>1. CASE q.op \in {"import", "supply"}
  <2>1. AfterCommit(q) = [q EXCEPT !.at = "sync", !.writes = {}]
    BY <1>1 DEF AfterCommit
  <2> QED  BY <1>1, <2>1 DEF Request
<1>2. CASE q.op = "offboard"
  <2>1. AfterCommit(q) = [q EXCEPT !.at = "start", !.writes = {}, !.copied = {}, !.view = NoView]
    BY <1>2 DEF AfterCommit
  <2> QED  BY <1>2, <2>1, NoViewType DEF Request, ViewType
<1>3. CASE q.op = "enrol" /\ q.at = "inserted"
  <2>1. AfterCommit(q) = [q EXCEPT !.at = "attach", !.writes = {}, !.view = NoView]
    BY <1>3 DEF AfterCommit
  <2> QED  BY <1>3, <2>1, NoViewType DEF Request, ViewType
<1>4. CASE q.op \notin {"import", "supply", "offboard"} /\ ~(q.op = "enrol" /\ q.at = "inserted")
  <2>1. AfterCommit(q) = Idle
    BY <1>4 DEF AfterCommit
  <2> QED  BY <2>1, IdleType, IdleSound
<1> QED  BY <1>1, <1>2, <1>3, <1>4

LEMMA CommitSafe == ASSUME IInv, NEW r \in Requests, Commit(r) PROVE IInv'
<1> DEFINE q == requests[r]
           q2 == AfterCommit(q)
           w == View'
<1>1. /\ q \in Request /\ RequestSound(View, q, astray) /\ FitsTraffic(q) /\ Apart(r, q)
      /\ q.at \in {"commit", "inserted"} /\ View \in ViewType /\ q.view \in ViewType /\ q.writes \in SUBSET Docs
  BY Known, GhostTypes, RequestFields DEF Commit
<1>2. Busy(r) /\ ~HalfDeleted(q) /\ ~InTransaction(q)
  BY <1>1 DEF Busy, Idle, HalfDeleted, InTransaction
<1>3. w \in ViewType
  <2>1. w = [pool |-> [p \in Products |-> IF p \in q.writes THEN q.view.pool[p] ELSE pool[p]],
             people |-> [m \in Members |-> IF m \in q.writes THEN q.view.people[m] ELSE people[m]]]
    BY DEF Commit, View
  <2>2. /\ \A p \in Products : q.view.pool[p] \in Slot /\ pool[p] \in Slot
        /\ \A m \in Members : q.view.people[m] \in Person /\ people[m] \in Person
    BY <1>1, ViewFields, GhostTypes
  <2> QED  BY <2>1, <2>2 DEF ViewType
<1>4. /\ \A p \in Products : w.pool[p] = IF p \in q.writes THEN q.view.pool[p] ELSE View.pool[p]
      /\ \A m \in Members : w.people[m] = IF m \in q.writes THEN q.view.people[m] ELSE View.people[m]
  BY DEF Commit, View
<1>5. /\ astray \subseteq astray' /\ astray' \subseteq Products
      /\ \A m \in Members, p \in Products \ astray' :
            w.people[m].has[p] # Absent => w.people[m].has[p].email = w.people[m].email
  <2>1. astray \subseteq Products
    BY GhostTypes
  <2>2. w.people = people'
    BY DEF View
  <2> QED  BY <2>1, <2>2 DEF Commit
<1> HIDE DEF w
<1>6. /\ \A d \in Docs \ q.writes : Same(View, w, d)
      /\ \A d \in q.writes : Same(q.view, w, d)
  BY <1>1, <1>4 DEF Same
<1>7. \A p \in Products : /\ \A d \in q.writes : d \in Homes(w, p) <=> d \in After(q, p)
                          /\ \A d \in Docs \ q.writes : d \in Homes(w, p) <=> d \in Homes(View, p)
  <2>1. \A p \in Products : \A d \in q.writes : d \in Homes(w, p) <=> d \in Homes(q.view, p)
    BY <1>1, <1>6, SameHomes
  <2>2. \A p \in Products : \A d \in Docs \ q.writes : d \in Homes(w, p) <=> d \in Homes(View, p)
    BY <1>6, SameHomes
  <2> QED  BY <2>1, <2>2 DEF After
<1>8. ASSUME NEW p \in Products \ astray'
      PROVE  /\ \A d, e \in Homes(w, p) : d = e
             /\ Homes(View, p) = {} => Homes(w, p) = {} \/ p \in q.writes
  <2>1. /\ \A d, e \in After(q, p) : d = e
        /\ After(q, p) # {} => Before(View, q, p) # {} \/ (p \in q.writes /\ Homes(View, p) = {})
    BY <1>1, <1>2, <1>5 DEF RequestSound, OneAfter
  <2>2. \A d, e \in Homes(View, p) : d = e
    BY <1>5 DEF IInv, OneHomeEach
  <2>3. Homes(w, p) \subseteq Docs /\ Homes(View, p) \subseteq Docs
    BY <1>1, <1>3, HomesAre
  <2>4. CASE After(q, p) = {}
    <3>1. Homes(w, p) \subseteq Homes(View, p)
      BY <1>7, <2>3, <2>4
    <3> QED  BY <2>2, <3>1
  <2>5. CASE After(q, p) # {}
    <3>1. Homes(View, p) \subseteq q.writes
      BY <2>1, <2>2, <2>5 DEF Before
    <3>2. Homes(w, p) \subseteq After(q, p)
      BY <1>7, <2>3, <3>1
    <3>3. Homes(View, p) = {} => p \in q.writes
      BY <2>1, <2>5 DEF Before
    <3> QED  BY <2>1, <3>2, <3>3
  <2> QED  BY <2>4, <2>5
<1>9. \A m \in q.writes \cap Members : q.view.people[m].status # "unused"
  BY <1>1 DEF RequestSound, MembersUsed
<1>10. \A m \in Members : View.people[m].status # "unused" => w.people[m].status # "unused"
  BY <1>4, <1>9
<1>11. Housed(w)
  BY <1>4, <1>9 DEF Housed, IInv
<1>12. StoreFits(r, q.writes, w, astray')
  <2>1. \A s \in Requests \ {r} : q.writes \cap requests[s].writes = {}
    BY <1>1 DEF Apart
  <2>2. q.op \notin InPlace \/ q.writes = {}
    BY <1>1 DEF RequestSound, Phases, InPlace
  <2>3. q.writes = {} => \A p \in Products : Homes(w, p) = Homes(View, p)
    <3> SUFFICES ASSUME q.writes = {}, NEW p \in Products PROVE Homes(w, p) = Homes(View, p)
      OBVIOUS
    <3>1. Homes(w, p) \subseteq Docs /\ Homes(View, p) \subseteq Docs
      BY <1>1, <1>3, HomesAre
    <3> QED  BY <1>7, <3>1
  <2>4. \A p \in Products \ astray' : \A s \in Requests \ {r} :
            p \in requests[s].writes /\ Homes(View, p) = {} => Homes(w, p) = {}
    BY <1>8, <2>1
  <2>5. OneHomeEach(w, astray')
    BY <1>8 DEF OneHomeEach
  <2>6. UnderEmail(w, astray')
    BY <1>5 DEF UnderEmail
  <2> QED  BY <1>1, <1>3, <1>6, <1>10, <1>11, <2>1, <2>2, <2>3, <2>4, <2>5, <2>6 DEF StoreFits
<1>13. NextFits(r, q2, w, astray')
  <2>1. CASE q2 = Idle
    <3>1. RequestSound(w, q2, astray') /\ FitsTraffic(q2) /\ q2.writes = {}
      BY <2>1, IdleSound
    <3>2. SeesTodo(w, q2) /\ CreatesUnderEmail(w, q2) /\ Overlapping(q2)
      BY <2>1 DEF SeesTodo, CreatesUnderEmail, Overlapping, Idle, Moving
    <3> QED  BY <3>1, <3>2 DEF NextFits
  <2>2. CASE /\ q.op \in {"import", "supply"} /\ q2.op = q.op /\ q2.at = "sync"
             /\ q2.view = q.view /\ q2.sync = q.sync /\ q2.member = q.member
    <3>1. q2.writes = {}
      BY <1>1, CommitTypes
    <3> HIDE DEF q2
    <3>2. Phases(q2) /\ Synced(q2) /\ EditSees(w, q2)
      BY <1>1, <2>2, <3>1 DEF RequestSound, Phases, Synced, EditSees, Supplying
    <3>3. ~InTransaction(q2)
      BY <2>2 DEF InTransaction, Transactions, Moving, Joining
    <3>4. q2.member # None /\ q2.op \in Creating \cup {"readdress"} => w.people[q2.member].status # "unused"
      BY <1>1, <1>10, <2>2, RequestFields DEF RequestSound, MembersUsed, Creating
    <3>5. RequestSound(w, q2, astray')
      BY <2>2, <3>1, <3>2, <3>3, <3>4, NothingWritten
    <3>6. SeesTodo(w, q2) /\ CreatesUnderEmail(w, q2) /\ Overlapping(q2)
      BY <2>2 DEF SeesTodo, CreatesUnderEmail, Overlapping, Moving, OperationKinds, Creating, Supplying
    <3> QED  BY <3>1, <3>5, <3>6 DEF NextFits
  <2>3. CASE /\ q.op \in {"offboard", "enrol"} /\ q2.op = q.op /\ q2.at \in {"start", "attach"}
             /\ q2.at = "attach" => q.at = "inserted"
             /\ q2.sync = q.sync /\ q2.member = q.member
    <3>1. q2.writes = {}
      BY <1>1, CommitTypes
    <3> HIDE DEF q2
    <3>2. q2.sync = {}
      BY <1>1, <2>3 DEF RequestSound, Phases
    <3>3. Phases(q2) /\ Synced(q2) /\ EditSees(w, q2)
      BY <1>1, <2>3, <3>1, <3>2 DEF RequestSound, Phases, Synced, EditSees, Supplying
    <3>4. ~InTransaction(q2)
      BY <2>3 DEF InTransaction
    <3>5. RequestSound(w, q2, astray')
      BY <2>3, <3>1, <3>3, <3>4, NothingWritten DEF Creating
    <3>6. SeesTodo(w, q2) /\ CreatesUnderEmail(w, q2)
      BY <2>3, <3>4 DEF SeesTodo, CreatesUnderEmail
    <3>7. ~Alone => Overlapping(q2)
      BY <1>1, <2>3 DEF FitsTraffic, Overlapping
    <3> QED  BY <3>1, <3>5, <3>6, <3>7 DEF NextFits
  <2> QED  BY <1>1, <2>1, <2>2, <2>3, CommitTypes
<1>14. q2 \in Request /\ Touch(r, q2, q.writes) /\ traffic' = traffic
  BY <1>1, CommitTypes DEF Commit
<1>15. copies' \in [Products -> Copy] /\ failed' \in BOOLEAN /\ undone' \subseteq Products
  BY GhostTypes DEF Commit
<1>16. renamed' \subseteq Members
  <2>1. q.op = "readdress" => q.member \in Members
    BY <1>1 DEF RequestSound, Phases
  <2> QED  BY <2>1, GhostTypes DEF Commit
<1> HIDE DEF q2
<1> QED  BY <1>2, <1>5, <1>12, <1>13, <1>14, <1>15, <1>16, StoreSafe DEF w

\* A request outside any transaction that has written, and goes on to the copy.
LEMMA WrittenFits ==
    ASSUME IInv, NEW r \in Requests, NEW q2, NEW w, NEW strays,
           q2.op = requests[r].op, requests[r].op \in {"create", "stock", "edit"},
           q2.at = "sync", q2.writes = {}, q2.item = requests[r].item, q2.member = requests[r].member,
           \A p \in q2.sync : Homes(q2.view, p) # {},
           \A m \in Members : View.people[m].status # "unused" => w.people[m].status # "unused"
    PROVE  NextFits(r, q2, w, strays)
<1> DEFINE q == requests[r]
<1>1. q \in Request /\ RequestSound(View, q, astray)
  BY Known
<1>2. Phases(q2) /\ Synced(q2) /\ EditSees(w, q2)
  BY <1>1 DEF RequestSound, Phases, Synced, EditSees, Supplying
<1>3. ~InTransaction(q2)
  BY DEF InTransaction, Transactions, Moving, Joining
<1>4. q2.member # None /\ q2.op \in Creating \cup {"readdress"} => w.people[q2.member].status # "unused"
  BY <1>1, RequestFields DEF RequestSound, MembersUsed, Creating
<1>5. RequestSound(w, q2, strays)
  BY <1>2, <1>3, <1>4, NothingWritten
<1>6. SeesTodo(w, q2) /\ CreatesUnderEmail(w, q2) /\ Overlapping(q2)
  BY DEF SeesTodo, CreatesUnderEmail, Overlapping, Moving, OperationKinds, Creating, Supplying
<1> QED  BY <1>5, <1>6 DEF NextFits

LEMMA FiledHoused ==
    ASSUME IInv, NEW q \in Request, NEW p \in Products,
           q.member # None => View.people[q.member].status # "unused"
    PROVE  Housed(Filed(q, p))
<1>1. \A m \in Members : Filed(q, p).people[m].status = View.people[m].status
  BY FiledStatus
<1>2. Housed(View)
  BY DEF IInv
<1>3. CASE q.member = None
  <2>1. Filed(q, p).people = View.people
    BY <1>3, FiledFields
  <2> QED  BY <1>2, <2>1 DEF Housed
<1>4. CASE q.member # None
  <2>1. \A m \in Members, x \in Products :
            Filed(q, p).people[m].has[x] = IF m = q.member /\ x = p THEN NewItem(q) ELSE View.people[m].has[x]
    BY <1>4, FiledFields
  <2> QED  BY <1>1, <1>2, <1>4, <2>1 DEF Housed
<1> QED  BY <1>3, <1>4

LEMMA FiledUnderEmail ==
    ASSUME IInv, Alone, NEW q \in Request, NEW p \in Products,
           q.member # None => View.people[q.member].email = q.email
    PROVE  UnderEmail(Filed(q, p), astray)
<1>1. \A m \in Members : Filed(q, p).people[m].email = View.people[m].email
  BY FiledStatus
<1>2. UnderEmail(View, astray)
  BY DEF IInv, Solitude
<1>3. CASE q.member = None
  <2>1. Filed(q, p).people = View.people
    BY <1>3, FiledFields
  <2> QED  BY <1>2, <2>1 DEF UnderEmail
<1>4. CASE q.member # None
  <2>1. \A m \in Members, x \in Products :
            Filed(q, p).people[m].has[x] = IF m = q.member /\ x = p THEN NewItem(q) ELSE View.people[m].has[x]
    BY <1>4, FiledFields
  <2>2. NewItem(q).email = q.email
    BY DEF NewItem
  <2> QED  BY <1>1, <1>2, <1>4, <2>1, <2>2 DEF UnderEmail
<1> QED  BY <1>3, <1>4

LEMMA FileSafe ==
    ASSUME IInv, NEW r \in Requests, NEW p \in Fresh,
           requests[r].op \in {"create", "stock"}, requests[r].at = "insert",
           FiledIn(requests[r], p) \cap Writing = {},
           pool' = Filed(requests[r], p).pool, people' = Filed(requests[r], p).people,
           Touch(r, [requests[r] EXCEPT !.view = Filed(requests[r], p), !.sync = {p}, !.at = "sync"],
                 FiledIn(requests[r], p)),
           copies' = copies, UnchangedGhosts
    PROVE  IInv'
<1> DEFINE q == requests[r]
           w == Filed(q, p)
           q2 == [q EXCEPT !.view = w, !.sync = {p}, !.at = "sync"]
           docs == FiledIn(q, p)
<1>1. /\ q \in Request /\ RequestSound(View, q, astray) /\ FitsTraffic(q) /\ Busy(r) /\ q.writes = {}
  BY Known DEF RequestSound, Phases
<1>2. /\ p \in Products /\ Homes(View, p) = {}
      /\ \E d \in docs : Homes(w, p) = {d}
      /\ \A x \in Products \ {p} : Homes(w, x) = Homes(View, x)
      /\ \A d \in Docs \ docs : Same(View, w, d)
      /\ docs \subseteq Docs
  BY <1>1, FiledHomes
<1>3. w \in ViewType
  BY <1>1, <1>2, FiledFields
<1>4. View' = w
  BY <1>3, ViewFields DEF View
<1>5. /\ q2.op = q.op /\ q2.at = "sync" /\ q2.member = q.member /\ q2.item = q.item /\ q2.sync = {p}
      /\ q2.view = w /\ q2.writes = {}
  BY <1>1 DEF Request
<1>6. q2 \in Request
  BY <1>1, <1>2, <1>3 DEF Request, ViewType
<1>7. Touch(r, q2, docs)
  OBVIOUS
<1>8. \A m \in Members : w.people[m].status = View.people[m].status
  BY <1>1, <1>2, FiledStatus
<1>9. q.member # None => q.op = "create" /\ View.people[q.member].status # "unused"
  BY <1>1 DEF RequestSound, MembersUsed, Phases, Creating, Supplying
<1>10. Housed(w)
  BY <1>1, <1>2, <1>9, FiledHoused
<1>11. Alone => UnderEmail(w, astray)
  <2> SUFFICES ASSUME Alone PROVE UnderEmail(w, astray)
    OBVIOUS
  <2>1. q.member # None => View.people[q.member].email = q.email
    BY <1>1, <1>9 DEF FitsTraffic, CreatesUnderEmail
  <2> QED  BY <1>1, <1>2, <2>1, FiledUnderEmail
<1> HIDE DEF w, q2, docs
<1>12. StoreFits(r, docs, w, astray)
  <2>1. \A s \in Requests : docs \cap requests[s].writes = {} /\ p \notin requests[s].writes
    BY FreshApart DEF Writing, docs
  <2>2. OneHomeEach(w, astray)
    BY <1>2 DEF IInv, OneHomeEach
  <2>3. \A x \in Products \ astray : \A s \in Requests \ {r} :
            x \in requests[s].writes /\ Homes(View, x) = {} => Homes(w, x) = {}
    BY <1>2, <2>1
  <2> QED  BY <1>2, <1>3, <1>8, <1>10, <1>11, <2>1, <2>2, <2>3 DEF StoreFits, InPlace
<1>13. NextFits(r, q2, w, astray)
  <2>1. \A x \in q2.sync : Homes(q2.view, x) # {}
    BY <1>2, <1>5
  <2> QED  BY <1>5, <1>8, <2>1, WrittenFits
<1> QED  BY <1>1, <1>4, <1>6, <1>7, <1>12, <1>13, GhostTypes, StoreSafe DEF UnchangedGhosts

LEMMA CreateWriteSafe == ASSUME IInv, NEW r \in Requests, CreateWrite(r) PROVE IInv'
<1> DEFINE q == requests[r]
<1>1. q.op = "create" /\ q.at = "insert" /\ UnchangedGhosts /\ Busy(r)
  BY Known DEF CreateWrite, At
<1>2. CASE Finish(r) /\ UnchangedStores
  BY <1>1, <1>2, LookFinishes
<1>3. ASSUME NEW p \in Fresh, FiledIn(q, p) \cap Writing = {},
             pool' = Filed(q, p).pool, people' = Filed(q, p).people,
             Touch(r, [q EXCEPT !.view = Filed(q, p), !.sync = {p}, !.at = "sync"], FiledIn(q, p)),
             copies' = copies
      PROVE  IInv'
  BY <1>1, <1>3, FileSafe
<1> QED  BY <1>2, <1>3 DEF CreateWrite

LEMMA StockWriteSafe == ASSUME IInv, NEW r \in Requests, StockWrite(r) PROVE IInv'
<1> DEFINE q == requests[r]
<1>1. q.op = "stock" /\ q.at = "insert" /\ UnchangedGhosts /\ Busy(r) /\ q \in Request
  BY Known DEF StockWrite, At
<1>2. q.member = None
  BY <1>1, Known DEF RequestSound, Phases, Supplying
<1>3. CASE Finish(r) /\ UnchangedStores
  BY <1>1, <1>3, LookFinishes
<1>4. ASSUME NEW p \in Fresh, pool' = Filed(q, p).pool,
             Touch(r, [q EXCEPT !.view = Filed(q, p), !.sync = {p}, !.at = "sync"], {p}),
             people' = people, copies' = copies
      PROVE  IInv'
  <2>1. FiledIn(q, p) = {p}
    BY <1>2 DEF FiledIn
  <2>2. FiledIn(q, p) \cap Writing = {}
    BY <2>1 DEF Fresh
  <2>3. people' = Filed(q, p).people
    <3>1. p \in Products
      BY DEF Fresh
    <3>2. Filed(q, p).people = View.people
      BY <1>1, <1>2, <3>1, FiledFields
    <3> QED  BY <1>4, <3>2, GhostTypes
  <2> QED  BY <1>1, <1>4, <2>1, <2>2, <2>3, FileSafe
<1> QED  BY <1>3, <1>4 DEF StockWrite

\* An element set in place: nothing goes anywhere, and no email changes.
InPlaceFits(w, d) ==
    /\ w \in ViewType /\ d \in Docs /\ d \notin Writing
    /\ \A e \in Docs \ {d} : Same(View, w, e)
    /\ \A p \in Products : View.pool[p] # Absent <=> w.pool[p] # Absent
    /\ \A m \in Members : /\ w.people[m].email = View.people[m].email
                          /\ View.people[m].status # "unused" => w.people[m].status # "unused"
    /\ \A m \in Members, p \in Products :
          /\ View.people[m].has[p] # Absent <=> w.people[m].has[p] # Absent
          /\ w.people[m].has[p].email = View.people[m].has[p].email

LEMMA InPlaceSafe ==
    ASSUME IInv, NEW r \in Requests, requests[r].op \in InPlace, NEW d, InPlaceFits(View', d),
           NEW q2 \in Request, NextFits(r, q2, View', astray), Touch(r, q2, {d}), copies' = copies, UnchangedGhosts
    PROVE  IInv'
<1> DEFINE w == View'
<1>1. Busy(r)
  BY Known DEF InPlace
<1> HIDE DEF w
<1>2. InPlaceFits(w, d) /\ NextFits(r, q2, w, astray)
  BY DEF w
<1>3. \A p \in Products : Homes(w, p) = Homes(View, p)
  BY <1>2 DEF InPlaceFits, Homes
<1>4. OneHomeEach(w, astray)
  BY <1>3 DEF IInv, OneHomeEach
<1>5. Housed(w)
  BY <1>2 DEF InPlaceFits, IInv, Housed
<1>6. Alone => UnderEmail(w, astray)
  BY <1>2 DEF InPlaceFits, IInv, Solitude, UnderEmail
<1>7. \A s \in Requests : {d} \cap requests[s].writes = {}
  BY <1>2 DEF InPlaceFits, Writing
<1>8. StoreFits(r, {d}, w, astray)
  BY <1>2, <1>3, <1>4, <1>5, <1>6, <1>7 DEF InPlaceFits, StoreFits
<1> QED  BY <1>1, <1>2, <1>8, GhostTypes, StoreSafe DEF w, UnchangedGhosts

LEMMA SerialType ==
    ASSUME NEW i \in Slot, i # Absent, NEW n \in Serials \cup {None}
    PROVE  [i EXCEPT !.serial = n] \in Slot /\ [i EXCEPT !.serial = n] # Absent /\ [i EXCEPT !.serial = n].email = i.email
<1>1. i \in Item
  BY SlotFields
<1>2. [i EXCEPT !.serial = n] \in Item
  BY <1>1, ItemUpdates
<1>3. [i EXCEPT !.serial = n].email = i.email
  BY <1>1 DEF Item
<1> QED  BY <1>2, <1>3, ItemIsSlot

LEMMA EditInPoolSafe == ASSUME IInv, NEW r \in Requests, EditInPool(r) PROVE IInv'
<1> DEFINE q == requests[r]
           p == q.item
           i == [View.pool[p] EXCEPT !.serial = q.serial]
           w == [View EXCEPT !.pool[p] = i]
           q2 == [q EXCEPT !.at = "sync", !.sync = {p}, !.view = w]
<1>1. /\ q \in Request /\ RequestSound(View, q, astray) /\ q.op = "edit" /\ q.at = "write" /\ Busy(r)
      /\ View \in ViewType /\ View.pool = pool /\ View.people = people /\ UnchangedGhosts
  BY Known, GhostTypes DEF EditInPool, At
<1>2. p \in Products /\ q.writes = {} /\ q.serial \in Serials \cup {None}
  BY <1>1, RequestFields DEF RequestSound, Phases
<1>3. CASE Finish(r) /\ UnchangedStores
  BY <1>1, <1>3, LookFinishes
<1>4. CASE /\ Stored(View, p) /\ p \notin Writing
           /\ pool' = [pool EXCEPT ![p].serial = q.serial]
           /\ Touch(r, q2, {p}) /\ people' = people /\ copies' = copies
  <2>1. View.pool[p] \in Slot /\ View.pool[p] # Absent /\ View.pool \in [Products -> Slot]
    BY <1>1, <1>2, <1>4, ViewFields DEF Stored
  <2>2. i \in Slot /\ i # Absent
    BY <1>2, <2>1, SerialType
  <2>3. pool' = [View.pool EXCEPT ![p] = i]
    BY <1>1, <1>4
  <2> HIDE DEF i
  <2>4. w \in ViewType /\ w.pool = [View.pool EXCEPT ![p] = i] /\ w.people = View.people
    BY <1>1, <1>2, <2>1, <2>2 DEF ViewType
  <2>5. View' = w
    <3>1. w = [pool |-> w.pool, people |-> w.people]
      BY <2>4, ViewFields
    <3> HIDE DEF w
    <3> QED  BY <1>1, <1>4, <2>3, <2>4, <3>1 DEF View
  <2>6. Touch(r, q2, {p})
    BY <1>4
  <2>7. q2 \in Request
    BY <1>1, <1>2, <2>4 DEF Request, ViewType
  <2>8. /\ q2.op = "edit" /\ q2.at = "sync" /\ q2.member = q.member /\ q2.item = p /\ q2.sync = {p}
        /\ q2.view = w /\ q2.writes = {}
    BY <1>1, <1>2 DEF Request
  <2> HIDE DEF w, q2
  <2>9. \A x \in Products : w.pool[x] = IF x = p THEN i ELSE View.pool[x]
    BY <2>1, <2>4
  <2>10. InPlaceFits(w, p)
    BY <1>2, <1>4, <2>1, <2>2, <2>4, <2>9, DocsDiffer DEF InPlaceFits, Same
  <2>11. NextFits(r, q2, w, astray)
    <3>1. Homes(w, p) # {}
      BY <1>2, <2>2, <2>4, <2>9, HomesAre DEF Stored
    <3> QED  BY <1>1, <2>4, <2>8, <3>1, WrittenFits
  <2> QED  BY <1>1, <1>4, <2>5, <2>6, <2>7, <2>10, <2>11, InPlaceSafe DEF InPlace
<1> QED  BY <1>1, <1>3, <1>4 DEF EditInPool

LEMMA EditInMemberSafe == ASSUME IInv, NEW r \in Requests, EditInMember(r) PROVE IInv'
<1> DEFINE q == requests[r]
           m == q.member
           i(x) == [View.people[m].has[x] EXCEPT !.serial = q.serial]
           person(x) == [View.people[m] EXCEPT !.has[x] = i(x)]
           w(x) == [View EXCEPT !.people[m] = person(x)]
           q2(x) == [q EXCEPT !.at = "sync", !.sync = {x}, !.view = w(x)]
<1>1. /\ q \in Request /\ RequestSound(View, q, astray) /\ q.op = "edit" /\ q.at = "write" /\ Busy(r)
      /\ m # None /\ View \in ViewType /\ View.pool = pool /\ View.people = people /\ UnchangedGhosts
  BY Known, GhostTypes DEF EditInMember, At
<1>2. q.item \in Products /\ q.writes = {} /\ q.serial \in Serials \cup {None} /\ m \in Members
  BY <1>1, RequestFields DEF RequestSound, Phases
<1>3. CASE Finish(r) /\ UnchangedStores
  BY <1>1, <1>3, LookFinishes
<1>4. ASSUME NEW x \in Products, View.people[m].has[x] # Absent, m \notin Writing,
             people' = [people EXCEPT ![m].has[x].serial = q.serial],
             Touch(r, q2(x), {m}), pool' = pool, copies' = copies
      PROVE  IInv'
  <2>1. View.people[m] \in Person /\ View.people \in [Members -> Person] /\ View.people[m].has[x] \in Slot
    BY <1>1, <1>2, <1>4, ViewFields
  <2>2. i(x) \in Slot /\ i(x) # Absent /\ i(x).email = View.people[m].has[x].email
    BY <1>2, <1>4, <2>1, SerialType
  <2>3. people' = [View.people EXCEPT ![m] = person(x)]
    BY <1>1, <1>4
  <2>4. Touch(r, q2(x), {m})
    BY <1>4
  <2> HIDE DEF i
  <2>5. /\ person(x) \in Person /\ person(x).status = View.people[m].status /\ person(x).email = View.people[m].email
        /\ \A y \in Products : person(x).has[y] = IF y = x THEN i(x) ELSE View.people[m].has[y]
    BY <1>4, <2>1, <2>2 DEF Person
  <2> HIDE DEF person
  <2>6. w(x) \in ViewType /\ w(x).pool = View.pool /\ w(x).people = [View.people EXCEPT ![m] = person(x)]
    BY <1>1, <1>2, <2>1, <2>5 DEF ViewType
  <2>7. View' = w(x)
    <3>1. w(x) = [pool |-> w(x).pool, people |-> w(x).people]
      BY <2>6, ViewFields
    <3> HIDE DEF w
    <3> QED  BY <1>1, <1>4, <2>3, <2>6, <3>1 DEF View
  <2>8. q2(x) \in Request
    BY <1>1, <1>4, <2>6 DEF Request, ViewType
  <2>9. /\ q2(x).op = "edit" /\ q2(x).at = "sync" /\ q2(x).member = m /\ q2(x).item = q.item /\ q2(x).sync = {x}
        /\ q2(x).view = w(x) /\ q2(x).writes = {}
    BY <1>1, <1>2 DEF Request
  <2> HIDE DEF w, q2
  <2>10. w(x).people[m] = person(x) /\ \A n \in Members \ {m} : w(x).people[n] = View.people[n]
    BY <1>2, <2>1, <2>6
  <2>11. InPlaceFits(w(x), m)
    <3>1. m \in Docs /\ \A e \in Docs \ {m} : Same(View, w(x), e)
      BY <1>2, <2>6, <2>10, DocsDiffer DEF Same
    <3>2. \A n \in Members : /\ w(x).people[n].email = View.people[n].email
                             /\ w(x).people[n].status = View.people[n].status
      BY <2>5, <2>10
    <3>3. \A n \in Members, p \in Products :
             /\ View.people[n].has[p] # Absent <=> w(x).people[n].has[p] # Absent
             /\ w(x).people[n].has[p].email = View.people[n].has[p].email
      <4> SUFFICES ASSUME NEW n \in Members, NEW p \in Products
                   PROVE  /\ View.people[n].has[p] # Absent <=> w(x).people[n].has[p] # Absent
                          /\ w(x).people[n].has[p].email = View.people[n].has[p].email
        OBVIOUS
      <4>1. CASE n # m
        BY <2>10, <4>1
      <4>2. CASE n = m /\ p # x
        BY <2>5, <2>10, <4>2
      <4>3. CASE n = m /\ p = x
        BY <1>4, <2>2, <2>5, <2>10, <4>3
      <4> QED  BY <4>1, <4>2, <4>3
    <3> QED  BY <1>4, <2>6, <3>1, <3>2, <3>3 DEF InPlaceFits
  <2>12. NextFits(r, q2(x), w(x), astray)
    <3>1. m \in Holders(w(x), x)
      BY <1>2, <2>2, <2>5, <2>10 DEF Holders
    <3>2. Homes(w(x), x) # {}
      BY <2>6, <3>1, HomesAre
    <3>3. \A n \in Members : View.people[n].status # "unused" => w(x).people[n].status # "unused"
      BY <2>5, <2>10
    <3> QED  BY <1>1, <2>9, <3>2, <3>3, WrittenFits
  <2> QED  BY <1>1, <1>4, <2>4, <2>7, <2>8, <2>11, <2>12, InPlaceSafe DEF InPlace
<1>5. \/ Finish(r) /\ UnchangedStores
      \/ \E x \in Products :
            /\ View.people[m].has[x] # Absent /\ m \notin Writing
            /\ people' = [people EXCEPT ![m].has[x].serial = q.serial]
            /\ Touch(r, q2(x), {m}) /\ pool' = pool /\ copies' = copies
  <2> DEFINE held == {x \in Products : people[m].has[x] # Absent}
  <2>1. m \notin q.dirty => View.people[m].has[q.item] # Absent
    BY <1>1 DEF RequestSound, EditSees
  <2>2. \A x \in IF m \in q.dirty THEN held ELSE {q.item} : x \in Products /\ View.people[m].has[x] # Absent
    BY <1>1, <1>2, <2>1
  <2>3. \/ Finish(r) /\ UnchangedStores
        \/ /\ m \notin Writing /\ UNCHANGED <<pool, copies>>
           /\ \E x \in IF m \in q.dirty THEN held ELSE {q.item} :
                 /\ people' = [people EXCEPT ![m].has[x].serial = q.serial]
                 /\ Touch(r, [q EXCEPT !.at = "sync", !.sync = {x},
                              !.view = [View EXCEPT !.people[m].has[x].serial = q.serial]], {m})
    BY DEF EditInMember
  <2> HIDE DEF held
  <2> QED  BY <2>2, <2>3
<1> QED  BY <1>3, <1>4, <1>5

LEMMA DismissWriteSafe == ASSUME IInv, NEW r \in Requests, DismissWrite(r) PROVE IInv'
<1> DEFINE q == requests[r]
           m == q.member
           person == [View.people[m] EXCEPT !.status = "deleted"]
           w == [View EXCEPT !.people[m] = person]
<1>1. /\ q \in Request /\ RequestSound(View, q, astray) /\ q.op = "dismiss" /\ m \in Members
      /\ View \in ViewType /\ View.pool = pool /\ View.people = people /\ UnchangedGhosts
  BY Known, GhostTypes DEF DismissWrite, At, RequestSound, Phases
<1>2. m \notin Writing /\ people' = [people EXCEPT ![m].status = "deleted"] /\ Touch(r, Idle, {m})
      /\ pool' = pool /\ copies' = copies
  BY DEF DismissWrite
<1>3. View.people[m] \in Person /\ View.people \in [Members -> Person]
  BY <1>1, ViewFields
<1>4. /\ person \in Person /\ person.status = "deleted" /\ person.email = View.people[m].email
      /\ person.has = View.people[m].has
  BY <1>3 DEF Person
<1>5. people' = [View.people EXCEPT ![m] = person]
  BY <1>1, <1>2
<1> HIDE DEF person
<1>6. w \in ViewType /\ w.pool = View.pool /\ w.people = [View.people EXCEPT ![m] = person]
  BY <1>1, <1>3, <1>4 DEF ViewType
<1>7. View' = w
  <2>1. w = [pool |-> w.pool, people |-> w.people]
    BY <1>6, ViewFields
  <2> HIDE DEF w
  <2> QED  BY <1>1, <1>2, <1>5, <1>6, <2>1 DEF View
<1> HIDE DEF w
<1>8. w.people[m] = person /\ \A n \in Members \ {m} : w.people[n] = View.people[n]
  BY <1>1, <1>3, <1>6
<1>9. InPlaceFits(w, m)
  BY <1>1, <1>2, <1>4, <1>6, <1>8, DocsDiffer DEF InPlaceFits, Same
<1>10. NextFits(r, Idle, w, astray)
  <2>1. RequestSound(w, Idle, astray) /\ Idle.writes = {}
    BY IdleSound
  <2>2. SeesTodo(w, Idle) /\ CreatesUnderEmail(w, Idle) /\ Overlapping(Idle)
    BY DEF SeesTodo, CreatesUnderEmail, Overlapping, Idle, Moving
  <2> QED  BY <2>1, <2>2 DEF NextFits
<1> QED  BY <1>1, <1>2, <1>7, <1>9, <1>10, IdleType, InPlaceSafe DEF InPlace

-----------------------------------------------------------------------------
\* The initial states, and the theorem.

LEMMA EmployedType ==
    ASSUME NEW w \in Employed
    PROVE  w \in [Members -> Person] /\ \A m \in Members, p \in Products : w[m].has[p] = Absent
<1>1. PICK e \in [Members -> Emails \cup {None}] :
          w = [m \in Members |-> IF e[m] = None THEN Nobody ELSE [Nobody EXCEPT !.status = "live", !.email = e[m]]]
  BY DEF Employed
<1>2. ASSUME NEW x \in Emails \cup {None}
      PROVE  /\ [Nobody EXCEPT !.status = "live", !.email = x] \in Person
             /\ \A p \in Products : [Nobody EXCEPT !.status = "live", !.email = x].has[p] = Absent
  BY NobodyType DEF Person
<1> QED  BY <1>1, <1>2, NobodyType

\* At first a product is in one place, if it is there.
SingleHome(v) ==
    /\ v.pool \in [Products -> Slot] /\ v.people \in [Members -> Person]
    /\ \/ \A m \in Members, p \in Products : v.people[m].has[p] = Absent
       \/ /\ \A p \in Products : v.pool[p] = Absent
          /\ \E n \in Members : \A m \in Members \ {n}, p \in Products : v.people[m].has[p] = Absent

LEMMA StockedSingle == ASSUME NEW v \in Stocked PROVE SingleHome(v)
<1> DEFINE at(e, named) == [email |-> e, named |-> named, serial |-> None, gone |-> FALSE]
<1>1. \A e \in Emails \cup {None}, b \in BOOLEAN : at(e, b) \in Slot
  BY DEF Slot, Item
<1>2. NoView.pool \in [Products -> Slot] /\ \A p \in Products : NoView.pool[p] = Absent
  BY NoViewType DEF ViewType
<1> HIDE DEF at
<1>3. ASSUME NEW p \in Products, NEW e \in Emails \cup {None}, NEW w \in Employed,
             v = [pool |-> [NoView.pool EXCEPT ![p] = at(e, FALSE)], people |-> w]
      PROVE  SingleHome(v)
  <2>1. w \in [Members -> Person] /\ \A m \in Members, x \in Products : w[m].has[x] = Absent
    BY EmployedType
  <2>2. at(e, FALSE) \in Slot
    BY <1>1
  <2>3. [NoView.pool EXCEPT ![p] = at(e, FALSE)] \in [Products -> Slot]
    BY <1>2, <2>2
  <2> QED  BY <1>3, <2>1, <2>3 DEF SingleHome
<1>4. ASSUME NEW p \in Products, NEW n \in Members, NEW w \in Employed,
             v = [pool |-> NoView.pool, people |-> [w EXCEPT ![n].has[p] = at(w[n].email, TRUE)]]
      PROVE  SingleHome(v)
  <2>1. w \in [Members -> Person] /\ \A m \in Members, x \in Products : w[m].has[x] = Absent
    BY EmployedType
  <2>2. at(w[n].email, TRUE) \in Slot
    BY <1>1, <2>1 DEF Person
  <2>3. [w[n] EXCEPT !.has[p] = at(w[n].email, TRUE)] \in Person
    BY <2>1, <2>2 DEF Person
  <2>4. [w EXCEPT ![n].has[p] = at(w[n].email, TRUE)] \in [Members -> Person]
    BY <2>1, <2>3
  <2>5. \A m \in Members \ {n} : [w EXCEPT ![n].has[p] = at(w[n].email, TRUE)][m] = w[m]
    BY <2>1
  <2>6. v.pool = NoView.pool /\ v.people = [w EXCEPT ![n].has[p] = at(w[n].email, TRUE)]
    BY <1>4
  <2>7. \A m \in Members \ {n}, x \in Products : v.people[m].has[x] = Absent
    BY <2>1, <2>5, <2>6
  <2>8. v.people \in [Members -> Person]
    BY <2>4, <2>6
  <2> QED  BY <1>2, <2>6, <2>7, <2>8 DEF SingleHome
<1> QED  BY <1>3, <1>4 DEF Stocked, at

LEMMA InitIInv == ASSUME Init PROVE IInv
<1>1. PICK v \in CASE traffic = "assets"   -> {[NoView EXCEPT !.people = w] :
                                                 w \in {x \in Employed : \A m \in Members : x[m] # Nobody}}
                   [] traffic = "staff"    -> {NoView}
                   [] traffic = "together" -> Stocked :
          /\ pool = v.pool /\ people = v.people
          /\ \A p \in Products, m \in Members : people[m].has[p] # Absent => people[m].status = "live"
  BY DEF Init
<1>2. traffic \in Traffic /\ traffic \in {"assets", "staff", "together"}
  BY ConstantsAssumption DEF Init
<1>3. ASSUME traffic # "together"
      PROVE  /\ v.pool \in [Products -> Slot] /\ v.people \in [Members -> Person]
             /\ \A m \in Members, p \in Products : v.people[m].has[p] = Absent
  <2>1. v = NoView \/ \E w \in Employed : v = [NoView EXCEPT !.people = w]
    BY <1>1, <1>2, <1>3
  <2>2. NoView.pool \in [Products -> Slot] /\ NoView.people \in [Members -> Person]
    BY NoViewType DEF ViewType
  <2>3. CASE v = NoView
    BY <2>2, <2>3, NoViewType, NobodyType
  <2>4. ASSUME NEW w \in Employed, v = [NoView EXCEPT !.people = w]
        PROVE  /\ v.pool \in [Products -> Slot] /\ v.people \in [Members -> Person]
               /\ \A m \in Members, p \in Products : v.people[m].has[p] = Absent
    <3>1. v.pool = NoView.pool /\ v.people = w
      BY <2>4, NoViewType DEF ViewType
    <3> QED  BY <2>2, <3>1, EmployedType
  <2> QED  BY <2>1, <2>3, <2>4
<1>4. SingleHome(v)
  <2>1. CASE traffic = "together"
    <3>1. v \in Stocked
      BY <1>1, <2>1
    <3> QED  BY <3>1, StockedSingle
  <2>2. CASE traffic # "together"
    BY <1>3, <2>2 DEF SingleHome
  <2> QED  BY <2>1, <2>2
<1>5. /\ View.pool = v.pool /\ View.people = v.people /\ View \in ViewType
  BY <1>1, <1>4 DEF View, ViewType, SingleHome
<1>6. requests = [r \in Requests |-> Idle] /\ astray = {} /\ undone = {} /\ renamed = {} /\ failed = FALSE
  BY DEF Init
<1>7. TypeOK
  <2>1. copies \in [Products -> Copy]
    <3>1. [source |-> "none", holder |-> None, serial |-> None, gone |-> FALSE] \in Copy
      BY DEF Copy
    <3> QED  BY <3>1 DEF Init
  <2>2. requests \in [Requests -> Request]
    BY <1>6, IdleType
  <2>3. pool \in [Products -> Slot] /\ people \in [Members -> Person]
    BY <1>1, <1>4 DEF SingleHome
  <2> QED  BY <1>2, <1>6, <2>1, <2>2, <2>3 DEF TypeOK
<1>8. Exclusive
  BY <1>6, IdleSound DEF Exclusive
<1>9. Housed(View)
  BY <1>1, <1>5 DEF Housed
<1>10. OneHomeEach(View, astray)
  <2> SUFFICES ASSUME NEW p \in Products PROVE \A d, e \in Homes(View, p) : d = e
    BY DEF OneHomeEach
  <2>1. CASE \A m \in Members, x \in Products : v.people[m].has[x] = Absent
    BY <1>5, <2>1 DEF Homes
  <2>2. CASE /\ \A x \in Products : v.pool[x] = Absent
             /\ \E n \in Members : \A m \in Members \ {n}, x \in Products : v.people[m].has[x] = Absent
    <3>1. PICK n \in Members : \A m \in Members \ {n}, x \in Products : v.people[m].has[x] = Absent
      BY <2>2
    <3>2. Homes(View, p) \subseteq {n}
      BY <1>5, <2>2, <3>1 DEF Homes
    <3> QED  BY <3>2
  <2> QED  BY <1>4, <2>1, <2>2 DEF SingleHome
<1>11. Solitude
  <2>1. \A r \in Requests : ~Busy(r)
    BY <1>6 DEF Busy
  <2>2. \A r \in Requests : SeesTodo(View, requests[r]) /\ CreatesUnderEmail(View, requests[r]) /\ Overlapping(requests[r])
    BY <1>6 DEF SeesTodo, CreatesUnderEmail, Overlapping, Idle, Moving
  <2>3. Alone => UnderEmail(View, astray)
    BY <1>3, <1>5 DEF Alone, UnderEmail
  <2> QED  BY <2>1, <2>2, <2>3 DEF Solitude
<1>12. \A r \in Requests : RequestSound(View, requests[r], astray)
  BY <1>6, IdleSound
<1> QED  BY <1>7, <1>8, <1>9, <1>10, <1>11, <1>12 DEF IInv

LEMMA NextIInv == ASSUME OverlapAssumption, IInv, [Next]_vars PROVE IInv'
<1>1. CASE UNCHANGED vars
  BY <1>1 DEF vars, IInv, TypeOK, Exclusive, Solitude, Alone, Busy, View
<1>2. ASSUME NEW r \in Requests, Arrive(r) PROVE IInv'
  BY <1>2, ArriveSafe
<1>3. ASSUME NEW r \in Requests, Fail(r) PROVE IInv'
  BY <1>3, FailSafe
<1>4. ASSUME NEW r \in Requests, Step(r) PROVE IInv'
  <2>1. CASE Begin(r) \/ Sync(r) \/ Commit(r)
    BY <2>1, BeginSafe, SyncSafe, CommitSafe
  <2>2. CASE CreateLook(r) \/ CreateWrite(r) \/ ImportLook(r) \/ ImportWrite(r)
    BY <2>2, CreateLookSafe, CreateWriteSafe, ImportLookSafe, ImportWriteSafe
  <2>3. CASE StockLook(r) \/ StockWrite(r) \/ SupplyLook(r) \/ SupplyWrite(r)
    BY <2>3, StockLookSafe, StockWriteSafe, SupplyLookSafe, SupplyWriteSafe
  <2>4. CASE EditLook(r) \/ EditInPool(r) \/ EditInMember(r)
    BY <2>4, EditLookSafe, EditInPoolSafe, EditInMemberSafe
  <2>5. CASE MoveItem(r)
    BY <2>5, MoveItemSafe
  <2>6. CASE DeleteWrite(r) \/ DeleteMark(r) \/ DeleteDetach(r)
    BY <2>6, DeleteWriteSafe, DeleteMarkSafe, DeleteDetachSafe
  <2>7. CASE JoinWrite(r) \/ EnrolWrite(r) \/ EnrolAttach(r) \/ ReaddressWrite(r)
    BY <2>7, JoinWriteSafe, EnrolWriteSafe, EnrolAttachSafe, ReaddressWriteSafe
  <2>8. CASE DismissLook(r) \/ DismissWrite(r)
    BY <2>8, DismissLookSafe, DismissWriteSafe
  <2> QED  BY <1>4, <2>1, <2>2, <2>3, <2>4, <2>5, <2>6, <2>7, <2>8 DEF Step
<1> QED  BY <1>1, <1>2, <1>3, <1>4 DEF Next

LEMMA IInvOneHome == ASSUME IInv PROVE OneHome
<1> SUFFICES ASSUME NEW p \in Products \ astray
             PROVE  /\ Cardinality(Holders(View, p)) <= 1
                    /\ Stored(View, p) => Holders(View, p) = {}
  BY DEF OneHome
<1>1. View \in ViewType /\ \A d, e \in Homes(View, p) : d = e
  BY GhostTypes DEF IInv, OneHomeEach
<1>2. \A m \in Holders(View, p) : m \in Homes(View, p) /\ m # p
  BY <1>1, HomesAre, DocsDiffer DEF Holders
<1>3. Stored(View, p) => Holders(View, p) = {}
  BY <1>1, <1>2, HomesAre
<1>4. Cardinality(Holders(View, p)) <= 1
  <2>1. CASE Holders(View, p) = {}
    BY <2>1, FS_EmptySet
  <2>2. ASSUME NEW m \in Holders(View, p) PROVE Cardinality(Holders(View, p)) <= 1
    <3>1. Holders(View, p) = {m}
      BY <1>1, <1>2, <2>2
    <3> QED  BY <3>1, FS_Singleton
  <2> QED  BY <2>1, <2>2
<1> QED  BY <1>3, <1>4

\* Every variable keeps its shape, whatever arrives and however it overlaps, as long as
\* no request that gives one member's product to another runs next to another request.
THEOREM TypesKept == OverlapAssumption => (Spec => []TypeOK)
<1> SUFFICES ASSUME OverlapAssumption PROVE Spec => []TypeOK
  OBVIOUS
<1>1. Init => IInv
  BY InitIInv
<1>2. IInv /\ [Next]_vars => IInv'
  BY NextIInv
<1>3. IInv => TypeOK
  BY DEF IInv
<1> QED  BY <1>1, <1>2, <1>3, PTL DEF Spec

\* A product is stored once, in the pool or with one member, for any number of products,
\* members and requests: whatever overlaps, is aborted or dies half-way.
THEOREM ProductsHaveOneHome == OverlapAssumption => (Spec => []OneHome)
<1> SUFFICES ASSUME OverlapAssumption PROVE Spec => []OneHome
  OBVIOUS
<1>1. Init => IInv
  BY InitIInv
<1>2. IInv /\ [Next]_vars => IInv'
  BY NextIInv
<1>3. IInv => OneHome
  BY IInvOneHome
<1> QED  BY <1>1, <1>2, <1>3, PTL DEF Spec

-----------------------------------------------------------------------------
\* Custody: what the transactions have in hand, next to what the collections have.

\* Requests that come one after the other either delete products, or give members other
\* emails. A product under an old email may be left with its old member when it is moved,
\* and the deletion of one that is with two members leaves it with the second.
CustodyAssumption ==
    /\ OverlapAssumption
    /\ \A t \in Traffic \ {"together"} : ~({"delete", "readdress"} \subseteq Operations[t])

-----------------------------------------------------------------------------
\* Two views, before and after a step.

GoneIn(v, p) == Stored(v, p) /\ v.pool[p].gone

\* Only the pool keeps what is deleted.
NoneGone(v) == \A m \in Members, p \in Products : v.people[m].has[p] # Absent => ~v.people[m].has[p].gone

Rests(v, w, p) == Homes(w, p) = Homes(v, p) /\ (GoneIn(w, p) <=> GoneIn(v, p))

\* What is somewhere stays somewhere, what is deleted stays so, and nothing is new.
Stays(v, w) ==
    \A p \in Products : (Homes(w, p) = {} <=> Homes(v, p) = {}) /\ (GoneIn(w, p) <=> GoneIn(v, p))
Appears(v, w) ==
    \A p \in Products : Rests(v, w, p) \/ (Homes(v, p) = {} /\ Homes(w, p) # {} /\ ~GoneIn(w, p))
Deletes(v, w, x) ==
    /\ Homes(v, x) # {} /\ GoneIn(w, x)
    /\ \A p \in Products \ {x} : Rests(v, w, p)
Related(v, w) == Stays(v, w) \/ Appears(v, w) \/ \E x \in Products : Deletes(v, w, x)

PlaceIn(v, p) ==
    IF Stored(v, p) THEN IF v.pool[p].gone THEN "deleted" ELSE "pool"
    ELSE IF Holders(v, p) = {} THEN "nowhere"
    ELSE IF v.people[CHOOSE x \in Holders(v, p) : TRUE].has[p].gone THEN "deleted"
    ELSE CHOOSE x \in Holders(v, p) : TRUE

Place == [p \in Products |-> PlaceOf(p)]

LEMMA PlaceIsIn == \A p \in Products : Place[p] = PlaceIn(View, p)
BY DEF Place, PlaceOf, PlaceIn, View

LEMMA PlaceKinds ==
    ASSUME NEW v \in ViewType, NoneGone(v), NEW p \in Products
    PROVE  /\ PlaceIn(v, p) \in Kept!Places
           /\ GoneIn(v, p) => PlaceIn(v, p) = "deleted"
           /\ Homes(v, p) = {} => PlaceIn(v, p) = "nowhere"
           /\ Homes(v, p) # {} /\ ~GoneIn(v, p) => PlaceIn(v, p) \in Kept!Live
<1> DEFINE m == CHOOSE x \in Holders(v, p) : TRUE
<1>1. Homes(v, p) = {} <=> ~Stored(v, p) /\ Holders(v, p) = {}
  BY HomesAre
<1>2. CASE Stored(v, p)
  BY <1>1, <1>2 DEF PlaceIn, GoneIn, Kept!Places, Kept!Live
<1>3. CASE ~Stored(v, p) /\ Holders(v, p) = {}
  BY <1>1, <1>3 DEF PlaceIn, GoneIn, Kept!Places, Kept!Live
<1>4. CASE ~Stored(v, p) /\ Holders(v, p) # {}
  <2>1. m \in Holders(v, p)
    BY <1>4
  <2>2. m \in Members /\ ~v.people[m].has[p].gone
    BY <2>1 DEF Holders, NoneGone
  <2>3. PlaceIn(v, p) = m
    BY <1>4, <2>2 DEF PlaceIn
  <2> QED  BY <1>1, <1>4, <2>2, <2>3 DEF GoneIn, Kept!Places, Kept!Live
<1> QED  BY <1>2, <1>3, <1>4

LEMMA RestsPlace ==
    ASSUME NEW v \in ViewType, NEW w \in ViewType, NoneGone(v), NoneGone(w), NEW p \in Products, Rests(v, w, p)
    PROVE  PlaceIn(w, p) = PlaceIn(v, p)
<1>1. Stored(w, p) <=> Stored(v, p)
  BY HomesAre DEF Rests
<1>2. Holders(w, p) = Holders(v, p)
  <2>1. \A m \in Members : m \in Holders(w, p) <=> m \in Holders(v, p)
    BY HomesAre DEF Rests
  <2> QED  BY <2>1 DEF Holders
<1> DEFINE m == CHOOSE x \in Holders(v, p) : TRUE
<1>3. CASE Stored(v, p)
  BY <1>1, <1>3 DEF PlaceIn, Rests, GoneIn
<1>4. CASE ~Stored(v, p) /\ Holders(v, p) = {}
  BY <1>1, <1>2, <1>4 DEF PlaceIn
<1>5. CASE ~Stored(v, p) /\ Holders(v, p) # {}
  <2>1. m \in Holders(v, p) /\ m \in Holders(w, p)
    BY <1>2, <1>5
  <2>2. ~v.people[m].has[p].gone /\ ~w.people[m].has[p].gone
    BY <2>1 DEF Holders, NoneGone
  <2> QED  BY <1>1, <1>2, <1>5, <2>2 DEF PlaceIn
<1> QED  BY <1>3, <1>4, <1>5

\* The steps of Custody, said of Place.
LEMMA MovesIfSo ==
    ASSUME NEW S \in SUBSET {p \in Products : Place[p] \in Kept!Live}, NEW to \in [S -> Kept!Live],
           Place' = [p \in Products |-> IF p \in S THEN to[p] ELSE Place[p]]
    PROVE  Kept!Move
BY DEF Kept!Move, Place

LEMMA AppearsIfSo ==
    ASSUME NEW S \in SUBSET {p \in Products : Place[p] = "nowhere"}, NEW at \in [S -> Kept!Live],
           Place' = [p \in Products |-> IF p \in S THEN at[p] ELSE Place[p]]
    PROVE  Kept!Appear
BY DEF Kept!Appear, Place

LEMMA DeletesIfSo ==
    ASSUME NEW x \in Products, Place[x] \in Kept!Live, Place' = [Place EXCEPT ![x] = "deleted"]
    PROVE  Kept!Delete(x)
BY DEF Kept!Delete, Place

LEMMA RelatedIsKept ==
    ASSUME View \in ViewType, View' \in ViewType, NoneGone(View), NoneGone(View)', Related(View, View')
    PROVE  Kept!Next \/ Place' = Place
<1> DEFINE v == View
           w == View'
           old == [p \in Products |-> PlaceIn(v, p)]
           new == [p \in Products |-> PlaceIn(w, p)]
<1>1. Place = old /\ Place' = new
  BY DEF Place, PlaceOf, PlaceIn, View
<1>2. \A p \in Products :
         /\ GoneIn(v, p) => old[p] = "deleted"
         /\ Homes(v, p) = {} => old[p] = "nowhere"
         /\ Homes(v, p) # {} /\ ~GoneIn(v, p) => old[p] \in Kept!Live
  BY PlaceKinds
<1>3. \A p \in Products :
         /\ GoneIn(w, p) => new[p] = "deleted"
         /\ Homes(w, p) = {} => new[p] = "nowhere"
         /\ Homes(w, p) # {} /\ ~GoneIn(w, p) => new[p] \in Kept!Live
  <2>1. PICK u : u = View'
    OBVIOUS
  <2>2. \A p \in Products :
           /\ GoneIn(u, p) => PlaceIn(u, p) = "deleted"
           /\ Homes(u, p) = {} => PlaceIn(u, p) = "nowhere"
           /\ Homes(u, p) # {} /\ ~GoneIn(u, p) => PlaceIn(u, p) \in Kept!Live
    BY <2>1, PlaceKinds
  <2> QED  BY <2>1, <2>2
<1>4. \A p \in Products : Rests(v, w, p) => new[p] = old[p]
  <2>1. PICK u : u = View'
    OBVIOUS
  <2>2. \A p \in Products : Rests(v, u, p) => PlaceIn(u, p) = PlaceIn(v, p)
    BY <2>1, RestsPlace
  <2> QED  BY <2>1, <2>2
<1> DEFINE here == {p \in Products : Homes(v, p) # {} /\ ~GoneIn(v, p)}
<1>5. old = [p \in Products |-> old[p]] /\ new = [p \in Products |-> new[p]]
  OBVIOUS
<1> HIDE DEF old, new
<1>6. Place = old /\ Place' = new
  BY <1>1
<1>7. CASE Stays(v, w)
  <2>1. \A p \in here : new[p] \in Kept!Live /\ old[p] \in Kept!Live
    BY <1>2, <1>3, <1>7 DEF Stays
  <2>2. \A p \in Products \ here : new[p] = old[p]
    BY <1>2, <1>3, <1>7 DEF Stays
  <2> DEFINE to == [p \in here |-> new[p]]
  <2>3. to \in [here -> Kept!Live]
    BY <2>1
  <2>4. new = [p \in Products |-> IF p \in here THEN to[p] ELSE old[p]]
    BY <1>5, <2>2
  <2>5. here \in SUBSET {p \in Products : old[p] \in Kept!Live}
    BY <2>1
  <2> HIDE DEF to, here
  <2>6. Kept!Move
    BY <1>6, <2>3, <2>4, <2>5, MovesIfSo
  <2> QED  BY <2>6 DEF Kept!Next
<1>8. CASE Appears(v, w)
  <2> DEFINE S == {p \in Products : Homes(v, p) = {} /\ Homes(w, p) # {} /\ ~GoneIn(w, p)}
             at == [p \in S |-> new[p]]
  <2>1. \A p \in S : old[p] = "nowhere" /\ new[p] \in Kept!Live
    BY <1>2, <1>3
  <2>2. \A p \in Products \ S : new[p] = old[p]
    BY <1>4, <1>8 DEF Appears
  <2>3. at \in [S -> Kept!Live]
    BY <2>1
  <2>4. new = [p \in Products |-> IF p \in S THEN at[p] ELSE old[p]]
    BY <1>5, <2>2
  <2>5. S \in SUBSET {p \in Products : old[p] = "nowhere"}
    BY <2>1
  <2> HIDE DEF at, S
  <2>6. Kept!Appear
    BY <1>6, <2>3, <2>4, <2>5, AppearsIfSo
  <2> QED  BY <2>6 DEF Kept!Next
<1>9. ASSUME NEW x \in Products, Deletes(v, w, x) PROVE Kept!Next \/ new = old
  <2>1. new[x] = "deleted" /\ \A p \in Products \ {x} : new[p] = old[p]
    BY <1>3, <1>4, <1>9 DEF Deletes
  <2>2. CASE GoneIn(v, x)
    <3>1. \A p \in Products : new[p] = old[p]
      BY <1>2, <2>1, <2>2
    <3> QED  BY <1>5, <3>1
  <2>3. CASE ~GoneIn(v, x)
    <3>1. old[x] \in Kept!Live
      BY <1>2, <1>9, <2>3 DEF Deletes
    <3>2. new = [old EXCEPT ![x] = "deleted"]
      BY <1>5, <2>1
    <3>3. Kept!Delete(x)
      BY <1>6, <3>1, <3>2, DeletesIfSo
    <3> QED  BY <3>3 DEF Kept!Next
  <2> QED  BY <2>2, <2>3
<1> QED  BY <1>1, <1>7, <1>8, <1>9 DEF Related

LEMMA StartsKept == ASSUME View \in ViewType, NoneGone(View) PROVE Kept!Init
<1>1. \A p \in Products : PlaceIn(View, p) \in Kept!Places
  BY PlaceKinds
<1>2. Place = [p \in Products |-> PlaceIn(View, p)]
  BY DEF Place, PlaceOf, PlaceIn, View
<1>3. Place \in [Products -> Kept!Places]
  BY <1>1, <1>2
<1> QED  BY <1>3 DEF Kept!Init, Place

-----------------------------------------------------------------------------
\* The inductive invariant. With it, the invariant above is assumed.

\* A transaction that wrote the documents W, of which it makes w, has a product among
\* them after it just when it had it before; or, when it is alone, it gives one member a
\* product that another has. What is deleted stays so, and nothing else is.
Keeps(t, v, w, W) ==
    \A p \in Products :
        /\ Homes(v, p) \cap W = {} => Homes(w, p) \cap W = {} \/ (t # "together" /\ Homes(v, p) # {})
        /\ Homes(w, p) \cap W = {} => Homes(v, p) \cap W = {}
        /\ p \in W => (GoneIn(w, p) <=> GoneIn(v, p))

\* A transaction that makes products makes all it has written, and moves nothing.
Makes(v, q) ==
    IF q.at = "commit"
    THEN \A p \in Products :
            IF p \in q.writes THEN Homes(v, p) = {} /\ After(q, p) # {} /\ ~GoneIn(q.view, p)
            ELSE \A m \in q.writes \cap Members : q.view.people[m].has[p] = v.people[m].has[p]
    ELSE q.writes = {}

\* A deletion has one product in hand, which is there until it commits.
DeletesOne(v, q) ==
    /\ q.at # "sync"
    /\ q.writes # {} =>
          /\ q.writes \cap Products = {q.item} /\ GoneIn(q.view, q.item)
          /\ \A m \in q.writes \cap Members :
                /\ q.view.people[m].has[q.item] = Absent
                /\ \A x \in Products \ {q.item} : q.view.people[m].has[x] = v.people[m].has[x]
          /\ q.at = "mark" /\ Holders(q.view, q.item) = {} => Stored(v, q.item)
          /\ q.at = "commit" => Before(v, q, q.item) # {}

\* What a request is about to move is not deleted.
TodoLive(v, q) ==
    q.op \in Moving => \A p \in q.todo : ~GoneIn(v, p) /\ (InTransaction(q) => ~GoneIn(q.view, p))

\* Without changes of emails, every product has the email of its member.
EmailsFit(v, q) ==
    /\ UnderEmail(q.view, {})
    /\ q.op \in Creating /\ q.at = "insert" /\ q.member # None => v.people[q.member].email = q.email
    /\ q.at = "inserted" => q.member \in q.writes /\ q.view.people[q.member].email = q.email
    /\ q.at = "attach" => v.people[q.member].email = q.email

AloneFits(t, v, q) ==
    t # "together" => TodoLive(v, q) /\ ("readdress" \notin Operations[t] => EmailsFit(v, q))

RequestKept(t, v, q) ==
    /\ q.op \in Operations[t] \cup {"none", "dismiss"}
    /\ q.at = "inserted" => q.op = "enrol"
    /\ NoneGone(q.view)
    /\ q.op \in {"import", "supply"} => Makes(v, q)
    /\ q.op = "delete" => DeletesOne(v, q)
    /\ q.op \notin {"import", "supply", "delete"} => Keeps(t, v, q.view, q.writes)
    /\ AloneFits(t, v, q)

StoresKept(t, v, strays) ==
    /\ NoneGone(v)
    /\ "delete" \notin Operations[t] => \A p \in Products : ~GoneIn(v, p)
    /\ t # "together" /\ "readdress" \notin Operations[t] => strays = {}

CustodyInv ==
    /\ StoresKept(traffic, View, astray)
    /\ \A r \in Requests : RequestKept(traffic, View, requests[r])

\* What every step is shown to do.
StepKept == CustodyInv' /\ Related(View, View')

-----------------------------------------------------------------------------
\* Steps that leave the two collections alone.

LEMMA NoViewFits == NoneGone(NoView) /\ UnderEmail(NoView, {})
BY NoViewType, NobodyType DEF NoneGone, UnderEmail

\* A request that has written nothing.
LEMMA NothingKept ==
    ASSUME NEW t, NEW v, NEW q, q.op \in Operations[t] \cup {"none", "dismiss"}, q.writes = {},
           q.at # "inserted", NoneGone(q.view),
           q.op \in {"import", "supply"} => q.at # "commit",
           q.op = "delete" => q.at # "sync",
           AloneFits(t, v, q)
    PROVE  RequestKept(t, v, q)
BY DEF RequestKept, Makes, DeletesOne, Keeps

LEMMA IdleKept == ASSUME NEW t, NEW v PROVE RequestKept(t, v, Idle)
<1>1. Idle.op = "none" /\ Idle.at = "start" /\ Idle.writes = {} /\ Idle.view = NoView
  BY DEF Idle
<1>2. AloneFits(t, v, Idle)
  BY <1>1, NoViewFits DEF AloneFits, TodoLive, EmailsFit, Moving, Creating
<1> QED  BY <1>1, <1>2, NoViewFits, NothingKept

LEMMA ContinueKept ==
    ASSUME IInv, CustodyInv, NEW r \in Requests, NEW q, Continue(r, q), RequestKept(traffic, View, q),
           pool' = pool, people' = people, astray' = astray, traffic' = traffic
    PROVE  StepKept
<1>1. View' = View
  BY DEF View
<1>2. \A s \in Requests : requests'[s] = IF s = r THEN q ELSE requests[s]
  BY GhostTypes DEF Continue
<1>3. CustodyInv'
  BY <1>1, <1>2 DEF CustodyInv
<1>4. Stays(View, View)
  BY DEF Stays
<1> QED  BY <1>1, <1>3, <1>4 DEF StepKept, Related

LEMMA FinishKept ==
    ASSUME IInv, CustodyInv, NEW r \in Requests, Finish(r),
           pool' = pool, people' = people, astray' = astray, traffic' = traffic
    PROVE  StepKept
<1>1. RequestKept(traffic, View, Idle)
  BY IdleKept
<1> QED  BY <1>1, ContinueKept DEF Finish

\* What is known of a request.
LEMMA KeptKnown ==
    ASSUME IInv, CustodyInv, NEW r \in Requests
    PROVE  /\ requests[r] \in Request /\ requests[r].view \in ViewType /\ View \in ViewType
           /\ View.pool = pool /\ View.people = people
           /\ RequestSound(View, requests[r], astray) /\ FitsTraffic(requests[r]) /\ Apart(r, requests[r])
           /\ RequestKept(traffic, View, requests[r]) /\ StoresKept(traffic, View, astray)
           /\ traffic \in Traffic /\ Alone = (traffic # "together")
<1>1. traffic \in Traffic
  BY DEF IInv, TypeOK
<1> QED  BY <1>1, Known, GhostTypes, RequestFields DEF CustodyInv, Alone

\* Deleted products are with nobody, when requests come one after the other.
LEMMA GoneAlone ==
    ASSUME CustodyAssumption, IInv, CustodyInv, Alone, NEW p \in Products, GoneIn(View, p)
    PROVE  Holders(View, p) = {}
<1>1. traffic \in Traffic \ {"together"}
  BY DEF IInv, TypeOK, Alone
<1>2. "delete" \in Operations[traffic]
  BY DEF CustodyInv, StoresKept
<1>3. "readdress" \notin Operations[traffic]
  BY <1>1, <1>2 DEF CustodyAssumption
<1>4. astray = {}
  BY <1>1, <1>3 DEF CustodyInv, StoresKept
<1>5. \A d, e \in Homes(View, p) : d = e
  BY <1>4 DEF IInv, OneHomeEach
<1>6. p \in Homes(View, p)
  BY GhostTypes, HomesAre DEF GoneIn
<1>7. \A m \in Members : m # p /\ (m \in Holders(View, p) => m \in Homes(View, p))
  BY GhostTypes, HomesAre, DocsDiffer
<1> QED  BY <1>5, <1>6, <1>7 DEF Holders

LEMMA ArriveKept ==
    ASSUME CustodyAssumption, IInv, CustodyInv, NEW r \in Requests, Arrive(r) PROVE StepKept
<1>1. PICK op \in Operations[traffic] : \E q \in Bodies(op) : Continue(r, q)
  BY DEF Arrive
<1>2. PICK q \in Bodies(op) : Continue(r, q)
  BY <1>1
<1>3. traffic \in Traffic /\ op \in OperationKinds
  BY ConstantsAssumption DEF IInv, TypeOK
<1>4. q \in Request /\ q.op = op /\ q.at = "start" /\ q.writes = {}
  BY <1>3, BodyFields
<1>5. q.view = NoView /\ (op \in Moving => q.todo \subseteq Listed)
  <2>1. PICK p \in BodyItems(op), t \in BodyTodos(op), m \in BodyMembers(op),
             e \in BodyEmails(op), s \in BodySerials(op), k \in BodyTypings(op) :
               q = Body(op, p, t, m, e, s, k)
    BY DEF Bodies
  <2>2. q.view = NoView /\ q.todo = t
    BY <2>1 DEF Body, Idle
  <2>3. t \subseteq Listed
    BY DEF BodyTodos
  <2> QED  BY <2>2, <2>3
<1>6. TodoLive(View, q) \/ ~Alone
  <2> SUFFICES ASSUME Alone, NEW p \in Listed PROVE ~GoneIn(View, p)
    BY <1>4, <1>5 DEF TodoLive, InTransaction
  <2>1. p \in Products
    BY DEF Listed
  <2>2. CASE Stored(View, p) /\ ~pool[p].gone
    BY <2>2 DEF GoneIn, View
  <2>3. CASE Holders(View, p) # {}
    BY <2>1, <2>3, GoneAlone
  <2> QED  BY <2>2, <2>3 DEF Listed
<1>7. EmailsFit(View, q)
  BY <1>4, <1>5, NoViewFits DEF EmailsFit
<1>8. RequestKept(traffic, View, q)
  <2>1. AloneFits(traffic, View, q)
    BY <1>6, <1>7 DEF AloneFits, Alone
  <2> QED  BY <1>4, <1>5, <2>1, NoViewFits, NothingKept
<1> QED  BY <1>2, <1>8, ContinueKept DEF Arrive, UnchangedStores, UnchangedGhosts

\* Without changes of emails nothing is astray.
LEMMA ViewEmails ==
    ASSUME IInv, CustodyInv, Alone, "readdress" \notin Operations[traffic]
    PROVE  UnderEmail(View, {}) /\ astray = {}
BY DEF IInv, Solitude, CustodyInv, StoresKept, Alone

LEMMA BeginKept == ASSUME IInv, CustodyInv, NEW r \in Requests, Begin(r) PROVE StepKept
<1> DEFINE q == requests[r]
<1>1. /\ q \in Request /\ RequestSound(View, q, astray) /\ RequestKept(traffic, View, q)
      /\ StoresKept(traffic, View, astray) /\ Alone = (traffic # "together")
      /\ q.op \in Transactions /\ q.at = "start"
  BY KeptKnown DEF Begin, At
<1>2. PICK at \in {"work", "dismiss"} : Continue(r, [q EXCEPT !.view = View, !.dirty = {}, !.at = at])
  BY DEF Begin, At
<1> DEFINE q2 == [q EXCEPT !.view = View, !.dirty = {}, !.at = at]
<1>3. /\ q2.op = q.op /\ q2.at = at /\ q2.todo = q.todo /\ q2.view = View /\ q2.writes = q.writes
  BY <1>1 DEF Request
<1> HIDE DEF q2
<1>4. q2.writes = {} /\ q.op \notin {"import", "supply"}
  BY <1>1, <1>3 DEF RequestSound, Phases, Transactions, Moving, Joining
<1>5. AloneFits(traffic, View, q2)
  <2> SUFFICES ASSUME traffic # "together"
               PROVE  TodoLive(View, q2) /\ ("readdress" \notin Operations[traffic] => EmailsFit(View, q2))
    BY DEF AloneFits
  <2>1. TodoLive(View, q2)
    BY <1>1, <1>3 DEF RequestKept, AloneFits, TodoLive
  <2>2. "readdress" \notin Operations[traffic] => EmailsFit(View, q2)
    BY <1>1, <1>3, ViewEmails DEF EmailsFit
  <2> QED  BY <2>1, <2>2
<1>6. RequestKept(traffic, View, q2)
  <2>1. NoneGone(View) /\ q.op \in Operations[traffic] \cup {"none", "dismiss"}
    BY <1>1 DEF StoresKept, RequestKept
  <2> QED  BY <1>1, <1>3, <1>4, <1>5, <2>1, NothingKept
<1>7. Continue(r, q2)
  BY <1>2 DEF q2
<1> QED  BY <1>6, <1>7, ContinueKept DEF Begin, UnchangedStores, UnchangedGhosts

\* A request that goes on with the same view and the same writes.
LEMMA SameWork ==
    ASSUME NEW t, NEW v, NEW q, NEW q2, RequestKept(t, v, q),
           q2.op = q.op, q2.item = q.item, q2.todo = q.todo, q2.member = q.member, q2.email = q.email,
           q2.view = q.view, q2.writes = q.writes,
           q.at = "sync", q2.at \in {"sync", "work", "commit"},
           q2.at = "sync" \/ q.writes # {}
    PROVE  RequestKept(t, v, q2)
<1>1. q.op \notin {"delete"}
  BY DEF RequestKept, DeletesOne
<1>2. AloneFits(t, v, q2)
  BY DEF RequestKept, AloneFits, TodoLive, EmailsFit, InTransaction
<1>3. q.op \in {"import", "supply"} => Makes(v, q2)
  BY DEF RequestKept, Makes
<1> QED  BY <1>1, <1>2, <1>3 DEF RequestKept

LEMMA SyncKept == ASSUME IInv, CustodyInv, NEW r \in Requests, Sync(r) PROVE StepKept
<1> DEFINE q == requests[r]
<1>1. PICK p \in q.sync :
          IF q.sync # {p} THEN Continue(r, [q EXCEPT !.sync = @ \ {p}, !.copied = @ \cup {p}])
          ELSE IF q.writes = {} THEN Finish(r)
          ELSE Continue(r, [q EXCEPT !.sync = {}, !.copied = @ \cup {p},
                               !.at = IF q.op = "bulk" /\ q.todo # {} THEN "work" ELSE "commit"])
  BY DEF Sync
<1>2. /\ q \in Request /\ RequestKept(traffic, View, q) /\ q.at = "sync"
      /\ pool' = pool /\ people' = people /\ UnchangedGhosts
  BY KeptKnown DEF Sync
<1>3. CASE q.sync # {p}
  <2> DEFINE q2 == [q EXCEPT !.sync = @ \ {p}, !.copied = @ \cup {p}]
  <2>1. /\ q2.op = q.op /\ q2.item = q.item /\ q2.todo = q.todo /\ q2.member = q.member /\ q2.email = q.email
        /\ q2.view = q.view /\ q2.writes = q.writes /\ q2.at = "sync"
    BY <1>2 DEF Request
  <2>2. Continue(r, q2)
    BY <1>1, <1>3
  <2> HIDE DEF q2
  <2>3. RequestKept(traffic, View, q2)
    BY <1>2, <2>1, SameWork
  <2> QED  BY <1>2, <2>2, <2>3, ContinueKept DEF UnchangedGhosts
<1>4. CASE q.sync = {p} /\ q.writes = {}
  BY <1>1, <1>2, <1>4, FinishKept DEF UnchangedGhosts
<1>5. CASE q.sync = {p} /\ q.writes # {}
  <2> DEFINE at == IF q.op = "bulk" /\ q.todo # {} THEN "work" ELSE "commit"
             q2 == [q EXCEPT !.sync = {}, !.copied = @ \cup {p}, !.at = at]
  <2>1. /\ q2.op = q.op /\ q2.item = q.item /\ q2.todo = q.todo /\ q2.member = q.member /\ q2.email = q.email
        /\ q2.view = q.view /\ q2.writes = q.writes /\ q2.at \in {"work", "commit"}
    BY <1>2 DEF Request
  <2>2. Continue(r, q2)
    BY <1>1, <1>5
  <2> HIDE DEF q2
  <2>3. RequestKept(traffic, View, q2)
    BY <1>2, <1>5, <2>1, SameWork
  <2> QED  BY <1>2, <2>2, <2>3, ContinueKept DEF UnchangedGhosts
<1> QED  BY <1>3, <1>4, <1>5

LEMMA FailKept == ASSUME IInv, CustodyInv, NEW r \in Requests, Fail(r) PROVE StepKept
<1> DEFINE q == requests[r]
           q2 == [Idle EXCEPT !.op = "delete", !.item = q.item]
<1>1. /\ pool' = pool /\ people' = people /\ astray' = astray /\ traffic' = traffic
      /\ Finish(r) \/ (q.op = "delete" /\ Continue(r, q2))
  BY DEF Fail, UnchangedStores, Abort
<1>2. CASE Finish(r)
  BY <1>1, <1>2, FinishKept
<1>3. CASE q.op = "delete" /\ Continue(r, q2)
  <2>1. q2.op = "delete" /\ q2.at = "start" /\ q2.writes = {} /\ q2.view = NoView
    BY DEF Idle
  <2> HIDE DEF q2
  <2>2. q2.op \in Operations[traffic] \cup {"none", "dismiss"}
    BY <1>3, <2>1, KeptKnown DEF RequestKept
  <2>3. AloneFits(traffic, View, q2)
    BY <2>1, NoViewFits DEF AloneFits, TodoLive, EmailsFit, Moving, Creating
  <2>4. RequestKept(traffic, View, q2)
    BY <2>1, <2>2, <2>3, NoViewFits, NothingKept
  <2> QED  BY <1>1, <1>3, <2>4, ContinueKept
<1> QED  BY <1>1, <1>2, <1>3

\* A request that looked something up, and found the member to file its product with.
LEMMA LookKept ==
    ASSUME IInv, CustodyInv, NEW r \in Requests, NEW q2, Continue(r, q2), UnchangedStores, UnchangedGhosts,
           q2.op = requests[r].op \/ q2.op = "dismiss", q2.at \in {"insert", "write"},
           q2.writes = {}, q2.view \in {requests[r].view, NoView},
           q2.op \notin Moving,
           q2.op \in Creating /\ q2.member # None => View.people[q2.member].email = q2.email
    PROVE  StepKept
<1> DEFINE q == requests[r]
<1>1. RequestKept(traffic, View, q)
  BY KeptKnown
<1>2. NoneGone(q2.view) /\ q2.op \in Operations[traffic] \cup {"none", "dismiss"}
  BY <1>1, NoViewFits DEF RequestKept
<1>3. AloneFits(traffic, View, q2)
  BY <1>1, NoViewFits DEF RequestKept, AloneFits, TodoLive, EmailsFit
<1>4. RequestKept(traffic, View, q2)
  BY <1>2, <1>3, NothingKept
<1> QED  BY <1>4, ContinueKept DEF UnchangedStores, UnchangedGhosts

LEMMA OwnedKept ==
    ASSUME IInv, CustodyInv, NEW r \in Requests, At(r, {"create", "import"}, "start"), Owned(r),
           UnchangedStores, UnchangedGhosts
    PROVE  StepKept
<1> DEFINE q == requests[r]
<1>1. q \in Request /\ RequestSound(View, q, astray) /\ q.op \in {"create", "import"} /\ q.at = "start"
  BY Known DEF At
<1>2. PICK m \in IF Found(View, q.email) = {} THEN {None} ELSE Found(View, q.email) :
        Continue(r, [q EXCEPT !.at = "insert", !.member = IF q.email = None THEN None ELSE m])
  BY DEF Owned
<1> DEFINE n == IF q.email = None THEN None ELSE m
           q2 == [q EXCEPT !.at = "insert", !.member = n]
<1>3. n = None \/ View.people[n].email = q.email
  BY <1>2 DEF Found
<1>4. /\ q2.op = q.op /\ q2.at = "insert" /\ q2.member = n /\ q2.email = q.email
      /\ q2.writes = q.writes /\ q2.view = q.view
  BY <1>1 DEF Request
<1>5. Continue(r, q2)
  BY <1>2
<1> HIDE DEF q2, n
<1>6. q2.writes = {} /\ q2.op \notin Moving
  BY <1>1, <1>4 DEF RequestSound, Phases, Moving
<1> QED  BY <1>3, <1>4, <1>5, <1>6, LookKept

LEMMA CreateLookKept == ASSUME IInv, CustodyInv, NEW r \in Requests, CreateLook(r) \/ ImportLook(r) PROVE StepKept
<1>1. At(r, {"create", "import"}, "start") /\ UnchangedStores /\ UnchangedGhosts
  BY DEF CreateLook, ImportLook, At
<1>2. Finish(r) \/ Owned(r)
  BY DEF CreateLook, ImportLook
<1> QED  BY <1>1, <1>2, OwnedKept, FinishKept DEF UnchangedStores, UnchangedGhosts

LEMMA StockLookKept == ASSUME IInv, CustodyInv, NEW r \in Requests, StockLook(r) \/ SupplyLook(r) PROVE StepKept
<1> DEFINE q == requests[r]
           q2 == [q EXCEPT !.at = "insert"]
<1>1. /\ q \in Request /\ RequestSound(View, q, astray) /\ q.op \in {"stock", "supply"} /\ q.at = "start"
      /\ UnchangedStores /\ UnchangedGhosts
  BY Known DEF StockLook, SupplyLook, At
<1>2. Finish(r) \/ Continue(r, q2)
  BY DEF StockLook, SupplyLook
<1>3. CASE Finish(r)
  BY <1>1, <1>3, FinishKept DEF UnchangedStores, UnchangedGhosts
<1>4. CASE Continue(r, q2)
  <2>1. /\ q2.op = q.op /\ q2.at = "insert" /\ q2.member = q.member
        /\ q2.writes = q.writes /\ q2.view = q.view
    BY <1>1 DEF Request
  <2> HIDE DEF q2
  <2>2. q2.writes = {} /\ q2.op \notin Moving /\ q2.op \notin Creating
    BY <1>1, <2>1 DEF RequestSound, Phases, Moving, Creating
  <2> QED  BY <1>1, <1>4, <2>1, <2>2, LookKept
<1> QED  BY <1>2, <1>3, <1>4

LEMMA EditLookKept == ASSUME IInv, CustodyInv, NEW r \in Requests, EditLook(r) PROVE StepKept
<1> DEFINE q == requests[r]
<1>1. /\ q \in Request /\ RequestSound(View, q, astray) /\ q.op = "edit" /\ q.at = "start"
      /\ UnchangedStores /\ UnchangedGhosts
  BY Known DEF EditLook, At
<1>2. \/ Finish(r)
      \/ \E m \in Holders(View, q.item) \cup {None} :
            Continue(r, [q EXCEPT !.at = "write", !.member = m, !.dirty = {}])
  BY DEF EditLook
<1>3. CASE Finish(r)
  BY <1>1, <1>3, FinishKept DEF UnchangedStores, UnchangedGhosts
<1>4. ASSUME NEW m, Continue(r, [q EXCEPT !.at = "write", !.member = m, !.dirty = {}]) PROVE StepKept
  <2> DEFINE q2 == [q EXCEPT !.at = "write", !.member = m, !.dirty = {}]
  <2>1. q2.op = "edit" /\ q2.at = "write" /\ q2.writes = q.writes /\ q2.view = q.view
    BY <1>1 DEF Request
  <2>2. Continue(r, q2)
    BY <1>4
  <2> HIDE DEF q2
  <2>3. q2.writes = {} /\ q2.op \notin Moving /\ q2.op \notin Creating
    BY <1>1, <2>1 DEF RequestSound, Phases, Moving, Creating
  <2> QED  BY <1>1, <2>1, <2>2, <2>3, LookKept
<1> QED  BY <1>2, <1>3, <1>4

LEMMA DismissLookKept == ASSUME IInv, CustodyInv, NEW r \in Requests, DismissLook(r) PROVE StepKept
<1> DEFINE q == requests[r]
           q2 == [q EXCEPT !.op = "dismiss", !.at = "write", !.view = NoView]
<1>1. /\ q \in Request /\ RequestSound(View, q, astray) /\ q.at \in {"start", "dismiss"}
      /\ UnchangedStores /\ UnchangedGhosts
  BY Known DEF DismissLook, At
<1>2. Finish(r) \/ Continue(r, q2)
  BY DEF DismissLook
<1>3. CASE Finish(r)
  BY <1>1, <1>3, FinishKept DEF UnchangedStores, UnchangedGhosts
<1>4. CASE Continue(r, q2)
  <2>1. q2.op = "dismiss" /\ q2.at = "write" /\ q2.writes = q.writes /\ q2.view = NoView
    BY <1>1 DEF Request
  <2> HIDE DEF q2
  <2>2. q2.writes = {} /\ q2.op \notin Moving /\ q2.op \notin Creating
    BY <1>1, <2>1 DEF RequestSound, Phases, Moving, Creating
  <2> QED  BY <1>1, <1>4, <2>1, <2>2, LookKept
<1> QED  BY <1>2, <1>3, <1>4

-----------------------------------------------------------------------------
\* Steps that write, without the others seeing it.

\* What a new product is like.
LEMMA FiledKept ==
    ASSUME IInv, CustodyInv, NEW q \in Request, NEW p \in Fresh
    PROVE  /\ NoneGone(Filed(q, p))
           /\ ~GoneIn(Filed(q, p), p) /\ \A x \in Products \ {p} : Rests(View, Filed(q, p), x)
           /\ \A x \in Products \ {p}, m \in Members : Filed(q, p).people[m].has[x] = View.people[m].has[x]
<1> DEFINE w == Filed(q, p)
<1>1. p \in Products /\ \A x \in Products \ {p} : Homes(w, x) = Homes(View, x)
  BY FiledHomes
<1>2. NewItem(q).gone = FALSE /\ View \in ViewType /\ ~Stored(View, p) /\ NoneGone(View)
  BY GhostTypes DEF NewItem, Fresh, CustodyInv, StoresKept
<1>3. CASE q.member = None
  <2>1. w.pool = [View.pool EXCEPT ![p] = NewItem(q)] /\ w.people = View.people
    BY <1>1, <1>3, FiledFields
  <2> HIDE DEF w
  <2>2. w.pool[p] = NewItem(q) /\ \A x \in Products \ {p} : w.pool[x] = View.pool[x]
    BY <1>1, <1>2, <2>1, ViewFields
  <2>3. NoneGone(w) /\ ~GoneIn(w, p) /\ \A x \in Products \ {p} : Rests(View, w, x)
    BY <1>1, <1>2, <2>1, <2>2 DEF NoneGone, GoneIn, Rests, Stored
  <2> QED  BY <2>1, <2>3 DEF w
<1>4. CASE q.member # None
  <2>1. /\ w.pool = View.pool
        /\ \A m \in Members, x \in Products :
              w.people[m].has[x] = IF m = q.member /\ x = p THEN NewItem(q) ELSE View.people[m].has[x]
    BY <1>1, <1>4, FiledFields
  <2> HIDE DEF w
  <2>2. NoneGone(w) /\ ~GoneIn(w, p) /\ \A x \in Products \ {p} : Rests(View, w, x)
    BY <1>1, <1>2, <2>1 DEF NoneGone, GoneIn, Rests, Stored
  <2> QED  BY <2>1, <2>2 DEF w
<1> QED  BY <1>3, <1>4

\* It gets the email of its member.
LEMMA FiledEmails ==
    ASSUME IInv, CustodyInv, NEW r \in Requests, requests[r].at = "insert",
           requests[r].op \in Creating \cup Supplying, NEW p \in Fresh
    PROVE  Alone /\ "readdress" \notin Operations[traffic] => UnderEmail(Filed(requests[r], p), {})
<1> SUFFICES ASSUME Alone, "readdress" \notin Operations[traffic] PROVE UnderEmail(Filed(requests[r], p), {})
  OBVIOUS
<1> DEFINE q == requests[r]
<1>1. q \in Request /\ EmailsFit(View, q) /\ Phases(q) /\ p \in Products
  BY KeptKnown DEF RequestKept, AloneFits, RequestSound, Fresh
<1>2. q.member # None => View.people[q.member].email = q.email
  BY <1>1 DEF EmailsFit, Phases
<1>3. UnderEmail(Filed(q, p), astray)
  BY <1>1, <1>2, FiledUnderEmail
<1> QED  BY <1>3, ViewEmails

LEMMA ImportWriteKept == ASSUME IInv, CustodyInv, NEW r \in Requests, ImportWrite(r) PROVE StepKept
<1> DEFINE q == requests[r]
<1>1. /\ q \in Request /\ RequestKept(traffic, View, q) /\ Alone = (traffic # "together")
      /\ q.op = "import" /\ q.at = "insert" /\ UnchangedStores /\ UnchangedGhosts
  BY KeptKnown DEF ImportWrite, At
<1>2. CASE Finish(r)
  BY <1>1, <1>2, FinishKept DEF UnchangedStores, UnchangedGhosts
<1>3. ASSUME NEW p \in Fresh,
             Continue(r, [q EXCEPT !.view = Filed(q, p), !.sync = {p}, !.at = "commit", !.writes = FiledIn(q, p)])
      PROVE  StepKept
  <2> DEFINE w == Filed(q, p)
             q2 == [q EXCEPT !.view = w, !.sync = {p}, !.at = "commit", !.writes = FiledIn(q, p)]
  <2>1. /\ p \in Products /\ Homes(View, p) = {} /\ \E d \in FiledIn(q, p) : Homes(w, p) = {d}
    BY <1>1, FiledHomes
  <2>2. /\ NoneGone(w) /\ ~GoneIn(w, p)
        /\ \A x \in Products \ {p}, m \in Members : w.people[m].has[x] = View.people[m].has[x]
    BY <1>1, FiledKept
  <2>3. Alone /\ "readdress" \notin Operations[traffic] => UnderEmail(w, {})
    BY <1>1, FiledEmails DEF Creating
  <2>4. \A x \in Products \cap FiledIn(q, p) : x = p
    BY <1>1, RequestFields, DocsDiffer DEF FiledIn
  <2>5. /\ q2.op = "import" /\ q2.at = "commit" /\ q2.view = w /\ q2.writes = FiledIn(q, p)
    BY <1>1 DEF Request
  <2>6. Continue(r, q2)
    BY <1>3
  <2> HIDE DEF q2, w
  <2>7. Makes(View, q2)
    <3>1. p \in FiledIn(q, p)
      BY DEF FiledIn
    <3> QED  BY <2>1, <2>2, <2>4, <2>5, <3>1 DEF Makes, After
  <2>8. AloneFits(traffic, View, q2)
    BY <1>1, <2>3, <2>5 DEF AloneFits, TodoLive, EmailsFit, Moving
  <2>9. RequestKept(traffic, View, q2)
    BY <1>1, <2>2, <2>5, <2>7, <2>8 DEF RequestKept
  <2> QED  BY <1>1, <2>6, <2>9, ContinueKept DEF UnchangedStores, UnchangedGhosts
<1> QED  BY <1>2, <1>3 DEF ImportWrite

LEMMA SupplyWriteKept == ASSUME IInv, CustodyInv, NEW r \in Requests, SupplyWrite(r) PROVE StepKept
<1> DEFINE q == requests[r]
<1>1. /\ q \in Request /\ RequestKept(traffic, View, q) /\ Alone = (traffic # "together")
      /\ q.op = "supply" /\ q.at = "insert" /\ UnchangedStores /\ UnchangedGhosts
      /\ View \in ViewType /\ RequestSound(View, q, astray) /\ NoneGone(View)
  BY KeptKnown DEF SupplyWrite, At, StoresKept
<1>2. CASE Finish(r)
  BY <1>1, <1>2, FinishKept DEF UnchangedStores, UnchangedGhosts
<1>3. ASSUME NEW p \in Fresh, NEW x \in Fresh, p # x,
             Continue(r, [q EXCEPT !.at = "commit", !.writes = {p, x}, !.sync = {p, x},
                      !.view = [Filed(q, p) EXCEPT !.pool[x] = [Filed(q, p).pool[p] EXCEPT !.serial = None]]])
      PROVE  StepKept
  <2> DEFINE other == [Filed(q, p).pool[p] EXCEPT !.serial = None]
             w == [Filed(q, p) EXCEPT !.pool[x] = other]
             q2 == [q EXCEPT !.at = "commit", !.writes = {p, x}, !.sync = {p, x}, !.view = w]
  <2>1. q.member = None
    BY <1>1 DEF RequestSound, Phases, Supplying
  <2>2. p \in Products /\ Homes(View, p) = {} /\ x \in Products /\ Homes(View, x) = {}
    BY <1>1, FiledHomes
  <2>3. /\ Filed(q, p) \in ViewType /\ Filed(q, p).pool = [View.pool EXCEPT ![p] = NewItem(q)]
        /\ Filed(q, p).people = View.people
    BY <1>1, <2>1, <2>2, FiledFields
  <2>4. other.gone = FALSE /\ other # Absent
    <3>1. Filed(q, p).pool[p] = NewItem(q) /\ NewItem(q) \in Item /\ NewItem(q).gone = FALSE
      BY <1>1, <2>2, <2>3, GhostTypes, NewItemType DEF ViewType, NewItem
    <3>2. other \in Item /\ other.gone = FALSE
      BY <3>1 DEF Item
    <3> QED  BY <3>2, ItemIsSlot
  <2>5. w.people = View.people /\ w.pool[x] = other /\ w.pool[p] = NewItem(q)
    <3> HIDE DEF other
    <3> QED  BY <1>1, <1>3, <2>2, <2>3 DEF ViewType
  <2>6. /\ q2.op = "supply" /\ q2.at = "commit" /\ q2.view = w /\ q2.writes = {p, x}
    BY <1>1 DEF Request
  <2>7. Continue(r, q2)
    BY <1>3
  <2> HIDE DEF q2, w, other
  <2>8. p \in Homes(w, p) /\ x \in Homes(w, x) /\ ~GoneIn(w, p) /\ ~GoneIn(w, x)
    <3>1. NewItem(q) # Absent /\ NewItem(q).gone = FALSE
      BY <1>1, NewItemType DEF NewItem
    <3> QED  BY <2>2, <2>4, <2>5, <3>1, DocsDiffer DEF Homes, GoneIn
  <2>9. Makes(View, q2)
    <3>1. {p, x} \cap Members = {}
      BY <2>2, DocsDiffer
    <3> QED  BY <2>2, <2>6, <2>8, <3>1 DEF Makes, After
  <2>10. NoneGone(w)
    BY <1>1, <2>5 DEF NoneGone
  <2>11. AloneFits(traffic, View, q2)
    <3>1. Alone /\ "readdress" \notin Operations[traffic] => UnderEmail(w, {})
      BY <2>5, ViewEmails DEF UnderEmail
    <3> QED  BY <1>1, <2>6, <3>1 DEF AloneFits, TodoLive, EmailsFit, Moving
  <2>12. RequestKept(traffic, View, q2)
    BY <1>1, <2>6, <2>9, <2>10, <2>11 DEF RequestKept
  <2> QED  BY <1>1, <2>7, <2>12, ContinueKept DEF UnchangedStores, UnchangedGhosts
<1> QED  BY <1>2, <1>3 DEF SupplyWrite

LEMMA EnrolWriteKept == ASSUME IInv, CustodyInv, NEW r \in Requests, EnrolWrite(r) PROVE StepKept
<1> DEFINE q == requests[r]
<1>1. /\ q \in Request /\ RequestKept(traffic, View, q) /\ q.view \in ViewType /\ View.people = people
      /\ q.op = "enrol" /\ q.at = "work" /\ Stores /\ Ghosts
  BY KeptKnown DEF EnrolWrite, At
<1>2. CASE Abort(r)
  BY <1>1, <1>2, FinishKept DEF Stores, Ghosts, Abort
<1>3. ASSUME NEW m \in Members, people[m].status = "unused",
             Continue(r, [q EXCEPT !.member = m, !.writes = {m}, !.at = "inserted",
                      !.view.people[m] = [Nobody EXCEPT !.status = "live", !.email = q.email]])
      PROVE  StepKept
  <2> DEFINE person == [Nobody EXCEPT !.status = "live", !.email = q.email]
             w == [q.view EXCEPT !.people[m] = person]
             q2 == [q EXCEPT !.member = m, !.writes = {m}, !.at = "inserted", !.view = w]
  <2>1. person.email = q.email /\ \A p \in Products : person.has[p] = Absent
    BY <1>1, NobodyType DEF Person
  <2>2. Continue(r, q2)
    BY <1>3
  <2> HIDE DEF person
  <2>3. w.people[m] = person /\ \A n \in Members \ {m} : w.people[n] = q.view.people[n]
    BY <1>1 DEF ViewType
  <2> HIDE DEF w
  <2>4. /\ q2.op = "enrol" /\ q2.at = "inserted" /\ q2.member = m /\ q2.email = q.email
        /\ q2.view = w /\ q2.writes = {m}
    BY <1>1 DEF Request
  <2> HIDE DEF q2
  <2>5. NoneGone(w)
    <3>1. NoneGone(q.view)
      BY <1>1 DEF RequestKept
    <3> QED  BY <2>1, <2>3, <3>1 DEF NoneGone
  <2>6. AloneFits(traffic, View, q2)
    <3>1. traffic # "together" /\ "readdress" \notin Operations[traffic] => UnderEmail(q.view, {})
      BY <1>1 DEF RequestKept, AloneFits, EmailsFit
    <3>2. UnderEmail(q.view, {}) => UnderEmail(w, {})
      BY <2>1, <2>3 DEF UnderEmail
    <3> QED  BY <2>1, <2>3, <2>4, <3>1, <3>2 DEF AloneFits, TodoLive, EmailsFit, Moving, Creating
  <2>7. Keeps(traffic, View, w, {m})
    <3>1. \A p \in Products : View.people[m].has[p] = Absent
      BY <1>1, <1>3 DEF IInv, Housed
    <3> QED  BY <2>1, <2>3, <3>1, DocsDiffer DEF Keeps, Homes
  <2>8. RequestKept(traffic, View, q2)
    BY <1>1, <2>4, <2>5, <2>6, <2>7 DEF RequestKept
  <2> QED  BY <1>1, <2>2, <2>8, ContinueKept DEF Stores, Ghosts
<1>4. Abort(r) \/ \E m \in Members :
          /\ people[m].status = "unused"
          /\ Continue(r, [q EXCEPT !.member = m, !.writes = {m}, !.at = "inserted",
                 !.view.people[m] = [Nobody EXCEPT !.status = "live", !.email = q.email]])
  BY DEF EnrolWrite
<1> QED  BY <1>2, <1>3, <1>4

LEMMA DeleteMarkKept == ASSUME IInv, CustodyInv, NEW r \in Requests, DeleteMark(r) PROVE StepKept
<1> DEFINE q == requests[r]
           p == q.item
           next == IF Holders(q.view, p) = {} THEN "commit" ELSE "detach"
           q2 == [q EXCEPT !.copied = {p}, !.at = next]
<1>1. /\ q \in Request /\ RequestSound(View, q, astray) /\ RequestKept(traffic, View, q)
      /\ q.op = "delete" /\ q.at = "mark" /\ View \in ViewType
      /\ pool' = pool /\ people' = people /\ UnchangedGhosts
  BY KeptKnown DEF DeleteMark, At
<1>2. q.writes = {p} /\ p \in Products
  BY <1>1 DEF RequestSound, OneWritten, HalfDeleted, Phases
<1>3. Continue(r, q2)
  BY DEF DeleteMark
<1>4. /\ q2.op = "delete" /\ q2.at = next /\ q2.item = p /\ q2.view = q.view /\ q2.writes = q.writes
      /\ q2.todo = q.todo /\ q2.member = q.member /\ q2.email = q.email
  BY <1>1 DEF Request
<1> HIDE DEF q2
<1>5. next = "commit" => p \in Before(View, q2, p)
  BY <1>1, <1>2, <1>4, HomesAre DEF RequestKept, DeletesOne, Before
<1>6. DeletesOne(View, q2)
  BY <1>1, <1>2, <1>4, <1>5 DEF RequestKept, DeletesOne
<1>7. AloneFits(traffic, View, q2)
  BY <1>1, <1>4 DEF RequestKept, AloneFits, TodoLive, EmailsFit, Moving, Creating
<1>8. RequestKept(traffic, View, q2)
  BY <1>1, <1>4, <1>6, <1>7 DEF RequestKept
<1> QED  BY <1>1, <1>3, <1>8, ContinueKept DEF UnchangedGhosts

-----------------------------------------------------------------------------
\* A transaction writes.

\* It takes documents that nobody wrote since its snapshot.
LEMMA TakeKeeps ==
    ASSUME NEW t, NEW v, NEW u, NEW dirty, NEW writes, NEW docs \in SUBSET Docs,
           \A d \in Docs \ (dirty \cup writes) : Same(u, v, d),
           docs \cap dirty = {}, Keeps(t, v, u, writes)
    PROVE  Keeps(t, v, u, writes \cup docs)
<1> SUFFICES ASSUME NEW p \in Products
             PROVE  LET W == writes \cup docs IN
                    /\ Homes(v, p) \cap W = {} => Homes(u, p) \cap W = {} \/ (t # "together" /\ Homes(v, p) # {})
                    /\ Homes(u, p) \cap W = {} => Homes(v, p) \cap W = {}
                    /\ p \in W => (GoneIn(u, p) <=> GoneIn(v, p))
  BY DEF Keeps
<1>1. \A d \in docs \ writes : d \in Homes(u, p) <=> d \in Homes(v, p)
  BY SameHomes
<1>2. p \in docs \ writes => (GoneIn(u, p) <=> GoneIn(v, p))
  BY DEF Same, GoneIn, Stored
<1>3. /\ Homes(v, p) \cap writes = {} => Homes(u, p) \cap writes = {} \/ (t # "together" /\ Homes(v, p) # {})
      /\ Homes(u, p) \cap writes = {} => Homes(v, p) \cap writes = {}
      /\ p \in writes => (GoneIn(u, p) <=> GoneIn(v, p))
  BY DEF Keeps
<1> QED  BY <1>1, <1>2, <1>3

\* It changes its view from u to w.
KeepsOn(t, v, u, w, W) ==
    \A p \in Products :
        /\ Homes(u, p) \cap W # {} => Homes(w, p) \cap W # {}
        /\ Homes(u, p) \cap W = {} => Homes(w, p) \cap W = {} \/ (t # "together" /\ Homes(v, p) # {})
        /\ p \in W => (GoneIn(w, p) <=> GoneIn(u, p))

LEMMA KeepsGoing ==
    ASSUME NEW t, NEW v, NEW u, NEW w, NEW W, Keeps(t, v, u, W), KeepsOn(t, v, u, w, W)
    PROVE  Keeps(t, v, w, W)
<1> SUFFICES ASSUME NEW p \in Products
             PROVE  /\ Homes(v, p) \cap W = {} => Homes(w, p) \cap W = {} \/ (t # "together" /\ Homes(v, p) # {})
                    /\ Homes(w, p) \cap W = {} => Homes(v, p) \cap W = {}
                    /\ p \in W => (GoneIn(w, p) <=> GoneIn(v, p))
  BY DEF Keeps
<1>1. /\ Homes(v, p) \cap W = {} => Homes(u, p) \cap W = {} \/ (t # "together" /\ Homes(v, p) # {})
      /\ Homes(u, p) \cap W = {} => Homes(v, p) \cap W = {}
      /\ p \in W => (GoneIn(u, p) <=> GoneIn(v, p))
  BY DEF Keeps
<1>2. /\ Homes(u, p) \cap W # {} => Homes(w, p) \cap W # {}
      /\ Homes(u, p) \cap W = {} => Homes(w, p) \cap W = {} \/ (t # "together" /\ Homes(v, p) # {})
      /\ p \in W => (GoneIn(w, p) <=> GoneIn(u, p))
  BY DEF KeepsOn
<1> QED  BY <1>1, <1>2

LEMMA WriteKept ==
    ASSUME IInv, CustodyInv, NEW r \in Requests, NEW docs, NEW w, NEW at, NEW sync,
           Write(r, docs, w, at, sync), Stores, Ghosts,
           docs \cap requests[r].dirty = {} => RequestKept(traffic, View, Wrote(requests[r], docs, w, at, sync))
    PROVE  StepKept
<1> DEFINE q == requests[r]
           q2 == Wrote(q, docs, w, at, sync)
<1>1. pool' = pool /\ people' = people /\ astray' = astray /\ traffic' = traffic
  BY DEF Stores, Ghosts
<1>2. CASE Conflict(r, docs)
  <2>1. Finish(r)
    BY <1>2 DEF Write, Abort
  <2> QED  BY <1>1, <2>1, FinishKept
<1>3. CASE ~Conflict(r, docs)
  <2>1. Continue(r, q2)
    BY <1>3 DEF Write, Wrote
  <2>2. RequestKept(traffic, View, q2)
    BY <1>3 DEF Conflict
  <2> QED  BY <1>1, <2>1, <2>2, ContinueKept
<1> QED  BY <1>2, <1>3

\* A write that deletes nothing.
LEMMA WriteKeeps ==
    ASSUME IInv, CustodyInv, NEW r \in Requests, NEW docs \in SUBSET Docs, NEW w,
           NEW at \in {"sync", "commit"}, NEW sync,
           Write(r, docs, w, at, sync), Stores, Ghosts, InTransaction(requests[r]),
           requests[r].op # "delete", NoneGone(w),
           docs \cap requests[r].dirty = {} =>
               KeepsOn(traffic, View, requests[r].view, w, requests[r].writes \cup docs),
           requests[r].op \in Moving => \A p \in Products : GoneIn(w, p) => GoneIn(requests[r].view, p),
           docs \cap requests[r].dirty = {} /\ Alone /\ "readdress" \notin Operations[traffic] => UnderEmail(w, {})
    PROVE  StepKept
<1> DEFINE q == requests[r]
           q2 == Wrote(q, docs, w, at, sync)
<1>1. /\ q \in Request /\ RequestSound(View, q, astray) /\ RequestKept(traffic, View, q)
      /\ Alone = (traffic # "together")
  BY KeptKnown
<1>2. /\ q2.op = q.op /\ q2.at = at /\ q2.item = q.item /\ q2.todo = q.todo \ sync
      /\ q2.member = q.member /\ q2.email = q.email /\ q2.view = w
      /\ q2.writes = q.writes \cup docs
  <2>1. q2 = Wrote(q, docs, w, at, sync)
    OBVIOUS
  <2> HIDE DEF q2
  <2> QED  BY <1>1, <2>1, WroteFields
<1> HIDE DEF q2
<1>3. q.op \notin {"import", "supply", "delete"}
  BY DEF InTransaction, Transactions, Moving, Joining
<1>4. ASSUME docs \cap q.dirty = {} PROVE RequestKept(traffic, View, q2)
  <2>1. \A d \in Docs \ (q.dirty \cup q.writes) : Same(q.view, View, d)
    BY <1>1 DEF RequestSound, SnapshotValid
  <2>2. Keeps(traffic, View, q.view, q.writes)
    BY <1>1, <1>3 DEF RequestKept
  <2>3. Keeps(traffic, View, q.view, q.writes \cup docs)
    BY <1>4, <2>1, <2>2, TakeKeeps
  <2>4. Keeps(traffic, View, w, q.writes \cup docs)
    BY <1>4, <2>3, KeepsGoing
  <2>5. AloneFits(traffic, View, q2)
    <3> SUFFICES ASSUME traffic # "together"
                 PROVE  TodoLive(View, q2) /\ ("readdress" \notin Operations[traffic] => EmailsFit(View, q2))
      BY DEF AloneFits
    <3>1. TodoLive(View, q2)
      BY <1>1, <1>2, RequestFields DEF RequestKept, AloneFits, TodoLive
    <3>2. "readdress" \notin Operations[traffic] => EmailsFit(View, q2)
      BY <1>1, <1>2, <1>4 DEF EmailsFit
    <3> QED  BY <3>1, <3>2
  <2> QED  BY <1>1, <1>2, <1>3, <2>4, <2>5 DEF RequestKept
<1> QED  BY <1>4, WriteKept DEF q2

-----------------------------------------------------------------------------
\* Moving products.

\* Wherever p was put, by the transaction that has it: w differs from u only there.
LEMMA PutKeeps ==
    ASSUME NEW t, NEW v, NEW u \in ViewType, NEW w, NEW p \in Products, NEW n \in Members, NEW i, NEW j, NEW W,
           PutFits(u, w, p, n, i, j), {p, n} \subseteq W,
           i # Absent \/ j # Absent, u.pool[p] # Absent \/ u.people[n].has[p] # Absent,
           i # Absent => ~i.gone, j # Absent => ~j.gone, ~GoneIn(u, p), NoneGone(u)
    PROVE  /\ KeepsOn(t, v, u, w, W) /\ NoneGone(w)
           /\ \A x \in Products : GoneIn(w, x) => GoneIn(u, x)
<1>1. \A x \in Products \ {p} : Homes(w, x) = Homes(u, x) /\ (GoneIn(w, x) <=> GoneIn(u, x))
  <2>1. \A x \in Products \ {p} : w.pool[x] = u.pool[x]
    BY DEF PutFits
  <2> QED  BY <2>1, PutElsewhere DEF GoneIn, Stored
<1>2. w.pool[p] = i /\ w.people[n].has[p] = j
  BY DEF PutFits
<1>3. ~GoneIn(w, p)
  BY <1>2 DEF GoneIn, Stored
<1>4. Homes(u, p) \cap W # {}
  BY DocsDiffer DEF Homes
<1>5. Homes(w, p) \cap W # {}
  BY <1>2, DocsDiffer DEF Homes
<1>6. KeepsOn(t, v, u, w, W)
  BY <1>1, <1>3, <1>4, <1>5 DEF KeepsOn
<1>7. NoneGone(w)
  BY <1>2 DEF NoneGone, PutFits
<1> QED  BY <1>1, <1>3, <1>6, <1>7

LEMMA PutEmails ==
    ASSUME NEW u, NEW w, NEW p \in Products, NEW n \in Members, NEW i, NEW j, PutFits(u, w, p, n, i, j),
           UnderEmail(u, {}), j # Absent => j.email = u.people[n].email
    PROVE  UnderEmail(w, {})
BY DEF UnderEmail, PutFits

\* What a request that moves products is known to have.
LEMMA MovesKept ==
    ASSUME IInv, CustodyInv, NEW r \in Requests, At(r, Moving, "work"), NEW o \in Ordered(requests[r])
    PROVE  /\ NoneGone(requests[r].view)
           /\ Alone => ~GoneIn(View, o[1]) /\ ~GoneIn(requests[r].view, o[1])
           /\ Alone /\ "readdress" \notin Operations[traffic] => UnderEmail(requests[r].view, {})
<1>1. /\ o[1] \in requests[r].todo /\ InTransaction(requests[r]) /\ requests[r].op \in Moving
  BY Moves
<1>2. RequestKept(traffic, View, requests[r]) /\ Alone = (traffic # "together")
  BY KeptKnown
<1> QED  BY <1>1, <1>2 DEF RequestKept, AloneFits, TodoLive, EmailsFit

LEMMA FromPoolKept ==
    ASSUME IInv, CustodyInv, NEW r \in Requests, At(r, Moving, "work"), NEW o \in Ordered(requests[r]),
           Stored(requests[r].view, o[1]), FromPool(r, o[1], o[2]), Stores, Ghosts
    PROVE  StepKept
<1> DEFINE q == requests[r]
           v == q.view
           p == o[1]
           e == o[2]
<1>1. /\ p \in q.todo /\ p \in Products /\ e \in Emails \cup {None}
      /\ q \in Request /\ InTransaction(q) /\ q.op \in Moving /\ v \in ViewType
      /\ NoneGone(v) /\ (e # None => Alone) /\ (Alone => ~GoneIn(v, p))
      /\ Alone /\ "readdress" \notin Operations[traffic] => UnderEmail(v, {})
      /\ q.op # "delete"
  BY Moves, MovesKept DEF Moving
<1>2. CASE Abort(r)
  BY <1>2, FinishKept DEF Stores, Ghosts, Abort
<1>3. CASE UpdatedThere(r, p)
  <2>1. Write(r, {p}, v, "sync", {p}) /\ {p} \in SUBSET Docs
    BY <1>1, <1>3 DEF UpdatedThere, Docs
  <2>2. KeepsOn(traffic, View, v, v, q.writes \cup {p})
    BY DEF KeepsOn
  <2> QED  BY <1>1, <2>1, <2>2, WriteKeeps
<1>4. ASSUME e # None, NEW n \in Found(v, e),
             Write(r, {p, n},
                 [pool   |-> [v.pool EXCEPT ![p] = Absent],
                  people |-> [v.people EXCEPT ![n].has[p] = [v.pool[p] EXCEPT !.email = e, !.named = TRUE]]],
                 "sync", {p})
      PROVE  StepKept
  <2> DEFINE j == [v.pool[p] EXCEPT !.email = e, !.named = TRUE]
             w == [pool |-> [v.pool EXCEPT ![p] = Absent], people |-> [v.people EXCEPT ![n].has[p] = j]]
  <2>1. n \in Members /\ v.people[n].email = e
    BY DEF Found
  <2>2. v.pool[p] # Absent /\ v.pool[p] \in Item
    BY <1>1, ViewFields, SlotFields DEF Stored
  <2>3. j \in Slot /\ j # Absent /\ Absent \in Slot
    BY <1>1, <2>2, ItemUpdates, ItemIsSlot DEF Slot
  <2>4. j.email = e /\ j.gone = v.pool[p].gone
    BY <2>2 DEF Item
  <2>5. Write(r, {p, n}, w, "sync", {p})
    BY <1>4
  <2> HIDE DEF j
  <2>6. PutFits(v, w, p, n, Absent, j)
    BY <1>1, <2>1, <2>3, PutIs
  <2> HIDE DEF w
  <2>7. ~j.gone /\ ~GoneIn(v, p)
    BY <1>1, <1>4, <2>2, <2>4 DEF GoneIn, Stored
  <2>8. /\ KeepsOn(traffic, View, v, w, q.writes \cup {p, n}) /\ NoneGone(w)
        /\ \A x \in Products : GoneIn(w, x) => GoneIn(v, x)
    BY <1>1, <2>1, <2>2, <2>3, <2>6, <2>7, PutKeeps
  <2>9. Alone /\ "readdress" \notin Operations[traffic] => UnderEmail(w, {})
    BY <1>1, <2>1, <2>4, <2>6, PutEmails
  <2>10. {p, n} \in SUBSET Docs
    BY <1>1, <2>1 DEF Docs
  <2> QED  BY <1>1, <2>5, <2>8, <2>9, <2>10, WriteKeeps
<1> QED  BY <1>2, <1>3, <1>4 DEF FromPool

LEMMA ToPoolKept ==
    ASSUME IInv, CustodyInv, NEW r \in Requests, At(r, Moving, "work"), NEW o \in Ordered(requests[r]),
           NEW m \in Holders(requests[r].view, o[1]), ~Stored(requests[r].view, o[1]),
           ToPool(r, o[1], requests[r].view.people[m].has[o[1]], m), Stores, Ghosts
    PROVE  StepKept
<1> DEFINE q == requests[r]
           v == q.view
           p == o[1]
           item == v.people[m].has[p]
           i == [item EXCEPT !.email = None, !.named = FALSE]
           w == [pool |-> [v.pool EXCEPT ![p] = i], people |-> [v.people EXCEPT ![m].has[p] = Absent]]
<1>1. /\ p \in q.todo /\ p \in Products
      /\ q \in Request /\ InTransaction(q) /\ q.op \in Moving /\ v \in ViewType
      /\ NoneGone(v) /\ q.op # "delete"
      /\ Alone /\ "readdress" \notin Operations[traffic] => UnderEmail(v, {})
  BY Moves, MovesKept DEF Moving
<1>2. m \in Members /\ item # Absent /\ item \in Item /\ ~item.gone
  BY <1>1, ViewFields, SlotFields DEF Holders, NoneGone
<1>3. i \in Slot /\ i # Absent /\ Absent \in Slot /\ ~i.gone
  <2>1. i.gone = item.gone
    BY <1>2 DEF Item
  <2> QED  BY <1>2, <2>1, ItemUpdates, ItemIsSlot DEF Slot
<1>4. Write(r, {p, m}, w, "sync", {p})
  BY DEF ToPool
<1> HIDE DEF i
<1>5. PutFits(v, w, p, m, i, Absent)
  BY <1>1, <1>2, <1>3, PutIs
<1> HIDE DEF w
<1>6. /\ KeepsOn(traffic, View, v, w, q.writes \cup {p, m}) /\ NoneGone(w)
      /\ \A x \in Products : GoneIn(w, x) => GoneIn(v, x)
  <2>1. ~GoneIn(v, p) /\ v.people[m].has[p] # Absent
    BY <1>2 DEF GoneIn
  <2>2. {p, m} \subseteq q.writes \cup {p, m}
    OBVIOUS
  <2>3. /\ Absent # Absent => ~Absent.gone
        /\ i # Absent \/ Absent # Absent
        /\ v.pool[p] # Absent \/ v.people[m].has[p] # Absent
    BY <1>3, <2>1
  <2> HIDE DEF item
  <2> QED  BY <1>1, <1>2, <1>3, <1>5, <2>1, <2>2, <2>3, PutKeeps
<1>7. Alone /\ "readdress" \notin Operations[traffic] => UnderEmail(w, {})
  BY <1>1, <1>2, <1>5, PutEmails
<1>8. {p, m} \in SUBSET Docs
  BY <1>1, <1>2 DEF Docs
<1> QED  BY <1>1, <1>4, <1>6, <1>7, <1>8, WriteKeeps

LEMMA ToMemberKept ==
    ASSUME IInv, CustodyInv, NEW r \in Requests, At(r, Moving, "work"), NEW o \in Ordered(requests[r]),
           ~Stored(requests[r].view, o[1]), o[2] # None,
           NEW m \in Holders(requests[r].view, o[1]),
           ToMember(r, o[1], requests[r].view.people[m].has[o[1]], o[2]), Stores, Ghosts
    PROVE  StepKept
<1> DEFINE q == requests[r]
           v == q.view
           p == o[1]
           e == o[2]
           item == v.people[m].has[p]
           c == Giving(p, item)
           j == [item EXCEPT !.email = e, !.named = TRUE]
<1>1. /\ p \in q.todo /\ p \in Products /\ e \in Emails \cup {None}
      /\ q \in Request /\ InTransaction(q) /\ q.op \in Moving /\ v \in ViewType
      /\ NoneGone(v) /\ Alone /\ q.op # "delete"
      /\ "readdress" \notin Operations[traffic] => UnderEmail(v, {})
  BY Moves, MovesKept DEF Moving
<1>2. m \in Members /\ item # Absent /\ item \in Item /\ ~item.gone
  BY <1>1, ViewFields, SlotFields DEF Holders, NoneGone
<1>3. j \in Slot /\ j # Absent /\ j.email = e /\ ~j.gone
  <2>1. j.gone = item.gone /\ j.email = e
    BY <1>2 DEF Item
  <2> QED  BY <1>1, <1>2, <2>1, ItemUpdates, ItemIsSlot
<1>4. c \subseteq Members
  BY DEF Giving, Found
<1>5. Homes(View, p) # {} /\ traffic # "together"
  <2>1. SeesTodo(View, q)
    BY <1>1, Known DEF FitsTraffic
  <2>2. View.people[m].has[p] = item
    BY <1>1, <1>2, <2>1 DEF SeesTodo
  <2>3. m \in Homes(View, p)
    BY <1>2, <2>2, DocsDiffer DEF Homes
  <2> QED  BY <1>1, <2>3 DEF Alone
<1>6. CASE Abort(r)
  BY <1>6, FinishKept DEF Stores, Ghosts, Abort
<1>7. ASSUME NEW n \in Found(v, e), Write(r, {n} \cup c, Given(v, p, n, c, j), "sync", {p}) PROVE StepKept
  <2> DEFINE w == Given(v, p, n, c, j)
             docs == {n} \cup c
  <2>1. n \in Members /\ v.people[n].email = e
    BY DEF Found
  <2> HIDE DEF c, item, j
  <2>2. /\ w.pool = v.pool
        /\ \A k \in Members : w.people[k].email = v.people[k].email
        /\ \A k \in Members, x \in Products \ {p} : w.people[k].has[x] = v.people[k].has[x]
        /\ w.people[n].has[p] = j /\ \A k \in c \ {n} : w.people[k].has[p] = Absent
        /\ \A k \in Members \ docs : w.people[k] = v.people[k]
    <3>1. GivenFits(v, p, n, c, j, w)
      BY <1>1, <1>3, <1>4, <2>1, GivenFields
    <3> HIDE DEF w
    <3> QED  BY <3>1 DEF GivenFits
  <2>3. Write(r, docs, w, "sync", {p})
    BY <1>7
  <2> HIDE DEF w
  <2>4. docs \in SUBSET Docs
    BY <1>4, <2>1 DEF Docs
  <2>5. \A x \in Products : GoneIn(w, x) <=> GoneIn(v, x)
    BY <2>2 DEF GoneIn, Stored
  <2>6. KeepsOn(traffic, View, v, w, q.writes \cup docs)
    <3>1. \A x \in Products \ {p} : Homes(w, x) = Homes(v, x)
      BY <2>2 DEF Homes
    <3>2. n \in Homes(w, p) \cap docs
      BY <1>3, <2>1, <2>2, DocsDiffer DEF Homes
    <3> QED  BY <1>5, <2>5, <3>1, <3>2 DEF KeepsOn
  <2>7. NoneGone(w)
    <3> SUFFICES ASSUME NEW k \in Members, NEW x \in Products, w.people[k].has[x] # Absent
                 PROVE  ~w.people[k].has[x].gone
      BY DEF NoneGone
    <3>1. CASE x # p \/ k \notin docs
      BY <1>1, <2>2, <3>1 DEF NoneGone
    <3>2. CASE x = p /\ k \in docs
      BY <1>3, <2>2, <3>2
    <3> QED  BY <3>1, <3>2
  <2>8. "readdress" \notin Operations[traffic] => UnderEmail(w, {})
    <3> SUFFICES ASSUME UnderEmail(v, {}), NEW k \in Members, NEW x \in Products, w.people[k].has[x] # Absent
                 PROVE  w.people[k].has[x].email = v.people[k].email
      BY <1>1, <2>2 DEF UnderEmail
    <3>1. CASE x # p \/ k \notin docs
      BY <2>2, <3>1 DEF UnderEmail
    <3>2. CASE x = p /\ k \in docs
      BY <1>3, <2>1, <2>2, <3>2
    <3> QED  BY <3>1, <3>2
  <2> HIDE DEF docs
  <2> QED  BY <1>1, <2>3, <2>4, <2>5, <2>6, <2>7, <2>8, WriteKeeps
<1> QED  BY <1>6, <1>7 DEF ToMember, Given

LEMMA MoveItemKept == ASSUME IInv, CustodyInv, NEW r \in Requests, MoveItem(r) PROVE StepKept
<1> DEFINE q == requests[r]
<1>1. PICK o \in Ordered(q) :
          IF Stored(q.view, o[1]) THEN FromPool(r, o[1], o[2])
          ELSE IF Holders(q.view, o[1]) = {} THEN Abort(r)
          ELSE FromMember(r, o[1], o[2])
  BY DEF MoveItem
<1>2. At(r, Moving, "work") /\ Stores /\ Ghosts
  BY DEF MoveItem
<1>3. CASE Stored(q.view, o[1])
  BY <1>1, <1>2, <1>3, FromPoolKept
<1>4. CASE Abort(r)
  BY <1>2, <1>4, FinishKept DEF Stores, Ghosts, Abort
<1>5. CASE ~Stored(q.view, o[1]) /\ FromMember(r, o[1], o[2]) /\ ~Abort(r)
  <2>1. PICK m \in Holders(q.view, o[1]) :
            IF o[2] = None THEN ToPool(r, o[1], q.view.people[m].has[o[1]], m)
            ELSE ToMember(r, o[1], q.view.people[m].has[o[1]], o[2])
    BY <1>5 DEF FromMember
  <2>2. CASE o[2] = None
    BY <1>2, <1>5, <2>1, <2>2, ToPoolKept
  <2>3. CASE o[2] # None
    BY <1>2, <1>5, <2>1, <2>3, ToMemberKept
  <2> QED  BY <2>2, <2>3
<1> QED  BY <1>1, <1>3, <1>4, <1>5

-----------------------------------------------------------------------------
\* Deleting a product.

LEMMA DeletedGone == ASSUME NEW i \in Item PROVE Deleted(i).gone /\ Deleted(i) # Absent
<1>1. Deleted(i).gone
  BY DEF Deleted, Item
<1> QED  BY <1>1, DeletedType

LEMMA DeleteWriteKept == ASSUME IInv, CustodyInv, NEW r \in Requests, DeleteWrite(r) PROVE StepKept
<1> DEFINE q == requests[r]
           v == q.view
           p == q.item
<1>1. /\ q \in Request /\ RequestSound(View, q, astray) /\ RequestKept(traffic, View, q) /\ v \in ViewType
      /\ View \in ViewType /\ q.op = "delete" /\ q.at = "work" /\ Stores /\ Ghosts
  BY KeptKnown DEF DeleteWrite, At
<1>2. InTransaction(q) /\ p \in Products /\ q.writes = {} /\ NoneGone(v)
  BY <1>1 DEF InTransaction, Transactions, RequestSound, Phases, RequestKept
<1>3. CASE Abort(r)
  BY <1>1, <1>3, FinishKept DEF Stores, Ghosts, Abort
<1>4. ASSUME NEW i \in Item, Write(r, {p}, [v EXCEPT !.pool[p] = Deleted(i)], "mark", {}),
             v.pool[p] # Absent \/ Holders(v, p) # {}
      PROVE  StepKept
  <2> DEFINE w == [v EXCEPT !.pool[p] = Deleted(i)]
             q2 == Wrote(q, {p}, w, "mark", {})
  <2>1. w.pool[p] = Deleted(i) /\ w.people = v.people
    BY <1>1, <1>2, DeletedType DEF ViewType
  <2>2. Write(r, {p}, w, "mark", {})
    BY <1>4
  <2> HIDE DEF w
  <2>3. /\ q2.op = "delete" /\ q2.at = "mark" /\ q2.item = p /\ q2.view = w /\ q2.writes = {p}
        /\ q2.member = q.member /\ q2.email = q.email
    <3>1. q2 = Wrote(q, {p}, w, "mark", {})
      OBVIOUS
    <3> HIDE DEF q2
    <3> QED  BY <1>1, <1>2, <3>1, WroteFields
  <2> HIDE DEF q2
  <2>4. GoneIn(w, p) /\ NoneGone(w) /\ {p} \cap Members = {}
    BY <1>2, <2>1, DeletedGone, DocsDiffer DEF GoneIn, Stored, NoneGone
  <2>5. Holders(w, p) = Holders(v, p)
    BY <2>1 DEF Holders
  <2>6. ASSUME {p} \cap q.dirty = {} PROVE RequestKept(traffic, View, q2)
    <3>1. Same(v, View, p)
      BY <1>1, <1>2, <2>6 DEF RequestSound, SnapshotValid, Docs
    <3>2. Holders(w, p) = {} => Stored(View, p)
      BY <1>2, <1>4, <2>5, <3>1 DEF Same, Stored
    <3>3. DeletesOne(View, q2)
      BY <1>2, <2>3, <2>4, <3>2 DEF DeletesOne
    <3>4. UnderEmail(v, {}) => UnderEmail(w, {})
      BY <2>1 DEF UnderEmail
    <3>5. AloneFits(traffic, View, q2)
      BY <1>1, <2>3, <3>4 DEF RequestKept, AloneFits, TodoLive, EmailsFit, Moving, Creating
    <3> QED  BY <1>1, <2>3, <2>4, <3>3, <3>5 DEF RequestKept
  <2> QED  BY <1>1, <2>2, <2>6, WriteKept DEF q2
<1>5. CASE Stored(v, p) /\ Write(r, {p}, [v EXCEPT !.pool[p] = Deleted(@)], "mark", {})
  <2>1. v.pool[p] \in Item
    BY <1>1, <1>2, <1>5, ViewFields, SlotFields DEF Stored
  <2> QED  BY <1>4, <1>5, <2>1 DEF Stored
<1>6. ASSUME NEW m \in Holders(v, p), Write(r, {p}, [v EXCEPT !.pool[p] = Deleted(v.people[m].has[p])], "mark", {})
      PROVE  StepKept
  <2>1. v.people[m].has[p] \in Item /\ Holders(v, p) # {}
    BY <1>1, <1>2, <1>6, ViewFields, SlotFields DEF Holders
  <2> QED  BY <1>4, <1>6, <2>1
<1> QED  BY <1>3, <1>5, <1>6 DEF DeleteWrite

LEMMA DeleteDetachKept == ASSUME IInv, CustodyInv, NEW r \in Requests, DeleteDetach(r) PROVE StepKept
<1> DEFINE q == requests[r]
           v == q.view
           p == q.item
<1>1. /\ q \in Request /\ RequestSound(View, q, astray) /\ RequestKept(traffic, View, q) /\ v \in ViewType
      /\ q.op = "delete" /\ q.at = "detach" /\ Stores /\ Ghosts
  BY KeptKnown DEF DeleteDetach, At
<1>2. InTransaction(q) /\ p \in Products /\ q.writes = {p}
  BY <1>1 DEF InTransaction, Transactions, RequestSound, Phases, OneWritten, HalfDeleted
<1>3. PICK m \in Holders(v, p) : Write(r, {m}, [v EXCEPT !.people[m].has[p] = Absent], "commit", {})
  BY DEF DeleteDetach
<1> DEFINE person == [v.people[m] EXCEPT !.has[p] = Absent]
           w == [v EXCEPT !.people[m] = person]
           q2 == Wrote(q, {m}, w, "commit", {})
<1>4. m \in Members /\ v.people[m].has[p] # Absent /\ v.people[m] \in Person
  BY <1>1, <1>2, ViewFields DEF Holders
<1>5. /\ person.email = v.people[m].email /\ person.has[p] = Absent
      /\ \A x \in Products \ {p} : person.has[x] = v.people[m].has[x]
  BY <1>2, <1>4 DEF Person, Slot
<1>6. Write(r, {m}, w, "commit", {})
  BY <1>3
<1> HIDE DEF person
<1>7. w.pool = v.pool /\ w.people[m] = person /\ \A n \in Members \ {m} : w.people[n] = v.people[n]
  BY <1>1, <1>4 DEF ViewType
<1> HIDE DEF w
<1>8. /\ q2.op = "delete" /\ q2.at = "commit" /\ q2.item = p /\ q2.view = w /\ q2.writes = {p, m}
      /\ q2.member = q.member /\ q2.email = q.email
  <2>1. q2 = Wrote(q, {m}, w, "commit", {})
    OBVIOUS
  <2> HIDE DEF q2
  <2> QED  BY <1>1, <1>2, <2>1, WroteFields
<1> HIDE DEF q2
<1>9. NoneGone(v) /\ GoneIn(v, p)
  BY <1>1, <1>2 DEF RequestKept, DeletesOne
<1>10. NoneGone(w) /\ GoneIn(w, p)
  BY <1>5, <1>7, <1>9 DEF NoneGone, GoneIn, Stored
<1>11. ASSUME {m} \cap q.dirty = {} PROVE RequestKept(traffic, View, q2)
  <2>1. Same(v, View, m)
    BY <1>1, <1>2, <1>4, <1>11, DocsDiffer DEF RequestSound, SnapshotValid, Docs
  <2>2. View.people[m] = v.people[m]
    BY <1>4, <2>1 DEF Same
  <2>3. m \in Before(View, q2, p)
    BY <1>4, <1>8, <2>2 DEF Before, Homes, Docs
  <2>4. {p, m} \cap Members = {m} /\ {p, m} \cap Products = {p}
    BY <1>2, <1>4, DocsDiffer
  <2>5. DeletesOne(View, q2)
    BY <1>5, <1>7, <1>8, <1>10, <2>2, <2>3, <2>4 DEF DeletesOne
  <2>6. UnderEmail(v, {}) => UnderEmail(w, {})
    <3> SUFFICES ASSUME UnderEmail(v, {}), NEW n \in Members, NEW x \in Products, w.people[n].has[x] # Absent
                 PROVE  w.people[n].has[x].email = w.people[n].email
      BY DEF UnderEmail
    <3>1. w.people[n].has[x] = v.people[n].has[x] /\ w.people[n].email = v.people[n].email
      BY <1>5, <1>7
    <3> QED  BY <3>1 DEF UnderEmail
  <2>7. AloneFits(traffic, View, q2)
    BY <1>1, <1>8, <2>6 DEF RequestKept, AloneFits, TodoLive, EmailsFit, Moving, Creating
  <2> QED  BY <1>1, <1>8, <1>10, <2>5, <2>7 DEF RequestKept
<1> QED  BY <1>1, <1>6, <1>11, WriteKept DEF q2

-----------------------------------------------------------------------------
\* Members.

\* What waits for a member is not deleted.
NoMoreGone(v, w) == NoneGone(w) /\ \A p \in Products : GoneIn(w, p) <=> GoneIn(v, p)

LEMMA AttachedKept ==
    ASSUME NEW v \in ViewType, NoneGone(v), NEW m \in Members, NEW e \in Emails \cup {None}, NEW named \in BOOLEAN
    PROVE  NoMoreGone(v, Attached(v, m, e, named))
<1> DEFINE S == Waiting(v, e)
           w == Attached(v, m, e, named)
           has == [p \in Products |->
                     IF p \in S THEN [v.pool[p] EXCEPT !.named = @ \/ named] ELSE v.people[m].has[p]]
<1>1. /\ S \subseteq Products
      /\ \A p \in S : w.pool[p] = Absent /\ v.pool[p] # Absent
      /\ \A p \in Products \ S : w.pool[p] = v.pool[p]
      /\ \A n \in Members \ {m} : w.people[n] = v.people[n]
      /\ \A p \in Products \ S : w.people[m].has[p] = v.people[m].has[p]
  <2>1. AttachedFits(v, m, e, w)
    BY AttachedFields
  <2> HIDE DEF w
  <2> QED  BY <2>1 DEF AttachedFits
<1>2. \A p \in S : v.pool[p] \in Item /\ ~v.pool[p].gone
  BY ViewFields, SlotFields DEF Waiting, Stored
<1>3. \A p \in S : [v.pool[p] EXCEPT !.named = @ \/ named].gone = v.pool[p].gone
  BY <1>2 DEF Item
<1>4. w.people[m].has = has
  <2> DEFINE person == [status |-> "live", email |-> e, has |-> has]
             left == [p \in Products |-> IF p \in S THEN Absent ELSE v.pool[p]]
  <2>1. w = [v EXCEPT !.pool = left, !.people[m] = person]
    BY DEF Attached
  <2>2. person.has = has
    OBVIOUS
  <2> HIDE DEF person, left, has
  <2>3. w.people[m] = person
    BY <2>1 DEF ViewType
  <2> QED  BY <2>2, <2>3
<1>5. \A p \in S : w.people[m].has[p].gone = v.pool[p].gone
  BY <1>1, <1>3, <1>4
<1> HIDE DEF S, has, w
<1>6. NoneGone(w)
  <2> SUFFICES ASSUME NEW n \in Members, NEW p \in Products, w.people[n].has[p] # Absent
               PROVE  ~w.people[n].has[p].gone
    BY DEF NoneGone
  <2>1. CASE n = m /\ p \in S
    BY <1>2, <1>5, <2>1
  <2>2. CASE n # m \/ p \notin S
    <3>1. w.people[n].has[p] = v.people[n].has[p]
      BY <1>1, <2>2
    <3> QED  BY <3>1 DEF NoneGone
  <2> QED  BY <2>1, <2>2
<1>7. \A p \in Products : GoneIn(w, p) <=> GoneIn(v, p)
  BY <1>1, <1>2 DEF GoneIn, Stored
<1> QED  BY <1>6, <1>7 DEF NoMoreGone, w

LEMMA AttachedEmails ==
    ASSUME NEW v \in ViewType, UnderEmail(v, {}), NEW m \in Members, NEW e \in Emails \cup {None}, NEW named \in BOOLEAN,
           NEW w, w = Attached(v, m, e, named), \A p \in Products : v.people[m].has[p] # Absent => v.people[m].email = e
    PROVE  UnderEmail(w, {})
<1> DEFINE S == Waiting(v, e)
<1>1. /\ \A n \in Members \ {m} : w.people[n] = v.people[n]
      /\ w.people[m].email = e
      /\ \A p \in S : w.people[m].has[p].email = e
      /\ \A p \in Products \ S : w.people[m].has[p] = v.people[m].has[p]
  <2>1. AttachedFits(v, m, e, w)
    BY AttachedFields
  <2> QED  BY <2>1 DEF AttachedFits
<1> HIDE DEF S
<1>2. ASSUME NEW n \in Members, NEW p \in Products, w.people[n].has[p] # Absent
      PROVE  w.people[n].has[p].email = w.people[n].email
  <2>1. CASE n # m
    BY <1>1, <1>2, <2>1 DEF UnderEmail
  <2>2. CASE n = m /\ p \in S
    BY <1>1, <2>2
  <2>3. CASE n = m /\ p \notin S
    <3>1. v.people[m].has[p] # Absent /\ w.people[m].has[p] = v.people[m].has[p]
      BY <1>1, <1>2, <2>3
    <3>2. v.people[m].has[p].email = e
      BY <3>1 DEF UnderEmail
    <3> QED  BY <1>1, <2>3, <3>1, <3>2
  <2> QED  BY <2>1, <2>2, <2>3
<1> QED  BY <1>2 DEF UnderEmail

LEMMA JoinWriteKept == ASSUME IInv, CustodyInv, NEW r \in Requests, JoinWrite(r) PROVE StepKept
<1> DEFINE q == requests[r]
           v == q.view
           S == Waiting(v, q.email)
           next == IF S = {} THEN "commit" ELSE "sync"
<1>1. /\ q \in Request /\ RequestSound(View, q, astray) /\ RequestKept(traffic, View, q) /\ v \in ViewType
      /\ View.people = people /\ Alone = (traffic # "together")
      /\ q.op = "join" /\ q.at = "work" /\ q.email \in Emails \cup {None} /\ Stores /\ Ghosts
  BY KeptKnown, RequestFields DEF JoinWrite, At
<1>2. InTransaction(q) /\ q.writes = {} /\ NoneGone(v) /\ q.op \notin Moving /\ Housed(v)
  BY <1>1 DEF InTransaction, Transactions, Joining, Moving, RequestSound, Phases, RequestKept, MembersUsed
<1>3. CASE Abort(r)
  BY <1>1, <1>3, FinishKept DEF Stores, Ghosts, Abort
<1>4. ASSUME NEW m \in Members, people[m].status = "unused",
             Write(r, {m} \cup S, Attached(v, m, q.email, FALSE), next, S)
      PROVE  StepKept
  <2> DEFINE w == Attached(v, m, q.email, FALSE)
             docs == {m} \cup S
  <2>1. AttachedMoves(v, m, q.email, w)
    BY <1>1, AttachedHomes, Zenon
  <2>2. NoMoreGone(v, w)
    BY <1>1, <1>2, AttachedKept, Zenon
  <2>3. Write(r, docs, w, next, S)
    BY <1>4
  <2>4. UnderEmail(v, {}) /\ (\A p \in Products : v.people[m].has[p] = Absent) => UnderEmail(w, {})
    BY <1>1, AttachedEmails
  <2> HIDE DEF w
  <2>5. /\ \A p \in S : p \in Homes(v, p) /\ Homes(w, p) = (Homes(v, p) \ {p}) \cup {m}
        /\ \A p \in Products \ S : Homes(w, p) = Homes(v, p)
    BY <2>1 DEF AttachedMoves
  <2>6. next \in {"sync", "commit"} /\ S \subseteq Products
    BY DEF Waiting
  <2> HIDE DEF S, next
  <2>7. docs \in SUBSET Docs
    BY <2>6 DEF Docs
  <2>8. KeepsOn(traffic, View, v, w, q.writes \cup docs)
    BY <2>2, <2>5 DEF KeepsOn, NoMoreGone
  <2>9. docs \cap q.dirty = {} => \A p \in Products : v.people[m].has[p] = Absent
    <3> SUFFICES ASSUME docs \cap q.dirty = {} PROVE \A p \in Products : v.people[m].has[p] = Absent
      OBVIOUS
    <3>1. Same(v, View, m)
      BY <1>1, <1>2 DEF RequestSound, SnapshotValid, Docs
    <3>2. v.people[m].status = "unused"
      BY <1>1, <1>4, <3>1 DEF Same
    <3> QED  BY <1>2, <3>2 DEF Housed
  <2>10. docs \cap q.dirty = {} /\ Alone /\ "readdress" \notin Operations[traffic] => UnderEmail(w, {})
    BY <1>1, <2>4, <2>9 DEF RequestKept, AloneFits, EmailsFit
  <2> HIDE DEF docs
  <2>11. NoneGone(w)
    BY <2>2 DEF NoMoreGone
  <2> QED  BY <1>1, <1>2, <2>3, <2>6, <2>7, <2>8, <2>10, <2>11, WriteKeeps
<1> QED  BY <1>3, <1>4 DEF JoinWrite

LEMMA EnrolAttachKept == ASSUME IInv, CustodyInv, NEW r \in Requests, EnrolAttach(r) PROVE StepKept
<1> DEFINE q == requests[r]
           m == q.member
           S == Waiting(View, q.email)
           w == Attached(View, m, q.email, TRUE)
           q2 == [q EXCEPT !.view = w, !.writes = {m} \cup S, !.sync = S, !.at = "sync"]
<1>1. /\ q \in Request /\ RequestSound(View, q, astray) /\ RequestKept(traffic, View, q)
      /\ StoresKept(traffic, View, astray) /\ Alone = (traffic # "together")
      /\ q.op = "enrol" /\ q.at = "attach" /\ UnchangedStores /\ UnchangedGhosts
  BY KeptKnown DEF EnrolAttach, At
<1>2. m \in Members /\ q.email \in Emails \cup {None} /\ View \in ViewType /\ NoneGone(View)
  BY <1>1, RequestFields, GhostTypes DEF RequestSound, Phases, StoresKept
<1>3. Finish(r) \/ Continue(r, q2)
  BY <1>1 DEF EnrolAttach, Request
<1>4. CASE Finish(r)
  BY <1>1, <1>4, FinishKept DEF UnchangedStores, UnchangedGhosts
<1>5. CASE Continue(r, q2)
  <2>1. AttachedMoves(View, m, q.email, w)
    BY <1>2, AttachedHomes, Zenon
  <2>2. NoMoreGone(View, w)
    BY <1>2, AttachedKept, Zenon
  <2>3. UnderEmail(View, {}) /\ View.people[m].email = q.email => UnderEmail(w, {})
    BY <1>2, AttachedEmails
  <2> HIDE DEF w
  <2>4. /\ \A p \in S : p \in Homes(View, p) /\ Homes(w, p) = (Homes(View, p) \ {p}) \cup {m}
        /\ \A p \in Products \ S : Homes(w, p) = Homes(View, p)
    BY <2>1 DEF AttachedMoves
  <2> HIDE DEF S
  <2>5. /\ q2.op = "enrol" /\ q2.at = "sync" /\ q2.view = w /\ q2.writes = {m} \cup S
    BY <1>1 DEF Request
  <2> HIDE DEF q2
  <2>6. Keeps(traffic, View, w, {m} \cup S)
    BY <2>2, <2>4 DEF Keeps, NoMoreGone
  <2>7. traffic # "together" /\ "readdress" \notin Operations[traffic] => UnderEmail(w, {})
    BY <1>1, <2>3, ViewEmails DEF RequestKept, AloneFits, EmailsFit
  <2>8. AloneFits(traffic, View, q2)
    BY <2>5, <2>7 DEF AloneFits, TodoLive, EmailsFit, Moving, Creating
  <2>9. RequestKept(traffic, View, q2)
    BY <1>1, <2>2, <2>5, <2>6, <2>8 DEF RequestKept, NoMoreGone
  <2> QED  BY <1>1, <1>5, <2>9, ContinueKept DEF UnchangedStores, UnchangedGhosts
<1> QED  BY <1>3, <1>4, <1>5

LEMMA ReaddressedGone ==
    ASSUME NEW person \in Person, NEW e \in Emails \cup {None}
    PROVE  \A p \in Products : person.has[p] # Absent => Readdressed(person, e).has[p].gone = person.has[p].gone
<1> DEFINE has == [p \in Products |->
                     IF person.has[p] # Absent /\ person.has[p].named /\ person.has[p].email = person.email
                     THEN [person.has[p] EXCEPT !.email = e] ELSE person.has[p]]
<1>1. \A p \in Products : person.has[p] # Absent => person.has[p] \in Item
  BY SlotFields DEF Person
<1>2. \A p \in Products : person.has[p] # Absent => [person.has[p] EXCEPT !.email = e].gone = person.has[p].gone
  BY <1>1 DEF Item
<1>3. \A p \in Products : person.has[p] # Absent => has[p].gone = person.has[p].gone
  BY <1>2
<1>4. Readdressed(person, e) = [person EXCEPT !.email = e, !.has = has]
  BY DEF Readdressed
<1> HIDE DEF has
<1> QED  BY <1>3, <1>4 DEF Person

LEMMA ReaddressWriteKept == ASSUME IInv, CustodyInv, NEW r \in Requests, ReaddressWrite(r) PROVE StepKept
<1> DEFINE q == requests[r]
           v == q.view
           m == q.member
           person == Readdressed(v.people[m], q.email)
           w == [v EXCEPT !.people[m] = person]
<1>1. /\ q \in Request /\ RequestSound(View, q, astray) /\ RequestKept(traffic, View, q) /\ v \in ViewType
      /\ q.op = "readdress" /\ q.at = "work" /\ q.email \in Emails \cup {None} /\ Stores /\ Ghosts
  BY KeptKnown, RequestFields DEF ReaddressWrite, At
<1>2. /\ InTransaction(q) /\ m \in Members /\ q.op \notin Moving /\ NoneGone(v)
      /\ "readdress" \in Operations[traffic]
  BY <1>1 DEF InTransaction, Transactions, Moving, RequestSound, Phases, RequestKept
<1>3. CASE Abort(r)
  BY <1>1, <1>3, FinishKept DEF Stores, Ghosts, Abort
<1>4. CASE Write(r, {m}, [v EXCEPT !.people[m] = Readdressed(@, q.email)], "commit", {})
  <2>1. Write(r, {m}, w, "commit", {})
    BY <1>4
  <2>2. v.people[m] \in Person
    BY <1>1, <1>2, ViewFields
  <2>3. \A p \in Products : /\ person.has[p] # Absent <=> v.people[m].has[p] # Absent
                            /\ person.has[p] # Absent => person.has[p].gone = v.people[m].has[p].gone
    BY <1>1, <2>2, ReaddressedFields, ReaddressedGone
  <2> HIDE DEF person
  <2>4. w.pool = v.pool /\ w.people[m] = person /\ \A n \in Members \ {m} : w.people[n] = v.people[n]
    BY <1>1, <1>2 DEF ViewType
  <2> HIDE DEF w
  <2>5. NoneGone(w)
    BY <1>2, <2>3, <2>4 DEF NoneGone
  <2>6. \A p \in Products : Homes(w, p) = Homes(v, p) /\ (GoneIn(w, p) <=> GoneIn(v, p))
    BY <1>2, <2>3, <2>4 DEF Homes, GoneIn, Stored
  <2>7. KeepsOn(traffic, View, v, w, q.writes \cup {m})
    BY <2>6 DEF KeepsOn
  <2>8. {m} \in SUBSET Docs
    BY <1>2 DEF Docs
  <2> QED  BY <1>1, <1>2, <2>1, <2>5, <2>7, <2>8, WriteKeeps
<1> QED  BY <1>3, <1>4 DEF ReaddressWrite

-----------------------------------------------------------------------------
\* Steps that change the two collections.

\* The documents nobody else has in hand change; and no product that somebody else is
\* about to make appears.
StoreKeeps(r, docs, w) ==
    /\ \A d \in Docs \ docs : Same(View, w, d)
    /\ \A s \in Requests \ {r} :
          /\ docs \cap requests[s].writes = {}
          /\ \A p \in Products : p \in requests[s].writes /\ Homes(View, p) = {} => Homes(w, p) = {}

LEMMA OtherKept ==
    ASSUME NEW t, t = "together", NEW v, NEW w, NEW q \in Request, NEW q2, NEW docs,
           \A d \in Docs \ docs : Same(v, w, d), docs \cap q.writes = {},
           \A p \in Products : p \in q.writes /\ Homes(v, p) = {} => Homes(w, p) = {},
           q2 = q \/ q2 = [q EXCEPT !.dirty = @ \cup docs], RequestKept(t, v, q)
    PROVE  RequestKept(t, w, q2)
<1>1. /\ q2.op = q.op /\ q2.at = q.at /\ q2.item = q.item /\ q2.todo = q.todo /\ q2.member = q.member
      /\ q2.view = q.view /\ q2.writes = q.writes /\ q2.email = q.email
  BY DEF Request
<1>2. q.writes \subseteq Docs \ docs
  BY RequestFields
<1>3. \A p \in Products : Homes(w, p) \cap q.writes = Homes(v, p) \cap q.writes
  BY <1>2, SameHomes
<1>4. /\ \A p \in Products \cap q.writes : w.pool[p] = v.pool[p]
      /\ \A m \in Members \cap q.writes : w.people[m] = v.people[m]
  BY <1>2 DEF Same
<1>5. \A p \in Products \cap q.writes : (GoneIn(w, p) <=> GoneIn(v, p)) /\ (Stored(w, p) <=> Stored(v, p))
  BY <1>4 DEF GoneIn, Stored
<1>6. AloneFits(t, w, q2)
  BY DEF AloneFits
<1>7. q.op \in {"import", "supply"} => Makes(w, q2)
  <2> SUFFICES ASSUME Makes(v, q) PROVE Makes(w, q2)
    BY DEF RequestKept
  <2>1. CASE q.at = "commit"
    <3>1. \A p \in Products : After(q2, p) = After(q, p)
      BY <1>1 DEF After
    <3>2. ASSUME NEW p \in Products, p \in q.writes
          PROVE  Homes(w, p) = {} /\ After(q2, p) # {} /\ ~GoneIn(q2.view, p)
      <4>1. Homes(v, p) = {} /\ After(q, p) # {} /\ ~GoneIn(q.view, p)
        BY <2>1, <3>2 DEF Makes
      <4> QED  BY <1>1, <3>1, <3>2, <4>1
    <3>3. ASSUME NEW p \in Products, p \notin q.writes, NEW m \in q.writes \cap Members
          PROVE  q.view.people[m].has[p] = w.people[m].has[p]
      BY <1>4, <2>1, <3>3 DEF Makes
    <3> QED  BY <1>1, <2>1, <3>2, <3>3 DEF Makes
  <2>2. CASE q.at # "commit"
    BY <1>1, <2>2 DEF Makes
  <2> QED  BY <2>1, <2>2
<1>8. q.op = "delete" => DeletesOne(w, q2)
  <2> SUFFICES ASSUME DeletesOne(v, q) PROVE DeletesOne(w, q2)
    BY DEF RequestKept
  <2>1. CASE q.writes = {}
    BY <1>1, <2>1 DEF DeletesOne
  <2>2. CASE q.writes # {}
    <3>1. /\ q.at # "sync" /\ q.writes \cap Products = {q.item} /\ GoneIn(q.view, q.item)
          /\ \A m \in q.writes \cap Members :
                /\ q.view.people[m].has[q.item] = Absent
                /\ \A x \in Products \ {q.item} : q.view.people[m].has[x] = v.people[m].has[x]
          /\ q.at = "mark" /\ Holders(q.view, q.item) = {} => Stored(v, q.item)
          /\ q.at = "commit" => Before(v, q, q.item) # {}
      BY <2>2 DEF DeletesOne
    <3>2. q.item \in Products \cap q.writes
      BY <3>1
    <3>3. Before(w, q2, q.item) = Before(v, q, q.item)
      BY <1>1, <1>3, <3>2 DEF Before
    <3> QED  BY <1>1, <1>4, <1>5, <3>1, <3>2, <3>3 DEF DeletesOne
  <2> QED  BY <2>1, <2>2
<1>9. q.op \notin {"import", "supply", "delete"} => Keeps(t, w, q2.view, q2.writes)
  <2> SUFFICES ASSUME Keeps(t, v, q.view, q.writes) PROVE Keeps(t, w, q.view, q.writes)
    BY <1>1 DEF RequestKept
  <2> QED  BY <1>3, <1>5 DEF Keeps
<1> QED  BY <1>1, <1>6, <1>7, <1>8, <1>9 DEF RequestKept

LEMMA StoreKept ==
    ASSUME IInv, CustodyInv, NEW r \in Requests, NEW docs, NEW q2, Touch(r, q2, docs), Busy(r),
           NEW w, View' = w, StoreKeeps(r, docs, w), Related(View, w),
           RequestKept(traffic, w, q2), StoresKept(traffic, w, astray'), traffic' = traffic
    PROVE  StepKept
<1>1. /\ requests'[r] = q2
      /\ \A s \in Requests \ {r} :
            requests'[s] = IF requests[s] = Idle \/ {requests[r].op, requests[s].op} \subseteq InPlace
                           THEN requests[s] ELSE [requests[s] EXCEPT !.dirty = @ \cup docs]
  BY DEF Touch
<1>2. ASSUME NEW s \in Requests \ {r} PROVE RequestKept(traffic, w, requests'[s])
  <2>1. CASE requests[s] = Idle
    BY <1>1, <2>1, IdleKept
  <2>2. CASE requests[s] # Idle
    <3>1. traffic = "together"
      BY <2>2 DEF IInv, Solitude, Busy, Alone
    <3>2. requests[s] \in Request /\ RequestKept(traffic, View, requests[s])
      BY KeptKnown
    <3>3. /\ \A d \in Docs \ docs : Same(View, w, d)
          /\ docs \cap requests[s].writes = {}
          /\ \A p \in Products : p \in requests[s].writes /\ Homes(View, p) = {} => Homes(w, p) = {}
      BY DEF StoreKeeps
    <3>4. requests'[s] = requests[s] \/ requests'[s] = [requests[s] EXCEPT !.dirty = @ \cup docs]
      BY <1>1
    <3> QED  BY <3>1, <3>2, <3>3, <3>4, OtherKept
  <2> QED  BY <2>1, <2>2
<1>3. CustodyInv'
  BY <1>1, <1>2 DEF CustodyInv
<1> QED  BY <1>3 DEF StepKept

\* A product is created.
LEMMA FileKept ==
    ASSUME IInv, CustodyInv, NEW r \in Requests, NEW p \in Fresh,
           requests[r].op \in {"create", "stock"}, requests[r].at = "insert",
           FiledIn(requests[r], p) \cap Writing = {},
           pool' = Filed(requests[r], p).pool, people' = Filed(requests[r], p).people,
           Touch(r, [requests[r] EXCEPT !.view = Filed(requests[r], p), !.sync = {p}, !.at = "sync"],
                 FiledIn(requests[r], p)),
           UnchangedGhosts
    PROVE  StepKept
<1> DEFINE q == requests[r]
           w == Filed(q, p)
           q2 == [q EXCEPT !.view = w, !.sync = {p}, !.at = "sync"]
           docs == FiledIn(q, p)
<1>1. /\ q \in Request /\ RequestKept(traffic, View, q) /\ StoresKept(traffic, View, astray)
      /\ Busy(r) /\ q.writes = {} /\ Alone = (traffic # "together")
  BY KeptKnown, Known DEF RequestSound, Phases
<1>2. /\ p \in Products /\ Homes(View, p) = {}
      /\ \E d \in docs : Homes(w, p) = {d}
      /\ \A x \in Products \ {p} : Homes(w, x) = Homes(View, x)
      /\ \A d \in Docs \ docs : Same(View, w, d)
  BY <1>1, FiledHomes
<1>3. NoneGone(w) /\ ~GoneIn(w, p) /\ \A x \in Products \ {p} : Rests(View, w, x)
  BY <1>1, FiledKept
<1>4. View' = w
  <2>1. w \in ViewType
    BY <1>1, <1>2, FiledFields
  <2> QED  BY <2>1, ViewFields DEF View
<1>5. Alone /\ "readdress" \notin Operations[traffic] => UnderEmail(w, {})
  BY FiledEmails DEF Creating, Supplying
<1>6. q2.op = q.op /\ q2.at = "sync" /\ q2.view = w /\ q2.writes = {}
  BY <1>1 DEF Request
<1>7. Touch(r, q2, docs)
  OBVIOUS
<1> HIDE DEF q2
<1>8. StoreKeeps(r, docs, w)
  <2>1. \A s \in Requests : docs \cap requests[s].writes = {} /\ p \notin requests[s].writes
    BY FreshApart DEF Writing
  <2> QED  BY <1>2, <2>1 DEF StoreKeeps
<1> HIDE DEF w, docs
<1>9. Related(View, w)
  BY <1>2, <1>3 DEF Related, Appears
<1>10. StoresKept(traffic, w, astray)
  BY <1>1, <1>3 DEF StoresKept, Rests
<1>11. RequestKept(traffic, w, q2)
  <2>1. AloneFits(traffic, w, q2)
    BY <1>1, <1>5, <1>6 DEF AloneFits, TodoLive, EmailsFit, Moving
  <2>2. q2.op \in Operations[traffic] \cup {"none", "dismiss"} /\ q2.op # "delete"
    BY <1>1, <1>6 DEF RequestKept
  <2> QED  BY <1>3, <1>6, <2>1, <2>2, NothingKept
<1> QED  BY <1>1, <1>4, <1>7, <1>8, <1>9, <1>10, <1>11, StoreKept DEF UnchangedGhosts

LEMMA CreateWriteKept == ASSUME IInv, CustodyInv, NEW r \in Requests, CreateWrite(r) PROVE StepKept
<1> DEFINE q == requests[r]
<1>1. q.op = "create" /\ q.at = "insert" /\ UnchangedGhosts
  BY DEF CreateWrite, At
<1>2. CASE Finish(r) /\ UnchangedStores
  BY <1>1, <1>2, FinishKept DEF UnchangedStores, UnchangedGhosts
<1>3. ASSUME NEW p \in Fresh, FiledIn(q, p) \cap Writing = {},
             pool' = Filed(q, p).pool, people' = Filed(q, p).people,
             Touch(r, [q EXCEPT !.view = Filed(q, p), !.sync = {p}, !.at = "sync"], FiledIn(q, p))
      PROVE  StepKept
  BY <1>1, <1>3, FileKept
<1> QED  BY <1>2, <1>3 DEF CreateWrite

LEMMA StockWriteKept == ASSUME IInv, CustodyInv, NEW r \in Requests, StockWrite(r) PROVE StepKept
<1> DEFINE q == requests[r]
<1>1. q.op = "stock" /\ q.at = "insert" /\ UnchangedGhosts /\ q \in Request
  BY Known DEF StockWrite, At
<1>2. q.member = None
  BY <1>1, Known DEF RequestSound, Phases, Supplying
<1>3. CASE Finish(r) /\ UnchangedStores
  BY <1>1, <1>3, FinishKept DEF UnchangedStores, UnchangedGhosts
<1>4. ASSUME NEW p \in Fresh, pool' = Filed(q, p).pool, people' = people,
             Touch(r, [q EXCEPT !.view = Filed(q, p), !.sync = {p}, !.at = "sync"], {p})
      PROVE  StepKept
  <2>1. FiledIn(q, p) = {p}
    BY <1>2 DEF FiledIn
  <2>2. FiledIn(q, p) \cap Writing = {}
    BY <2>1 DEF Fresh
  <2>3. people' = Filed(q, p).people
    <3>1. p \in Products
      BY DEF Fresh
    <3>2. Filed(q, p).people = View.people
      BY <1>1, <1>2, <3>1, FiledFields
    <3> QED  BY <1>4, <3>2, GhostTypes
  <2> QED  BY <1>1, <1>4, <2>1, <2>2, <2>3, FileKept
<1> QED  BY <1>3, <1>4 DEF StockWrite

\* What is set in place is neither elsewhere then, nor deleted.
InPlaceKeeps(w) ==
    /\ \A p \in Products : Homes(w, p) = Homes(View, p) /\ (GoneIn(w, p) <=> GoneIn(View, p))
    /\ NoneGone(w)
    /\ UnderEmail(View, {}) => UnderEmail(w, {})

LEMMA InPlaceKept ==
    ASSUME IInv, CustodyInv, NEW r \in Requests, requests[r].op \in InPlace,
           NEW d \in Docs, d \notin Writing, NEW w, View' = w,
           \A e \in Docs \ {d} : Same(View, w, e), InPlaceKeeps(w),
           NEW q2, Touch(r, q2, {d}), UnchangedGhosts,
           \/ q2 = Idle
           \/ q2.op = "edit" /\ requests[r].op = "edit" /\ q2.at = "sync" /\ q2.writes = {} /\ q2.view = w
    PROVE  StepKept
<1>1. /\ RequestKept(traffic, View, requests[r]) /\ StoresKept(traffic, View, astray) /\ Busy(r)
      /\ Alone = (traffic # "together")
  BY KeptKnown, Known DEF InPlace
<1>2. StoreKeeps(r, {d}, w)
  BY DEF StoreKeeps, InPlaceKeeps, Writing
<1>3. Related(View, w)
  BY DEF InPlaceKeeps, Related, Stays
<1>4. StoresKept(traffic, w, astray)
  BY <1>1 DEF StoresKept, InPlaceKeeps
<1>5. RequestKept(traffic, w, q2)
  <2>1. CASE q2 = Idle
    BY <2>1, IdleKept
  <2>2. CASE q2.op = "edit" /\ requests[r].op = "edit" /\ q2.at = "sync" /\ q2.writes = {} /\ q2.view = w
    <3>1. AloneFits(traffic, w, q2)
      BY <1>1, <2>2, ViewEmails DEF AloneFits, TodoLive, EmailsFit, Moving, InPlaceKeeps
    <3>2. q2.op \in Operations[traffic] \cup {"none", "dismiss"} /\ NoneGone(w)
      BY <1>1, <2>2 DEF RequestKept, InPlaceKeeps
    <3> QED  BY <2>2, <3>1, <3>2, NothingKept
  <2> QED  BY <2>1, <2>2
<1> QED  BY <1>1, <1>2, <1>3, <1>4, <1>5, StoreKept DEF UnchangedGhosts


LEMMA SerialGone ==
    ASSUME NEW i \in Slot, i # Absent, NEW n \in Serials \cup {None}
    PROVE  [i EXCEPT !.serial = n].gone = i.gone
<1>1. i \in Item
  BY SlotFields
<1> QED  BY <1>1 DEF Item

LEMMA EditInPoolKept == ASSUME IInv, CustodyInv, NEW r \in Requests, EditInPool(r) PROVE StepKept
<1> DEFINE q == requests[r]
           p == q.item
           i == [View.pool[p] EXCEPT !.serial = q.serial]
           w == [View EXCEPT !.pool[p] = i]
           q2 == [q EXCEPT !.at = "sync", !.sync = {p}, !.view = w]
<1>1. /\ q \in Request /\ RequestSound(View, q, astray) /\ q.op = "edit" /\ q.at = "write"
      /\ View \in ViewType /\ View.pool = pool /\ View.people = people /\ UnchangedGhosts
      /\ StoresKept(traffic, View, astray)
  BY KeptKnown DEF EditInPool, At
<1>2. p \in Products /\ q.writes = {} /\ q.serial \in Serials \cup {None}
  BY <1>1, RequestFields DEF RequestSound, Phases
<1>3. CASE Finish(r) /\ UnchangedStores
  BY <1>1, <1>3, FinishKept DEF UnchangedStores, UnchangedGhosts
<1>4. CASE /\ Stored(View, p) /\ p \notin Writing
           /\ pool' = [pool EXCEPT ![p].serial = q.serial]
           /\ Touch(r, q2, {p}) /\ people' = people
  <2>1. View.pool[p] \in Slot /\ View.pool[p] # Absent /\ View.pool \in [Products -> Slot]
    BY <1>1, <1>2, <1>4, ViewFields DEF Stored
  <2>2. i \in Slot /\ i # Absent /\ i.gone = View.pool[p].gone
    BY <1>2, <2>1, SerialType, SerialGone
  <2>3. pool' = [View.pool EXCEPT ![p] = i]
    BY <1>1, <1>4
  <2> HIDE DEF i
  <2>4. w \in ViewType /\ w.pool = [View.pool EXCEPT ![p] = i] /\ w.people = View.people
    BY <1>1, <1>2, <2>1, <2>2 DEF ViewType
  <2>5. View' = w
    <3>1. w = [pool |-> w.pool, people |-> w.people]
      BY <2>4, ViewFields
    <3> HIDE DEF w
    <3> QED  BY <1>1, <1>4, <2>3, <2>4, <3>1 DEF View
  <2>6. Touch(r, q2, {p})
    BY <1>4
  <2>7. q2.op = "edit" /\ q2.at = "sync" /\ q2.view = w /\ q2.writes = {}
    BY <1>1, <1>2 DEF Request
  <2> HIDE DEF w, q2
  <2>8. \A x \in Products : w.pool[x] = IF x = p THEN i ELSE View.pool[x]
    BY <2>1, <2>4
  <2>9. InPlaceKeeps(w)
    <3>1. \A x \in Products : Homes(w, x) = Homes(View, x) /\ (GoneIn(w, x) <=> GoneIn(View, x))
      BY <2>1, <2>2, <2>4, <2>8 DEF Homes, GoneIn, Stored
    <3>2. NoneGone(w)
      BY <1>1, <2>4 DEF StoresKept, NoneGone
    <3>3. UnderEmail(View, {}) => UnderEmail(w, {})
      BY <2>4 DEF UnderEmail
    <3> QED  BY <3>1, <3>2, <3>3 DEF InPlaceKeeps
  <2>10. p \in Docs /\ \A e \in Docs \ {p} : Same(View, w, e)
    BY <1>2, <2>4, <2>8 DEF Docs, Same
  <2> QED  BY <1>1, <1>4, <2>5, <2>6, <2>7, <2>9, <2>10, InPlaceKept DEF InPlace
<1> QED  BY <1>1, <1>3, <1>4 DEF EditInPool

LEMMA EditInMemberKept == ASSUME IInv, CustodyInv, NEW r \in Requests, EditInMember(r) PROVE StepKept
<1> DEFINE q == requests[r]
           m == q.member
           i(x) == [View.people[m].has[x] EXCEPT !.serial = q.serial]
           person(x) == [View.people[m] EXCEPT !.has[x] = i(x)]
           w(x) == [View EXCEPT !.people[m] = person(x)]
           q2(x) == [q EXCEPT !.at = "sync", !.sync = {x}, !.view = w(x)]
<1>1. /\ q \in Request /\ RequestSound(View, q, astray) /\ q.op = "edit" /\ q.at = "write"
      /\ m # None /\ View \in ViewType /\ View.pool = pool /\ View.people = people /\ UnchangedGhosts
      /\ StoresKept(traffic, View, astray)
  BY KeptKnown DEF EditInMember, At
<1>2. q.item \in Products /\ q.writes = {} /\ q.serial \in Serials \cup {None} /\ m \in Members
  BY <1>1, RequestFields DEF RequestSound, Phases
<1>3. CASE Finish(r) /\ UnchangedStores
  BY <1>1, <1>3, FinishKept DEF UnchangedStores, UnchangedGhosts
<1>4. ASSUME NEW x \in Products, View.people[m].has[x] # Absent, m \notin Writing,
             people' = [people EXCEPT ![m].has[x].serial = q.serial],
             Touch(r, q2(x), {m}), pool' = pool
      PROVE  StepKept
  <2>1. View.people[m] \in Person /\ View.people \in [Members -> Person] /\ View.people[m].has[x] \in Slot
    BY <1>1, <1>2, <1>4, ViewFields
  <2>2. /\ i(x) \in Slot /\ i(x) # Absent /\ i(x).email = View.people[m].has[x].email
        /\ i(x).gone = View.people[m].has[x].gone
    BY <1>2, <1>4, <2>1, SerialType, SerialGone
  <2>3. people' = [View.people EXCEPT ![m] = person(x)]
    BY <1>1, <1>4
  <2>4. Touch(r, q2(x), {m})
    BY <1>4
  <2> HIDE DEF i
  <2>5. /\ person(x) \in Person /\ person(x).email = View.people[m].email
        /\ \A y \in Products : person(x).has[y] = IF y = x THEN i(x) ELSE View.people[m].has[y]
    BY <1>4, <2>1, <2>2 DEF Person
  <2> HIDE DEF person
  <2>6. w(x) \in ViewType /\ w(x).pool = View.pool /\ w(x).people = [View.people EXCEPT ![m] = person(x)]
    BY <1>1, <1>2, <2>1, <2>5 DEF ViewType
  <2>7. View' = w(x)
    <3>1. w(x) = [pool |-> w(x).pool, people |-> w(x).people]
      BY <2>6, ViewFields
    <3> HIDE DEF w
    <3> QED  BY <1>1, <1>4, <2>3, <2>6, <3>1 DEF View
  <2>8. q2(x).op = "edit" /\ q2(x).at = "sync" /\ q2(x).view = w(x) /\ q2(x).writes = {}
    BY <1>1, <1>2 DEF Request
  <2> HIDE DEF w, q2
  <2>9. w(x).people[m] = person(x) /\ \A n \in Members \ {m} : w(x).people[n] = View.people[n]
    BY <1>2, <2>1, <2>6
  <2>10. \A n \in Members, p \in Products :
             /\ w(x).people[n].has[p] # Absent <=> View.people[n].has[p] # Absent
             /\ w(x).people[n].has[p].gone = View.people[n].has[p].gone
             /\ w(x).people[n].has[p].email = View.people[n].has[p].email
             /\ w(x).people[n].email = View.people[n].email
    <3> SUFFICES ASSUME NEW n \in Members, NEW p \in Products
                 PROVE  /\ w(x).people[n].has[p] # Absent <=> View.people[n].has[p] # Absent
                        /\ w(x).people[n].has[p].gone = View.people[n].has[p].gone
                        /\ w(x).people[n].has[p].email = View.people[n].has[p].email
                        /\ w(x).people[n].email = View.people[n].email
      OBVIOUS
    <3>1. CASE n # m
      BY <2>9, <3>1
    <3>2. CASE n = m /\ p # x
      BY <2>5, <2>9, <3>2
    <3>3. CASE n = m /\ p = x
      BY <1>4, <2>2, <2>5, <2>9, <3>3
    <3> QED  BY <3>1, <3>2, <3>3
  <2>11. InPlaceKeeps(w(x))
    <3>1. \A p \in Products : Homes(w(x), p) = Homes(View, p) /\ (GoneIn(w(x), p) <=> GoneIn(View, p))
      BY <2>6, <2>10 DEF Homes, GoneIn, Stored
    <3>2. NoneGone(w(x))
      BY <1>1, <2>10 DEF StoresKept, NoneGone
    <3>3. UnderEmail(View, {}) => UnderEmail(w(x), {})
      BY <2>10 DEF UnderEmail
    <3> QED  BY <3>1, <3>2, <3>3 DEF InPlaceKeeps
  <2>12. m \in Docs /\ \A e \in Docs \ {m} : Same(View, w(x), e)
    BY <1>2, <2>6, <2>9 DEF Docs, Same
  <2> QED  BY <1>1, <1>4, <2>4, <2>7, <2>8, <2>11, <2>12, InPlaceKept DEF InPlace
<1>5. \/ Finish(r) /\ UnchangedStores
      \/ \E x \in Products :
            /\ View.people[m].has[x] # Absent /\ m \notin Writing
            /\ people' = [people EXCEPT ![m].has[x].serial = q.serial]
            /\ Touch(r, q2(x), {m}) /\ pool' = pool
  <2> DEFINE held == {x \in Products : people[m].has[x] # Absent}
  <2>1. m \notin q.dirty => View.people[m].has[q.item] # Absent
    BY <1>1 DEF RequestSound, EditSees
  <2>2. \A x \in IF m \in q.dirty THEN held ELSE {q.item} : x \in Products /\ View.people[m].has[x] # Absent
    BY <1>1, <1>2, <2>1
  <2>3. \/ Finish(r) /\ UnchangedStores
        \/ /\ m \notin Writing /\ UNCHANGED <<pool, copies>>
           /\ \E x \in IF m \in q.dirty THEN held ELSE {q.item} :
                 /\ people' = [people EXCEPT ![m].has[x].serial = q.serial]
                 /\ Touch(r, [q EXCEPT !.at = "sync", !.sync = {x},
                              !.view = [View EXCEPT !.people[m].has[x].serial = q.serial]], {m})
    BY DEF EditInMember
  <2> HIDE DEF held
  <2> QED  BY <2>2, <2>3
<1> QED  BY <1>3, <1>4, <1>5

LEMMA DismissWriteKept == ASSUME IInv, CustodyInv, NEW r \in Requests, DismissWrite(r) PROVE StepKept
<1> DEFINE q == requests[r]
           m == q.member
           person == [View.people[m] EXCEPT !.status = "deleted"]
           w == [View EXCEPT !.people[m] = person]
<1>1. /\ q \in Request /\ RequestSound(View, q, astray) /\ q.op = "dismiss" /\ m \in Members
      /\ View \in ViewType /\ View.pool = pool /\ View.people = people /\ UnchangedGhosts
      /\ StoresKept(traffic, View, astray)
  BY KeptKnown DEF DismissWrite, At, RequestSound, Phases
<1>2. m \notin Writing /\ people' = [people EXCEPT ![m].status = "deleted"] /\ Touch(r, Idle, {m})
      /\ pool' = pool
  BY DEF DismissWrite
<1>3. View.people[m] \in Person /\ View.people \in [Members -> Person]
  BY <1>1, ViewFields
<1>4. /\ person \in Person /\ person.email = View.people[m].email
      /\ person.has = View.people[m].has
  BY <1>3 DEF Person
<1>5. people' = [View.people EXCEPT ![m] = person]
  BY <1>1, <1>2
<1> HIDE DEF person
<1>6. w \in ViewType /\ w.pool = View.pool /\ w.people = [View.people EXCEPT ![m] = person]
  BY <1>1, <1>3, <1>4 DEF ViewType
<1>7. View' = w
  <2>1. w = [pool |-> w.pool, people |-> w.people]
    BY <1>6, ViewFields
  <2> HIDE DEF w
  <2> QED  BY <1>1, <1>2, <1>5, <1>6, <2>1 DEF View
<1> HIDE DEF w
<1>8. \A n \in Members : /\ w.people[n].has = View.people[n].has /\ w.people[n].email = View.people[n].email
                         /\ n # m => w.people[n] = View.people[n]
  BY <1>1, <1>3, <1>4, <1>6
<1>9. InPlaceKeeps(w)
  <2>1. \A p \in Products : Homes(w, p) = Homes(View, p) /\ (GoneIn(w, p) <=> GoneIn(View, p))
    BY <1>6, <1>8 DEF Homes, GoneIn, Stored
  <2>2. NoneGone(w)
    BY <1>1, <1>8 DEF StoresKept, NoneGone
  <2>3. UnderEmail(View, {}) => UnderEmail(w, {})
    BY <1>8 DEF UnderEmail
  <2> QED  BY <2>1, <2>2, <2>3 DEF InPlaceKeeps
<1>10. m \in Docs /\ \A e \in Docs \ {m} : Same(View, w, e)
  BY <1>1, <1>6, <1>8 DEF Docs, Same
<1> QED  BY <1>1, <1>2, <1>7, <1>9, <1>10, InPlaceKept DEF InPlace

-----------------------------------------------------------------------------
\* A transaction commits.

LEMMA CommitFields ==
    ASSUME NEW q \in Request, q.at \in {"commit", "inserted"}, NEW q2, q2 = AfterCommit(q)
    PROVE  \/ q2 = Idle
           \/ /\ q.op \in {"import", "supply"} /\ q2.op = q.op /\ q2.at = "sync"
              /\ q2.writes = {} /\ q2.view = q.view
           \/ /\ q.op = "offboard" /\ q2.op = q.op /\ q2.at = "start"
              /\ q2.writes = {} /\ q2.view = NoView /\ q2.todo = q.todo
           \/ /\ q.op = "enrol" /\ q.at = "inserted" /\ q2.op = q.op /\ q2.at = "attach"
              /\ q2.writes = {} /\ q2.view = NoView /\ q2.member = q.member /\ q2.email = q.email
<1>1. CASE q.op \in {"import", "supply"}
  <2>1. q2 = [q EXCEPT !.at = "sync", !.writes = {}]
    BY <1>1 DEF AfterCommit
  <2> QED  BY <1>1, <2>1 DEF Request
<1>2. CASE q.op = "offboard"
  <2>1. q2 = [q EXCEPT !.at = "start", !.writes = {}, !.copied = {}, !.view = NoView]
    BY <1>2 DEF AfterCommit
  <2> QED  BY <1>2, <2>1 DEF Request
<1>3. CASE q.op = "enrol" /\ q.at = "inserted"
  <2>1. q2 = [q EXCEPT !.at = "attach", !.writes = {}, !.view = NoView]
    BY <1>3 DEF AfterCommit
  <2> QED  BY <1>3, <2>1 DEF Request
<1>4. CASE q.op \notin {"import", "supply", "offboard"} /\ ~(q.op = "enrol" /\ q.at = "inserted")
  BY <1>4 DEF AfterCommit
<1> QED  BY <1>1, <1>2, <1>3, <1>4

\* The view w that a commit of q makes of v.
Committed(v, q, w) ==
    /\ \A d \in Docs \ q.writes : Same(v, w, d)
    /\ \A d \in q.writes : Same(q.view, w, d)

LEMMA CommittedHomes ==
    ASSUME NEW v \in ViewType, NEW w \in ViewType, NEW q \in Request, Committed(v, q, w), NEW p \in Products
    PROVE  /\ Homes(w, p) \cap q.writes = Homes(q.view, p) \cap q.writes
           /\ Homes(w, p) \ q.writes = Homes(v, p) \ q.writes
           /\ p \in q.writes => (GoneIn(w, p) <=> GoneIn(q.view, p))
           /\ p \notin q.writes => (GoneIn(w, p) <=> GoneIn(v, p))
<1>1. q.view \in ViewType /\ q.writes \subseteq Docs
  BY RequestFields
<1>2. Homes(w, p) \subseteq Docs /\ Homes(v, p) \subseteq Docs /\ Homes(q.view, p) \subseteq Docs
  BY <1>1, HomesAre
<1>3. \A d \in q.writes : d \in Homes(w, p) <=> d \in Homes(q.view, p)
  BY <1>1, SameHomes DEF Committed
<1>4. \A d \in Docs \ q.writes : d \in Homes(w, p) <=> d \in Homes(v, p)
  BY SameHomes DEF Committed
<1>5. p \in q.writes => w.pool[p] = q.view.pool[p]
  BY DEF Committed, Same
<1>6. p \notin q.writes => w.pool[p] = v.pool[p]
  BY DEF Committed, Same, Docs
<1> QED  BY <1>1, <1>2, <1>3, <1>4, <1>5, <1>6 DEF GoneIn, Stored

\* A product whose own document is not written, with members that have it as before.
LEMMA CommittedRests ==
    ASSUME NEW v \in ViewType, NEW w \in ViewType, NEW q \in Request, Committed(v, q, w),
           NEW p \in Products, p \notin q.writes,
           \A m \in q.writes \cap Members : q.view.people[m].has[p] = v.people[m].has[p]
    PROVE  Rests(v, w, p)
<1>1. Homes(q.view, p) \cap q.writes = Homes(v, p) \cap q.writes
  BY DEF Homes
<1> QED  BY <1>1, CommittedHomes DEF Rests

LEMMA CommittedRelated ==
    ASSUME NEW t, NEW v \in ViewType, NEW w \in ViewType, NEW q \in Request, Committed(v, q, w),
           RequestKept(t, v, q), q.at \in {"commit", "inserted"}
    PROVE  /\ Related(v, w)
           /\ \A p \in Products \ q.writes : Homes(v, p) = {} => Homes(w, p) = {}
<1> DEFINE W == q.writes
<1>1. CASE q.op \in {"import", "supply"}
  <2>1. q.at = "commit" /\ Makes(v, q)
    BY <1>1 DEF RequestKept
  <2>2. ASSUME NEW p \in Products, p \in W PROVE Homes(v, p) = {} /\ Homes(w, p) # {} /\ ~GoneIn(w, p)
    <3>1. Homes(v, p) = {} /\ Homes(q.view, p) \cap W # {} /\ ~GoneIn(q.view, p)
      BY <2>1, <2>2 DEF Makes, After
    <3> QED  BY <2>2, <3>1, CommittedHomes
  <2>3. ASSUME NEW p \in Products, p \notin W PROVE Rests(v, w, p)
    <3>1. \A m \in W \cap Members : q.view.people[m].has[p] = v.people[m].has[p]
      BY <2>1, <2>3 DEF Makes
    <3> QED  BY <2>3, <3>1, CommittedRests
  <2>4. Appears(v, w)
    BY <2>2, <2>3 DEF Appears
  <2> QED  BY <2>3, <2>4 DEF Related, Rests
<1>2. CASE q.op = "delete" /\ W = {}
  <2>1. \A p \in Products : Rests(v, w, p)
    BY <1>2, CommittedRests
  <2> QED  BY <2>1 DEF Related, Stays, Rests
<1>3. CASE q.op = "delete" /\ W # {}
  <2>1. /\ W \cap Products = {q.item} /\ GoneIn(q.view, q.item)
        /\ \A m \in W \cap Members, x \in Products \ {q.item} : q.view.people[m].has[x] = v.people[m].has[x]
        /\ Before(v, q, q.item) # {}
    BY <1>3 DEF RequestKept, DeletesOne
  <2>2. q.item \in Products /\ q.item \in W /\ Homes(v, q.item) # {}
    BY <2>1 DEF Before
  <2>3. GoneIn(w, q.item)
    BY <2>1, <2>2, CommittedHomes
  <2>4. ASSUME NEW x \in Products \ {q.item} PROVE Rests(v, w, x)
    <3>1. x \notin W /\ \A m \in W \cap Members : q.view.people[m].has[x] = v.people[m].has[x]
      BY <2>1
    <3> QED  BY <3>1, CommittedRests
  <2>5. Deletes(v, w, q.item)
    BY <2>2, <2>3, <2>4 DEF Deletes
  <2> QED  BY <2>2, <2>4, <2>5 DEF Related, Rests
<1>4. CASE q.op \notin {"import", "supply", "delete"}
  <2>1. ASSUME NEW p \in Products
        PROVE  (Homes(w, p) = {} <=> Homes(v, p) = {}) /\ (GoneIn(w, p) <=> GoneIn(v, p))
    <3>1. /\ Homes(v, p) \cap W = {} => Homes(q.view, p) \cap W = {} \/ Homes(v, p) # {}
          /\ Homes(q.view, p) \cap W = {} => Homes(v, p) \cap W = {}
          /\ p \in W => (GoneIn(q.view, p) <=> GoneIn(v, p))
      BY <1>4 DEF RequestKept, Keeps
    <3>2. /\ Homes(w, p) \cap W = Homes(q.view, p) \cap W
          /\ Homes(w, p) \ W = Homes(v, p) \ W
          /\ p \in W => (GoneIn(w, p) <=> GoneIn(q.view, p))
          /\ p \notin W => (GoneIn(w, p) <=> GoneIn(v, p))
      BY CommittedHomes
    <3> QED  BY <3>1, <3>2
  <2>2. Stays(v, w)
    BY <2>1 DEF Stays
  <2> QED  BY <2>1, <2>2 DEF Related
<1> QED  BY <1>1, <1>2, <1>3, <1>4

LEMMA CommitKept == ASSUME IInv, CustodyInv, NEW r \in Requests, Commit(r), IInv' PROVE StepKept
<1> DEFINE q == requests[r]
           q2 == AfterCommit(q)
           w == View'
<1>1. /\ q \in Request /\ RequestKept(traffic, View, q) /\ StoresKept(traffic, View, astray)
      /\ Apart(r, q) /\ q.at \in {"commit", "inserted"} /\ View \in ViewType
      /\ q.writes \subseteq Docs /\ Alone = (traffic # "together")
  BY KeptKnown, RequestFields DEF Commit
<1>2. w \in ViewType
  <2>1. pool' \in [Products -> Slot] /\ people' \in [Members -> Person]
    BY DEF IInv, TypeOK
  <2> QED  BY <2>1 DEF View, ViewType
<1>3. /\ \A p \in Products : w.pool[p] = IF p \in q.writes THEN q.view.pool[p] ELSE View.pool[p]
      /\ \A m \in Members : w.people[m] = IF m \in q.writes THEN q.view.people[m] ELSE View.people[m]
  BY DEF Commit, View
<1>4. astray' = astray \cup {p \in Products : \E m \in Members :
                                w.people[m].has[p] # Absent /\ w.people[m].has[p].email # w.people[m].email}
  <2>1. w.people = people'
    BY DEF View
  <2> QED  BY <2>1 DEF Commit
<1>5. Touch(r, q2, q.writes) /\ traffic' = traffic
  BY DEF Commit
<1> HIDE DEF w
<1>6. Committed(View, q, w)
  BY <1>1, <1>3 DEF Committed, Same
<1>7. Related(View, w) /\ \A p \in Products \ q.writes : Homes(View, p) = {} => Homes(w, p) = {}
  BY <1>1, <1>2, <1>6, CommittedRelated
<1>8. StoreKeeps(r, q.writes, w)
  BY <1>1, <1>6, <1>7 DEF StoreKeeps, Committed, Apart
<1>9. UnderEmail(View, {}) /\ UnderEmail(q.view, {}) => UnderEmail(w, {})
  BY <1>3 DEF UnderEmail
<1>10. StoresKept(traffic, w, astray')
  <2>1. NoneGone(w)
    BY <1>1, <1>3 DEF StoresKept, RequestKept, NoneGone
  <2>2. ASSUME "delete" \notin Operations[traffic], NEW p \in Products PROVE ~GoneIn(w, p)
    <3>1. ~GoneIn(View, p)
      BY <1>1, <2>2 DEF StoresKept
    <3>2. p \in q.writes => ~GoneIn(q.view, p)
      <4>1. q.op # "delete"
        BY <1>1, <2>2 DEF RequestKept
      <4>2. CASE q.op \in {"import", "supply"}
        BY <1>1, <4>2 DEF RequestKept, Makes
      <4>3. CASE q.op \notin {"import", "supply", "delete"}
        BY <1>1, <3>1, <4>3 DEF RequestKept, Keeps
      <4> QED  BY <4>1, <4>2, <4>3
    <3> QED  BY <1>1, <1>2, <1>6, <3>1, <3>2, CommittedHomes
  <2>3. ASSUME traffic # "together", "readdress" \notin Operations[traffic] PROVE astray' = {}
    <3>1. UnderEmail(w, {}) /\ astray = {}
      BY <1>1, <1>9, <2>3, ViewEmails DEF RequestKept, AloneFits, EmailsFit
    <3> QED  BY <1>4, <3>1 DEF UnderEmail
  <2> QED  BY <2>1, <2>2, <2>3 DEF StoresKept
<1>11. RequestKept(traffic, w, q2)
  <2>1. CASE q2 = Idle
    BY <2>1, IdleKept
  <2>2. CASE /\ q.op \in {"import", "supply"} /\ q2.op = q.op /\ q2.at = "sync"
             /\ q2.writes = {} /\ q2.view = q.view
    <3> HIDE DEF q2
    <3>1. AloneFits(traffic, w, q2)
      BY <1>1, <2>2 DEF RequestKept, AloneFits, TodoLive, EmailsFit, Moving
    <3>2. q2.op \in Operations[traffic] \cup {"none", "dismiss"} /\ NoneGone(q2.view)
      BY <1>1, <2>2 DEF RequestKept
    <3> QED  BY <2>2, <3>1, <3>2, NothingKept
  <2>3. CASE /\ q.op = "offboard" /\ q2.op = q.op /\ q2.at = "start"
             /\ q2.writes = {} /\ q2.view = NoView /\ q2.todo = q.todo
    <3> HIDE DEF q2
    <3>1. traffic # "together" => TodoLive(w, q2)
      <4> SUFFICES ASSUME traffic # "together", NEW p \in q.todo PROVE ~GoneIn(w, p)
        BY <2>3 DEF TodoLive, InTransaction
      <4>1. p \in Products
        BY <1>1, RequestFields
      <4>2. ~GoneIn(View, p)
        BY <1>1, <2>3 DEF RequestKept, AloneFits, TodoLive, Moving
      <4>3. p \in q.writes => ~GoneIn(q.view, p)
        BY <1>1, <2>3, <4>1, <4>2 DEF RequestKept, Keeps
      <4> QED  BY <1>1, <1>2, <1>6, <4>1, <4>2, <4>3, CommittedHomes
    <3>2. AloneFits(traffic, w, q2)
      BY <2>3, <3>1, NoViewFits DEF AloneFits, EmailsFit, Creating
    <3>3. q2.op \in Operations[traffic] \cup {"none", "dismiss"}
      BY <1>1, <2>3 DEF RequestKept
    <3> QED  BY <2>3, <3>2, <3>3, NoViewFits, NothingKept
  <2>4. CASE /\ q.op = "enrol" /\ q.at = "inserted" /\ q2.op = q.op /\ q2.at = "attach"
             /\ q2.writes = {} /\ q2.view = NoView /\ q2.member = q.member /\ q2.email = q.email
    <3> HIDE DEF q2
    <3>1. traffic # "together" /\ "readdress" \notin Operations[traffic] => w.people[q.member].email = q.email
      <4>1. q.member \in Members
        BY <1>1, <2>4, Known DEF RequestSound, Phases
      <4> QED  BY <1>1, <1>3, <2>4, <4>1 DEF RequestKept, AloneFits, EmailsFit
    <3>2. AloneFits(traffic, w, q2)
      BY <2>4, <3>1, NoViewFits DEF AloneFits, EmailsFit, TodoLive, Moving
    <3>3. q2.op \in Operations[traffic] \cup {"none", "dismiss"}
      BY <1>1, <2>4 DEF RequestKept
    <3> QED  BY <2>4, <3>2, <3>3, NoViewFits, NothingKept
  <2> QED  BY <1>1, <2>1, <2>2, <2>3, <2>4, CommitFields
<1>12. Busy(r)
  BY <1>1 DEF Busy, Idle
<1> HIDE DEF q2
<1> QED  BY <1>5, <1>7, <1>8, <1>10, <1>11, <1>12, StoreKept DEF w

-----------------------------------------------------------------------------
\* The initial states, and the theorem.

\* At first nothing is deleted.
NothingGone(v) ==
    /\ \A p \in Products : ~v.pool[p].gone
    /\ \A m \in Members, p \in Products : ~v.people[m].has[p].gone

LEMMA EmployedLive == ASSUME NEW w \in Employed PROVE \A m \in Members, p \in Products : ~w[m].has[p].gone
<1>1. ~Absent.gone
  BY DEF Absent
<1> QED  BY <1>1, EmployedType

LEMMA NoViewLive == ~Absent.gone /\ NoView.pool \in [Products -> Slot] /\ NothingGone(NoView)
<1>1. ~Absent.gone
  BY DEF Absent
<1>2. /\ NoView.pool \in [Products -> Slot] /\ \A p \in Products : NoView.pool[p] = Absent
      /\ \A m \in Members, p \in Products : NoView.people[m].has[p] = Absent
  BY NoViewType, NobodyType DEF ViewType
<1> QED  BY <1>1, <1>2 DEF NothingGone

LEMMA StockedLive == ASSUME NEW v \in Stocked PROVE NothingGone(v)
<1> DEFINE at(e, named) == [email |-> e, named |-> named, serial |-> None, gone |-> FALSE]
<1>1. \A e, b : ~at(e, b).gone
  OBVIOUS
<1>2. NoView.pool \in [Products -> Slot] /\ \A p \in Products : ~NoView.pool[p].gone
  BY NoViewLive DEF NothingGone
<1> HIDE DEF at
<1>3. ASSUME NEW p \in Products, NEW e \in Emails \cup {None}, NEW w \in Employed,
             v = [pool |-> [NoView.pool EXCEPT ![p] = at(e, FALSE)], people |-> w]
      PROVE  NothingGone(v)
  <2>1. v.pool = [NoView.pool EXCEPT ![p] = at(e, FALSE)] /\ v.people = w
    BY <1>3
  <2>2. \A x \in Products : v.pool[x] = IF x = p THEN at(e, FALSE) ELSE NoView.pool[x]
    BY <1>2, <2>1
  <2>3. ~at(e, FALSE).gone
    BY <1>1
  <2>4. \A x \in Products : ~v.pool[x].gone
    BY <1>2, <2>2, <2>3
  <2>5. \A m \in Members, x \in Products : ~v.people[m].has[x].gone
    BY <2>1, EmployedLive
  <2> QED  BY <2>4, <2>5 DEF NothingGone
<1>4. ASSUME NEW p \in Products, NEW n \in Members, NEW w \in Employed,
             v = [pool |-> NoView.pool, people |-> [w EXCEPT ![n].has[p] = at(w[n].email, TRUE)]]
      PROVE  NothingGone(v)
  <2> DEFINE i == at(w[n].email, TRUE)
  <2>1. w \in [Members -> Person] /\ \A m \in Members, x \in Products : ~w[m].has[x].gone
    BY EmployedType, EmployedLive
  <2>2. v.pool = NoView.pool /\ v.people = [w EXCEPT ![n].has[p] = i] /\ ~i.gone
    BY <1>1, <1>4
  <2> HIDE DEF i
  <2>3. \A m \in Members \ {n} : v.people[m] = w[m]
    BY <2>1, <2>2
  <2>4. \A x \in Products : v.people[n].has[x] = IF x = p THEN i ELSE w[n].has[x]
    BY <2>1, <2>2 DEF Person
  <2>5. \A m \in Members, x \in Products : ~v.people[m].has[x].gone
    BY <2>1, <2>2, <2>3, <2>4
  <2> QED  BY <1>2, <2>2, <2>5 DEF NothingGone
<1> QED  BY <1>3, <1>4 DEF Stocked, at

LEMMA InitCustody == ASSUME Init PROVE CustodyInv
<1>1. PICK v \in CASE traffic = "assets"   -> {[NoView EXCEPT !.people = w] :
                                                 w \in {x \in Employed : \A m \in Members : x[m] # Nobody}}
                   [] traffic = "staff"    -> {NoView}
                   [] traffic = "together" -> Stocked :
          pool = v.pool /\ people = v.people
  BY DEF Init
<1>2. traffic \in {"assets", "staff", "together"}
  BY ConstantsAssumption DEF Init
<1>3. NothingGone(v)
  <2>1. CASE traffic = "together"
    BY <1>1, <2>1, StockedLive
  <2>2. CASE traffic # "together"
    <3>1. v = NoView \/ \E w \in Employed : v = [NoView EXCEPT !.people = w]
      BY <1>1, <1>2, <2>2
    <3>2. ASSUME NEW w \in Employed, v = [NoView EXCEPT !.people = w] PROVE NothingGone(v)
      <4>1. v.pool = NoView.pool /\ v.people = w
        BY <3>2, NoViewType DEF ViewType
      <4> QED  BY <4>1, NoViewLive, EmployedLive DEF NothingGone
    <3> QED  BY <3>1, <3>2, NoViewLive
  <2> QED  BY <2>1, <2>2
<1>4. NoneGone(View) /\ \A p \in Products : ~GoneIn(View, p)
  BY <1>1, <1>3 DEF NothingGone, NoneGone, GoneIn, View
<1>5. requests = [r \in Requests |-> Idle] /\ astray = {}
  BY DEF Init
<1>6. StoresKept(traffic, View, astray)
  BY <1>4, <1>5 DEF StoresKept
<1>7. \A r \in Requests : RequestKept(traffic, View, requests[r])
  BY <1>5, IdleKept
<1> QED  BY <1>6, <1>7 DEF CustodyInv

LEMMA NextKept == ASSUME CustodyAssumption, IInv, CustodyInv, [Next]_vars PROVE StepKept
<1>1. IInv'
  BY NextIInv DEF CustodyAssumption
<1>2. CASE UNCHANGED vars
  <2>1. View' = View /\ requests' = requests /\ traffic' = traffic /\ astray' = astray
    BY <1>2 DEF vars, View
  <2>2. CustodyInv'
    BY <2>1 DEF CustodyInv
  <2>3. Stays(View, View)
    BY DEF Stays
  <2> QED  BY <2>1, <2>2, <2>3 DEF StepKept, Related
<1>3. ASSUME NEW r \in Requests, Arrive(r) PROVE StepKept
  BY <1>3, ArriveKept
<1>4. ASSUME NEW r \in Requests, Fail(r) PROVE StepKept
  BY <1>4, FailKept
<1>5. ASSUME NEW r \in Requests, Step(r) PROVE StepKept
  <2>1. CASE Begin(r) \/ Sync(r) \/ Commit(r)
    BY <1>1, <2>1, BeginKept, SyncKept, CommitKept
  <2>2. CASE CreateLook(r) \/ CreateWrite(r) \/ ImportLook(r) \/ ImportWrite(r)
    BY <2>2, CreateLookKept, CreateWriteKept, ImportWriteKept
  <2>3. CASE StockLook(r) \/ StockWrite(r) \/ SupplyLook(r) \/ SupplyWrite(r)
    BY <2>3, StockLookKept, StockWriteKept, SupplyWriteKept
  <2>4. CASE EditLook(r) \/ EditInPool(r) \/ EditInMember(r)
    BY <2>4, EditLookKept, EditInPoolKept, EditInMemberKept
  <2>5. CASE MoveItem(r)
    BY <2>5, MoveItemKept
  <2>6. CASE DeleteWrite(r) \/ DeleteMark(r) \/ DeleteDetach(r)
    BY <2>6, DeleteWriteKept, DeleteMarkKept, DeleteDetachKept
  <2>7. CASE JoinWrite(r) \/ EnrolWrite(r) \/ EnrolAttach(r) \/ ReaddressWrite(r)
    BY <2>7, JoinWriteKept, EnrolWriteKept, EnrolAttachKept, ReaddressWriteKept
  <2>8. CASE DismissLook(r) \/ DismissWrite(r)
    BY <2>8, DismissLookKept, DismissWriteKept
  <2> QED  BY <1>5, <2>1, <2>2, <2>3, <2>4, <2>5, <2>6, <2>7, <2>8 DEF Step
<1> QED  BY <1>2, <1>3, <1>4, <1>5 DEF Next

LEMMA StepImplements ==
    ASSUME IInv, CustodyInv, IInv', CustodyInv', Related(View, View')
    PROVE  [Kept!Next]_[p \in Products |-> PlaceOf(p)]
<1>1. View \in ViewType /\ NoneGone(View)
  BY GhostTypes DEF CustodyInv, StoresKept
<1>2. View' \in ViewType
  BY DEF IInv, TypeOK, View, ViewType
<1>3. NoneGone(View)'
  BY DEF CustodyInv, StoresKept
<1> QED  BY <1>1, <1>2, <1>3, RelatedIsKept DEF Place

\* The two collections, as the requests commit to them, do what Custody promises, for any
\* number of products, members and requests: a product appears once, is then in one place,
\* moves in single steps, and stays deleted.
THEOREM CatalogKeepsCustody == CustodyAssumption => (Spec => Implements)
<1> SUFFICES ASSUME CustodyAssumption PROVE Spec => Implements
  OBVIOUS
<1> DEFINE Inv == IInv /\ CustodyInv
<1>1. Init => Inv
  BY InitIInv, InitCustody
<1>2. Inv /\ [Next]_vars => Inv'
  <2>1. Inv /\ [Next]_vars => IInv'
    BY NextIInv DEF CustodyAssumption
  <2>2. Inv /\ [Next]_vars => CustodyInv'
    BY NextKept DEF StepKept
  <2> QED  BY <2>1, <2>2
<1>3. Inv => Kept!Init
  <2>1. Inv => View \in ViewType /\ NoneGone(View)
    BY GhostTypes DEF CustodyInv, StoresKept
  <2> QED  BY <2>1, StartsKept
<1>4. Inv /\ [Next]_vars => [Kept!Next]_[p \in Products |-> PlaceOf(p)]
  <2>1. Inv /\ [Next]_vars => Related(View, View')
    BY NextKept DEF StepKept
  <2> QED  BY <1>2, <2>1, StepImplements
<1> HIDE DEF Inv
<1> QED  BY <1>1, <1>2, <1>3, <1>4, PTL DEF Spec, Implements, Kept!Spec

-----------------------------------------------------------------------------
\* Serial numbers, dismissals and waiting products: the inductive invariant.

SerialIn(v, p, s) == v.pool[p].serial = s \/ \E m \in Members : v.people[m].has[p].serial = s

SerialsDiffer(v) ==
    \A s \in Serials \ Spaced, p, x \in Products : SerialIn(v, p, s) /\ SerialIn(v, x, s) => p = x
GivenBack(v) ==
    \A m \in Members : v.people[m].status = "deleted" => \A p \in Recoverable : v.people[m].has[p] = Absent
EmailsDiffer(v) ==
    \A m \in Members : v.people[m].status # "unused" =>
        /\ v.people[m].email \in Emails
        /\ \A n \in Members : v.people[n].status # "unused" /\ v.people[n].email = v.people[m].email => n = m
NoneWaits(v, spared) ==
    \A m \in Members \ spared : v.people[m].status = "live" => Waiting(v, v.people[m].email) = {}

ViewSettled(v, spared) == SerialsDiffer(v) /\ GivenBack(v) /\ EmailsDiffer(v) /\ NoneWaits(v, spared)

\* The members for whom products may wait: those whose email was changed and the one
\* that is being imported; now, and once the transaction has committed.
SparedNow(q, dead, late) ==
    IF dead THEN Members ELSE late \cup IF q.op = "enrol" THEN {q.member} ELSE {}
SparedThen(q, dead, late) ==
    IF dead THEN Members
    ELSE late \cup IF q.op = "readdress" \/ (q.op = "enrol" /\ q.at = "inserted") THEN {q.member} ELSE {}

\* What a request that is alone has found out is still so.
Reaches(v, e) == \A m \in Found(v, e) : v.people[m].status = "live"
FilesFit(v, q) ==
    /\ q.op \in {"create"} \cup Supplying /\ q.at = "start" /\ q.typed = "padded" => q.serial \in Spaced
    /\ q.op \in Creating /\ q.at = "start" => Reaches(v, q.email)
    /\ q.op \in Creating \cup Supplying /\ q.at = "insert" =>
          /\ q.serial \in Serials \ Spaced => \A p \in Products : ~SerialIn(v, p, q.serial)
          /\ IF q.member = None THEN q.email = None \/ Found(v, q.email) = {}
             ELSE v.people[q.member].status = "live"
    /\ q.op \in Supplying => q.email = None
EditsFit(v, q) ==
    q.op = "edit" /\ q.at = "write" /\ q.serial \in Serials \ Spaced =>
        \A p \in Products \ {q.item} : ~SerialIn(v, p, q.serial)
StaffFit(v, q) ==
    /\ q.op = "dismiss" /\ q.at = "write" => \A p \in Recoverable : v.people[q.member].has[p] = Absent
    /\ q.op \in {"offboard", "dismiss"} => v.people[q.member].status # "unused"
    /\ q.op \in Joining \cup {"readdress"} => q.email \in Emails
    /\ q.op = "enrol" /\ q.at \in {"start", "work"} => q.member = None
    /\ q.op = "enrol" /\ q.at = "sync" => q.writes # {}
    /\ q.op = "enrol" /\ q.at = "attach" => v.people[q.member].status = "live" /\ v.people[q.member].email = q.email
    /\ q.op = "enrol" /\ q.at = "inserted" =>
          q.view.people[q.member].status = "live" /\ q.view.people[q.member].email = q.email

Sees(q) == q.writes # {} \/ InTransaction(q)

RequestSettled(v, q, dead, late) ==
    /\ q.dirty = {}
    /\ q.at \in {"commit", "inserted"} => q.writes # {}
    /\ q.at = "inserted" => q.op = "enrol"
    /\ Sees(q) => /\ ViewSettled(q.view, SparedThen(q, dead, late))
                  /\ \A d \in Docs \ q.writes : Same(q.view, v, d)
    /\ FilesFit(v, q) /\ EditsFit(v, q) /\ StaffFit(v, q)

SparedIn(reqs, dead, late) ==
    IF dead THEN Members ELSE late \cup {reqs[r].member : r \in {s \in Requests : reqs[s].op = "enrol"}}

FitInv ==
    Alone => /\ ViewSettled(View, SparedIn(requests, failed, renamed))
             /\ \A r \in Requests : RequestSettled(View, requests[r], failed, renamed)

-----------------------------------------------------------------------------
\* What settles a view.

LEMMA NoSerialAbsent ==
    /\ Absent.serial = None /\ Absent.email = None /\ None \notin Serials /\ None \notin Emails
    /\ Absent.gone = FALSE
BY ConstantsAssumption DEF Absent

LEMMA SettledMore ==
    ASSUME NEW v, NEW a, NEW b, ViewSettled(v, a), Members \ b \subseteq Members \ a
    PROVE  ViewSettled(v, b)
BY DEF ViewSettled, NoneWaits

\* A step that gives no product a new serial number or somebody to wait for, and nothing
\* to a deleted member.
Shifts(v, w) ==
    /\ \A m \in Members : w.people[m].status = v.people[m].status /\ w.people[m].email = v.people[m].email
    /\ \A p \in Products, s \in Serials : SerialIn(w, p, s) => SerialIn(v, p, s)
    /\ \A m \in Members, p \in Products :
          v.people[m].status = "deleted" /\ v.people[m].has[p] = Absent => w.people[m].has[p] = Absent
    /\ \A e \in Emails : Waiting(w, e) \subseteq Waiting(v, e)

LEMMA ShiftSettles ==
    ASSUME NEW v, NEW w, NEW a, ViewSettled(v, a), Shifts(v, w)
    PROVE  ViewSettled(w, a)
<1>1. SerialsDiffer(w)
  BY DEF ViewSettled, SerialsDiffer, Shifts
<1>2. GivenBack(w)
  BY ConstantsAssumption DEF ViewSettled, GivenBack, Shifts
<1>3. EmailsDiffer(w)
  BY DEF ViewSettled, EmailsDiffer, Shifts
<1>4. NoneWaits(w, a)
  <2> SUFFICES ASSUME NEW m \in Members \ a, w.people[m].status = "live" PROVE Waiting(w, w.people[m].email) = {}
    BY DEF NoneWaits
  <2>1. v.people[m].status = "live" /\ v.people[m].email = w.people[m].email
    BY DEF Shifts
  <2>2. v.people[m].email \in Emails /\ Waiting(v, v.people[m].email) = {}
    BY <2>1 DEF ViewSettled, NoneWaits, EmailsDiffer
  <2> QED  BY <2>1, <2>2 DEF Shifts
<1> QED  BY <1>1, <1>2, <1>3, <1>4 DEF ViewSettled

\* Only the product p goes anywhere, with the serial number it has.
LEMMA ShiftsIf ==
    ASSUME NEW v, NEW w, NEW p \in Products,
           \A x \in Products \ {p} : w.pool[x] = v.pool[x],
           \A m \in Members : w.people[m].status = v.people[m].status /\ w.people[m].email = v.people[m].email,
           \A m \in Members, x \in Products \ {p} : w.people[m].has[x] = v.people[m].has[x],
           \/ w.pool[p] = v.pool[p]
           \/ /\ w.pool[p].serial \in Serials => SerialIn(v, p, w.pool[p].serial)
              /\ w.pool[p].email \notin Emails \/ w.pool[p].gone,
           \A m \in Members :
              \/ w.people[m].has[p] = v.people[m].has[p] \/ w.people[m].has[p] = Absent
              \/ /\ v.people[m].status # "deleted"
                 /\ w.people[m].has[p].serial \in Serials => SerialIn(v, p, w.people[m].has[p].serial)
    PROVE  Shifts(v, w)
<1>1. \A x \in Products, s \in Serials : SerialIn(w, x, s) => SerialIn(v, x, s)
  <2> SUFFICES ASSUME NEW x \in Products, NEW s \in Serials, SerialIn(w, x, s) PROVE SerialIn(v, x, s)
    OBVIOUS
  <2>1. CASE x # p
    BY <2>1 DEF SerialIn
  <2>2. CASE x = p
    <3>1. CASE w.pool[p].serial = s
      BY <2>2, <3>1 DEF SerialIn
    <3>2. ASSUME NEW m \in Members, w.people[m].has[p].serial = s PROVE SerialIn(v, p, s)
      <4>1. w.people[m].has[p] # Absent
        BY <3>2, NoSerialAbsent
      <4> QED  BY <3>2, <4>1 DEF SerialIn
    <3> QED  BY <2>2, <3>1, <3>2 DEF SerialIn
  <2> QED  BY <2>1, <2>2
<1>2. \A m \in Members, x \in Products :
          v.people[m].status = "deleted" /\ v.people[m].has[x] = Absent => w.people[m].has[x] = Absent
  OBVIOUS
<1>3. ASSUME NEW e \in Emails, NEW x \in Waiting(w, e) PROVE x \in Waiting(v, e)
  <2>1. x \in Products /\ w.pool[x] # Absent /\ w.pool[x].email = e /\ ~w.pool[x].gone
    BY <1>3 DEF Waiting, Stored
  <2>2. w.pool[x] = v.pool[x]
    BY <2>1
  <2> QED  BY <2>1, <2>2 DEF Waiting, Stored
<1> QED  BY <1>1, <1>2, <1>3 DEF Shifts

-----------------------------------------------------------------------------
\* A step of the one request in flight.

LEMMA AloneKnown ==
    ASSUME IInv, FitInv, Alone, NEW r \in Requests, Busy(r)
    PROVE  /\ \A s \in Requests \ {r} : requests[s] = Idle
           /\ ViewSettled(View, SparedNow(requests[r], failed, renamed))
           /\ RequestSettled(View, requests[r], failed, renamed)
           /\ requests[r] \in Request /\ requests[r].view \in ViewType /\ View \in ViewType
           /\ RequestSound(View, requests[r], astray) /\ SeesTodo(View, requests[r])
           /\ View.pool = pool /\ View.people = people
<1>1. \A s \in Requests \ {r} : requests[s] = Idle
  BY DEF IInv, Solitude, Busy
<1>2. \A s \in Requests : requests[s].op = "enrol" => s = r
  BY <1>1 DEF Idle
<1>3. SparedIn(requests, failed, renamed) = SparedNow(requests[r], failed, renamed)
  BY <1>2 DEF SparedIn, SparedNow
<1>4. ViewSettled(View, SparedNow(requests[r], failed, renamed)) /\ RequestSettled(View, requests[r], failed, renamed)
  BY <1>3 DEF FitInv
<1> QED  BY <1>1, <1>4, Known, RequestFields, GhostTypes DEF FitsTraffic

LEMMA IdleSettled == ASSUME NEW v, NEW dead, NEW late PROVE RequestSettled(v, Idle, dead, late)
<1>1. Idle.op = "none" /\ Idle.at = "start" /\ Idle.writes = {} /\ Idle.dirty = {}
  BY DEF Idle
<1>2. ~Sees(Idle)
  BY <1>1 DEF Sees, InTransaction
<1> QED
  BY <1>1, <1>2 DEF RequestSettled, FilesFit, EditsFit, StaffFit, Creating, Supplying, Joining

LEMMA StepSettles ==
    ASSUME NEW r \in Requests, NEW q2, NEW w, View' = w, traffic' = traffic,
           requests'[r] = q2, \A s \in Requests \ {r} : requests'[s] = Idle,
           ViewSettled(w, SparedNow(q2, failed', renamed')), RequestSettled(w, q2, failed', renamed')
    PROVE  FitInv'
<1>1. \A s \in Requests : requests'[s].op = "enrol" => s = r
  BY DEF Idle
<1>2. SparedIn(requests', failed', renamed') = SparedNow(q2, failed', renamed')
  BY <1>1 DEF SparedIn, SparedNow
<1>3. \A s \in Requests : RequestSettled(w, requests'[s], failed', renamed')
  BY IdleSettled
<1> QED  BY <1>2, <1>3 DEF FitInv

\* The collections stay.
LEMMA ContinueSettles ==
    ASSUME IInv, FitInv, Alone, NEW r \in Requests, Busy(r), NEW q2, Continue(r, q2),
           pool' = pool, people' = people, traffic' = traffic,
           ViewSettled(View, SparedNow(q2, failed', renamed')), RequestSettled(View, q2, failed', renamed')
    PROVE  FitInv'
<1>1. View' = View
  BY DEF View
<1>2. requests'[r] = q2 /\ \A s \in Requests \ {r} : requests'[s] = Idle
  BY AloneKnown, GhostTypes DEF Continue
<1> QED  BY <1>1, <1>2, StepSettles

LEMMA FinishSettles ==
    ASSUME IInv, FitInv, Alone, NEW r \in Requests, Busy(r), Finish(r), requests[r].op # "enrol" \/ requests[r].member = None,
           pool' = pool, people' = people, traffic' = traffic, failed' = failed, renamed' = renamed
    PROVE  FitInv'
<1>1. ViewSettled(View, SparedNow(requests[r], failed, renamed))
  BY AloneKnown
<1>2. Idle.op # "enrol"
  BY DEF Idle
<1>3. Members \ SparedNow(Idle, failed, renamed) \subseteq Members \ SparedNow(requests[r], failed, renamed)
  BY <1>2, NoneIsNoDoc DEF SparedNow
<1>4. ViewSettled(View, SparedNow(Idle, failed, renamed))
  BY <1>1, <1>3, SettledMore
<1> QED  BY <1>4, IdleSettled, ContinueSettles DEF Finish

-----------------------------------------------------------------------------
\* Requests that look, arrive and begin.

\* The proofs are about products that are created under an email of a member in service or
\* of nobody.
ProductsAssumption == OverlapAssumption /\ "deleted" \notin Addresses

LEMMA LookSettles ==
    ASSUME IInv, FitInv, Alone, NEW r \in Requests, Busy(r), NEW q2, Continue(r, q2), UnchangedStores, UnchangedGhosts,
           q2.op # "enrol", requests[r].op # "enrol", ~Sees(q2),
           q2.dirty = {}, q2.at \notin {"commit", "inserted"},
           FilesFit(View, q2), EditsFit(View, q2), StaffFit(View, q2)
    PROVE  FitInv'
<1>1. SparedNow(q2, failed, renamed) = SparedNow(requests[r], failed, renamed)
  BY DEF SparedNow
<1>2. ViewSettled(View, SparedNow(q2, failed, renamed))
  BY <1>1, AloneKnown
<1>3. RequestSettled(View, q2, failed, renamed)
  BY DEF RequestSettled
<1> QED  BY <1>2, <1>3, ContinueSettles DEF UnchangedStores, UnchangedGhosts

\* The member an email is found for is in service.
LEMMA ReachedLive ==
    ASSUME ProductsAssumption, EmailsDiffer(View), NEW e \in Emails \cup {None}, Named(e),
           View.people = people
    PROVE  Reaches(View, e)
<1> SUFFICES ASSUME NEW m \in Found(View, e) PROVE View.people[m].status = "live"
  BY DEF Reaches
<1>1. m \in Members /\ View.people[m].status # "unused" /\ View.people[m].email = e
  BY DEF Found
<1>2. e \in Emails /\ e # None
  BY <1>1, NoSerialAbsent DEF EmailsDiffer
<1>3. PICK n \in Found(View, e) : people[n].status = "live"
  BY <1>2 DEF Named, ProductsAssumption
<1>4. n \in Members /\ View.people[n].status # "unused" /\ View.people[n].email = e
  BY <1>3 DEF Found
<1>5. n = m
  BY <1>1, <1>4 DEF EmailsDiffer
<1> QED  BY <1>3, <1>5

LEMMA BodySays ==
    ASSUME ProductsAssumption, IInv, NEW op \in OperationKinds, NEW q \in Bodies(op)
    PROVE  /\ q.dirty = {}
           /\ op \in Creating => Named(q.email)
           /\ op \in Supplying => q.email = None
           /\ op \in Joining \cup {"readdress"} => q.email \in Emails
<1>1. PICK p \in BodyItems(op), t \in BodyTodos(op), m \in BodyMembers(op),
           e \in BodyEmails(op), s \in BodySerials(op), k \in BodyTypings(op) :
             q = Body(op, p, t, m, e, s, k)
  BY DEF Bodies
<1>2. q.dirty = {} /\ q.email = e
  BY <1>1 DEF Idle, Body
<1>4. /\ op \in Creating => Named(e)
      /\ op \in Supplying => e = None
      /\ op \in Joining \cup {"readdress"} => e \in Emails
  BY DEF BodyEmails, Creating, Supplying, Joining
<1> QED  BY <1>2, <1>4

LEMMA ArriveSettles ==
    ASSUME ProductsAssumption, IInv, FitInv, Alone, NEW r \in Requests, Arrive(r) PROVE FitInv'
<1>1. PICK op \in Operations[traffic] :
        \E q \in Bodies(op) : Continue(r, q) /\ (q.typed = "padded" => q.serial \in Spaced)
  BY DEF Arrive
<1>2. PICK q \in Bodies(op) : Continue(r, q) /\ (q.typed = "padded" => q.serial \in Spaced)
  BY <1>1
<1>3. traffic \in Traffic /\ op \in OperationKinds
  BY ConstantsAssumption DEF IInv, TypeOK
<1>4. /\ q \in Request /\ q.op = op /\ q.at = "start" /\ q.writes = {}
      /\ op \notin {"offboard", "readdress", "dismiss"} => q.member = None
      /\ op \in {"offboard", "dismiss"} => q.member \in LiveMembers
  BY <1>3, BodyFields
<1>5. /\ q.dirty = {}
      /\ op \in Creating => Named(q.email)
      /\ op \in Supplying => q.email = None
      /\ op \in Joining \cup {"readdress"} => q.email \in Emails
  BY <1>3, BodySays
<1>6. Quiet /\ pool' = pool /\ people' = people /\ traffic' = traffic /\ failed' = failed /\ renamed' = renamed
  BY DEF Arrive, UnchangedStores, UnchangedGhosts
<1>7. \A s \in Requests : requests[s] = Idle
  BY <1>6 DEF Quiet, Busy
<1>8. SparedIn(requests, failed, renamed) = IF failed THEN Members ELSE renamed
  <2>1. \A s \in Requests : requests[s].op # "enrol"
    BY <1>7 DEF Idle
  <2>2. {requests[s].member : s \in {x \in Requests : requests[x].op = "enrol"}} = {}
    BY <2>1
  <2> QED  BY <2>2 DEF SparedIn
<1>9. View.people = people /\ View' = View
  BY <1>6 DEF View
<1>10. ViewSettled(View, SparedNow(q, failed, renamed))
  <2>1. ViewSettled(View, SparedIn(requests, failed, renamed))
    BY DEF FitInv
  <2>2. Members \ SparedNow(q, failed, renamed) \subseteq Members \ SparedIn(requests, failed, renamed)
    BY <1>8 DEF SparedNow
  <2> QED  BY <2>1, <2>2, SettledMore
<1>11. op \in Creating => Reaches(View, q.email)
  <2>1. EmailsDiffer(View)
    BY <1>10 DEF ViewSettled
  <2> QED  BY <1>4, <1>5, <1>9, <2>1, ReachedLive, RequestFields
<1>12. RequestSettled(View, q, failed, renamed)
  <2>1. ~Sees(q)
    BY <1>4 DEF Sees, InTransaction
  <2>2. FilesFit(View, q) /\ EditsFit(View, q)
    BY <1>2, <1>4, <1>5, <1>11 DEF FilesFit, EditsFit
  <2>3. StaffFit(View, q)
    <3>1. op \in {"offboard", "dismiss"} => View.people[q.member].status # "unused"
      BY <1>4, <1>9 DEF LiveMembers
    <3> QED  BY <1>4, <1>5, <3>1 DEF StaffFit
  <2> QED  BY <1>4, <1>5, <2>1, <2>2, <2>3 DEF RequestSettled
<1>13. requests'[r] = q /\ \A s \in Requests \ {r} : requests'[s] = Idle
  BY <1>2, <1>7, GhostTypes DEF Continue
<1> QED  BY <1>6, <1>9, <1>10, <1>12, <1>13, StepSettles

LEMMA BeginSettles ==
    ASSUME IInv, FitInv, Alone, NEW r \in Requests, Begin(r) PROVE FitInv'
<1> DEFINE q == requests[r]
           a == IF q.op = "offboard" /\ q.todo = {} THEN "dismiss" ELSE "work"
           q2 == [q EXCEPT !.view = View, !.dirty = {}, !.at = a]
<1>1. /\ q.op \in Transactions /\ q.at = "start" /\ Continue(r, q2) /\ UnchangedStores /\ UnchangedGhosts
  BY DEF Begin, At
<1>2. Busy(r)
  BY <1>1, Known DEF Transactions, Moving, Joining
<1>3. /\ ViewSettled(View, SparedNow(q, failed, renamed)) /\ RequestSettled(View, q, failed, renamed)
      /\ q \in Request /\ RequestSound(View, q, astray)
  BY <1>2, AloneKnown
<1>4. q.writes = {} /\ (q.op = "enrol" => q.member = None)
  BY <1>1, <1>3 DEF RequestSound, Phases, RequestSettled, StaffFit
<1>5. /\ q2.op = q.op /\ q2.at = a /\ q2.view = View /\ q2.dirty = {} /\ q2.writes = {}
      /\ q2.member = q.member /\ q2.email = q.email
  BY <1>3, <1>4 DEF Request
<1>6. a \in {"work", "dismiss"} /\ (q.op = "enrol" => a = "work")
  OBVIOUS
<1>7. Continue(r, q2)
  BY <1>1
<1> HIDE DEF q2, a
<1>8. ViewSettled(View, SparedNow(q2, failed, renamed))
  BY <1>3, <1>5 DEF SparedNow
<1>9. ViewSettled(View, SparedThen(q2, failed, renamed))
  <2>1. Members \ SparedThen(q2, failed, renamed) \subseteq Members \ SparedNow(q, failed, renamed)
    BY <1>4, <1>5, <1>6, NoneIsNoDoc DEF SparedThen, SparedNow
  <2> QED  BY <1>3, <2>1, SettledMore
<1>10. RequestSettled(View, q2, failed, renamed)
  <2>1. \A d \in Docs : Same(q2.view, View, d)
    BY <1>5 DEF Same
  <2>2. FilesFit(View, q2) /\ EditsFit(View, q2)
    BY <1>1, <1>5, <1>6 DEF FilesFit, EditsFit, Transactions, Moving, Joining, Creating, Supplying
  <2>3. StaffFit(View, q2)
    BY <1>3, <1>4, <1>5, <1>6 DEF RequestSettled, StaffFit
  <2> QED  BY <1>5, <1>6, <1>9, <2>1, <2>2, <2>3 DEF RequestSettled
<1> QED  BY <1>1, <1>2, <1>7, <1>8, <1>10, ContinueSettles DEF UnchangedStores, UnchangedGhosts

LEMMA SyncSettles ==
    ASSUME IInv, FitInv, Alone, NEW r \in Requests, Sync(r) PROVE FitInv'
<1> DEFINE q == requests[r]
<1>1. /\ q.at = "sync" /\ pool' = pool /\ people' = people
      /\ traffic' = traffic /\ failed' = failed /\ renamed' = renamed
  BY DEF Sync, UnchangedGhosts
<1>2. Busy(r)
  BY <1>1 DEF Busy, Idle
<1>3. /\ ViewSettled(View, SparedNow(q, failed, renamed)) /\ RequestSettled(View, q, failed, renamed)
      /\ q \in Request
  BY <1>2, AloneKnown
<1>4. ASSUME NEW q2, Continue(r, q2), q2.at \in {"sync", "work", "commit"},
             q2.at # "sync" => q.writes # {}, q2.at = "work" => q2.op = "bulk",
             q2.op = q.op, q2.view = q.view, q2.writes = q.writes, q2.member = q.member,
             q2.email = q.email, q2.dirty = q.dirty
      PROVE  FitInv'
  <2>1. SparedNow(q2, failed, renamed) = SparedNow(q, failed, renamed)
    BY <1>4 DEF SparedNow
  <2>2. SparedThen(q2, failed, renamed) = SparedThen(q, failed, renamed)
    BY <1>1, <1>4 DEF SparedThen
  <2>3. Sees(q2) => Sees(q)
    BY <1>1, <1>4 DEF Sees, InTransaction
  <2>4. FilesFit(View, q2)
    BY <1>3, <1>4 DEF RequestSettled, FilesFit
  <2>5. EditsFit(View, q2)
    BY <1>4 DEF EditsFit
  <2>6. StaffFit(View, q2)
    BY <1>1, <1>3, <1>4 DEF RequestSettled, StaffFit
  <2>7. RequestSettled(View, q2, failed, renamed)
    BY <1>1, <1>3, <1>4, <2>2, <2>3, <2>4, <2>5, <2>6 DEF RequestSettled
  <2> QED  BY <1>1, <1>2, <1>3, <1>4, <2>1, <2>7, ContinueSettles
<1>5. PICK p \in q.sync :
          IF q.sync # {p} THEN Continue(r, [q EXCEPT !.sync = @ \ {p}, !.copied = @ \cup {p}])
          ELSE IF q.writes = {} THEN Finish(r)
          ELSE Continue(r, [q EXCEPT !.sync = {}, !.copied = @ \cup {p},
                               !.at = IF q.op = "bulk" /\ q.todo # {} THEN "work" ELSE "commit"])
  BY DEF Sync
<1>6. CASE Continue(r, [q EXCEPT !.sync = @ \ {p}, !.copied = @ \cup {p}])
  <2> DEFINE q2 == [q EXCEPT !.sync = @ \ {p}, !.copied = @ \cup {p}]
  <2>1. /\ q2.at = q.at /\ q2.op = q.op /\ q2.view = q.view /\ q2.writes = q.writes /\ q2.member = q.member
        /\ q2.email = q.email /\ q2.dirty = q.dirty
    BY <1>3 DEF Request
  <2>2. Continue(r, q2)
    BY <1>6
  <2> HIDE DEF q2
  <2> QED  BY <1>1, <1>4, <2>1, <2>2
<1>7. CASE q.writes = {} /\ Finish(r)
  <2>1. q.op # "enrol"
    BY <1>1, <1>3, <1>7 DEF RequestSettled, StaffFit
  <2> QED  BY <1>1, <1>2, <1>7, <2>1, FinishSettles
<1>8. CASE /\ q.writes # {}
           /\ Continue(r, [q EXCEPT !.sync = {}, !.copied = @ \cup {p},
                               !.at = IF q.op = "bulk" /\ q.todo # {} THEN "work" ELSE "commit"])
  <2> DEFINE a == IF q.op = "bulk" /\ q.todo # {} THEN "work" ELSE "commit"
             q2 == [q EXCEPT !.sync = {}, !.copied = @ \cup {p}, !.at = a]
  <2>1. /\ q2.at = a /\ q2.op = q.op /\ q2.view = q.view /\ q2.writes = q.writes /\ q2.member = q.member
        /\ q2.email = q.email /\ q2.dirty = q.dirty
    BY <1>3 DEF Request
  <2>2. Continue(r, q2) /\ a \in {"work", "commit"} /\ (a = "work" => q.op = "bulk")
    BY <1>8
  <2> HIDE DEF q2, a
  <2> QED  BY <1>4, <1>8, <2>1, <2>2
<1> QED  BY <1>5, <1>6, <1>7, <1>8

LEMMA FailSettles ==
    ASSUME IInv, FitInv, Alone, NEW r \in Requests, Fail(r) PROVE FitInv'
<1> DEFINE q == requests[r]
           q2 == [Idle EXCEPT !.op = "delete", !.item = q.item]
<1>1. /\ pool' = pool /\ people' = people /\ traffic' = traffic /\ renamed' = renamed /\ failed' = TRUE /\ Busy(r)
      /\ Finish(r) \/ (q.op = "delete" /\ Continue(r, q2))
  BY DEF Fail, UnchangedStores, Abort
<1>2. ASSUME NEW q3 PROVE ViewSettled(View, SparedNow(q3, failed', renamed'))
  <2>1. ViewSettled(View, SparedNow(q, failed, renamed))
    BY <1>1, AloneKnown
  <2>2. Members \ SparedNow(q3, failed', renamed') = {}
    BY <1>1 DEF SparedNow
  <2> QED  BY <2>1, <2>2, SettledMore
<1>3. CASE Finish(r)
  BY <1>1, <1>2, <1>3, IdleSettled, ContinueSettles DEF Finish
<1>4. CASE Continue(r, q2)
  <2>1. q2.op = "delete" /\ q2.at = "start" /\ q2.writes = {} /\ q2.dirty = {}
    BY DEF Idle
  <2> HIDE DEF q2
  <2>2. ~Sees(q2) /\ FilesFit(View, q2) /\ EditsFit(View, q2) /\ StaffFit(View, q2)
    BY <2>1 DEF Sees, InTransaction, FilesFit, EditsFit, StaffFit, Creating, Supplying, Joining
  <2>3. RequestSettled(View, q2, failed', renamed')
    BY <2>1, <2>2 DEF RequestSettled
  <2> QED  BY <1>1, <1>2, <1>4, <2>3, ContinueSettles
<1> QED  BY <1>1, <1>3, <1>4

LEMMA DeleteMarkSettles ==
    ASSUME IInv, FitInv, Alone, NEW r \in Requests, DeleteMark(r) PROVE FitInv'
<1> DEFINE q == requests[r]
           a == IF Holders(q.view, q.item) = {} THEN "commit" ELSE "detach"
           q2 == [q EXCEPT !.copied = {q.item}, !.at = a]
<1>1. /\ q.op = "delete" /\ q.at = "mark" /\ Continue(r, q2) /\ pool' = pool /\ people' = people
      /\ traffic' = traffic /\ failed' = failed /\ renamed' = renamed
  BY DEF DeleteMark, At, UnchangedGhosts
<1>2. Busy(r)
  BY <1>1, Known
<1>3. /\ ViewSettled(View, SparedNow(q, failed, renamed)) /\ RequestSettled(View, q, failed, renamed)
      /\ q \in Request /\ RequestSound(View, q, astray)
  BY <1>2, AloneKnown
<1>4. Sees(q) /\ q.writes # {}
  BY <1>1, <1>3 DEF Sees, InTransaction, Transactions, RequestSound, OneWritten, HalfDeleted
<1>5. /\ q2.at = a /\ q2.op = q.op /\ q2.view = q.view /\ q2.writes = q.writes /\ q2.member = q.member
      /\ q2.email = q.email /\ q2.dirty = q.dirty /\ a \in {"commit", "detach"}
      /\ Continue(r, q2)
  BY <1>1, <1>3 DEF Request
<1> HIDE DEF a, q2
<1>6. SparedNow(q2, failed, renamed) = SparedNow(q, failed, renamed) /\ SparedThen(q2, failed, renamed) = SparedThen(q, failed, renamed)
  BY <1>1, <1>5 DEF SparedNow, SparedThen
<1>7. FilesFit(View, q2) /\ EditsFit(View, q2) /\ StaffFit(View, q2)
  BY <1>1, <1>5 DEF FilesFit, EditsFit, StaffFit, Creating, Supplying, Joining
<1>8. RequestSettled(View, q2, failed, renamed)
  BY <1>3, <1>4, <1>5, <1>6, <1>7 DEF RequestSettled
<1> QED  BY <1>1, <1>2, <1>3, <1>5, <1>6, <1>8, ContinueSettles

-----------------------------------------------------------------------------
\* Looking up serial numbers, and members to be dismissed.

LEMMA TakenIs ==
    ASSUME NEW s \in Serials \cup {None}, View.pool = pool, View.people = people, ~Taken(s), s # None
    PROVE  \A p \in Products : ~SerialIn(View, p, s)
<1> SUFFICES ASSUME NEW p \in Products, SerialIn(View, p, s) PROVE FALSE
  OBVIOUS
<1>1. CASE pool[p].serial = s
  BY <1>1, NoSerialAbsent DEF Taken, Stored
<1>2. ASSUME NEW m \in Members, people[m].has[p].serial = s PROVE FALSE
  BY <1>2, NoSerialAbsent DEF Taken
<1> QED  BY <1>1, <1>2 DEF SerialIn

LEMMA OwnedSettles ==
    ASSUME IInv, FitInv, Alone, NEW r \in Requests, At(r, {"create", "import"}, "start"), Owned(r),
           ~Taken(requests[r].serial) \/ requests[r].serial \in Spaced, UnchangedStores, UnchangedGhosts
    PROVE  FitInv'
<1> DEFINE q == requests[r]
<1>1. q.op \in {"create", "import"} /\ q.at = "start"
  BY DEF At
<1>2. Busy(r)
  BY <1>1, Known
<1>3. /\ RequestSettled(View, q, failed, renamed) /\ q \in Request /\ RequestSound(View, q, astray)
      /\ View.pool = pool /\ View.people = people
  BY <1>2, AloneKnown
<1>4. PICK m \in IF Found(View, q.email) = {} THEN {None} ELSE Found(View, q.email) :
        Continue(r, [q EXCEPT !.at = "insert", !.member = IF q.email = None THEN None ELSE m])
  BY DEF Owned
<1> DEFINE n == IF q.email = None THEN None ELSE m
           q2 == [q EXCEPT !.at = "insert", !.member = n]
<1>5. IF n = None THEN q.email = None \/ Found(View, q.email) = {} ELSE View.people[n].status = "live"
  <2>1. Reaches(View, q.email)
    BY <1>1, <1>3 DEF RequestSettled, FilesFit, Creating
  <2>2. CASE q.email = None
    BY <2>2
  <2>3. CASE q.email # None /\ Found(View, q.email) = {}
    BY <1>4, <2>3
  <2>4. CASE q.email # None /\ Found(View, q.email) # {}
    <3>1. m \in Found(View, q.email) /\ n = m
      BY <1>4, <2>4
    <3>2. n # None
      BY <3>1, NoneIsNoDoc DEF Found
    <3> QED  BY <2>1, <3>1, <3>2 DEF Reaches
  <2> QED  BY <2>2, <2>3, <2>4
<1>6. /\ q2.op = q.op /\ q2.at = "insert" /\ q2.member = n /\ q2.email = q.email /\ q2.serial = q.serial
      /\ q2.writes = q.writes /\ q2.dirty = q.dirty
  BY <1>3 DEF Request
<1>7. Continue(r, q2)
  BY <1>4
<1> HIDE DEF q2, n
<1>8. q2.serial \in Serials \ Spaced => \A p \in Products : ~SerialIn(View, p, q2.serial)
  BY <1>3, <1>6, TakenIs, NoSerialAbsent
<1>9. FilesFit(View, q2) /\ EditsFit(View, q2) /\ StaffFit(View, q2)
  BY <1>1, <1>5, <1>6, <1>8 DEF FilesFit, EditsFit, StaffFit, Creating, Supplying, Joining
<1>10. q2.writes = {} /\ q2.dirty = {} /\ ~Sees(q2)
  BY <1>1, <1>3, <1>6 DEF RequestSound, Phases, RequestSettled, Sees, InTransaction
<1> QED  BY <1>1, <1>2, <1>6, <1>7, <1>9, <1>10, LookSettles

LEMMA LookEnds ==
    ASSUME IInv, FitInv, Alone, NEW r \in Requests, Busy(r), requests[r].op # "enrol", Finish(r),
           pool' = pool, people' = people, UnchangedGhosts
    PROVE  FitInv'
BY FinishSettles DEF UnchangedGhosts

LEMMA CreateLookSettles ==
    ASSUME IInv, FitInv, Alone, NEW r \in Requests, CreateLook(r) \/ ImportLook(r) PROVE FitInv'
<1>1. At(r, {"create", "import"}, "start") /\ UnchangedStores /\ UnchangedGhosts
  BY DEF CreateLook, ImportLook, At
<1>2. Busy(r) /\ requests[r].op # "enrol"
  BY <1>1, Known DEF At
<1>3. RequestSettled(View, requests[r], failed, renamed)
  BY <1>2, AloneKnown
<1>4. requests[r].op = "create" /\ requests[r].typed = "padded" => requests[r].serial \in Spaced
  BY <1>1, <1>3 DEF RequestSettled, FilesFit, At
<1>5. Finish(r) \/ ((~Taken(requests[r].serial) \/ requests[r].serial \in Spaced) /\ Owned(r))
  BY <1>4 DEF CreateLook, ImportLook, Overlooked, At
<1> QED  BY <1>1, <1>2, <1>5, LookEnds, OwnedSettles DEF UnchangedStores

LEMMA StockLookSettles ==
    ASSUME IInv, FitInv, Alone, NEW r \in Requests, StockLook(r) \/ SupplyLook(r) PROVE FitInv'
<1> DEFINE q == requests[r]
           q2 == [q EXCEPT !.at = "insert"]
<1>1. q.op \in {"stock", "supply"} /\ q.at = "start" /\ UnchangedStores /\ UnchangedGhosts
  BY DEF StockLook, SupplyLook, At
<1>2. Busy(r)
  BY <1>1, Known
<1>3. /\ RequestSettled(View, q, failed, renamed) /\ q \in Request /\ RequestSound(View, q, astray)
      /\ View.pool = pool /\ View.people = people
  BY <1>2, AloneKnown
<1>4. Finish(r) \/ ((~Taken(q.serial) \/ q.serial \in Spaced) /\ Continue(r, q2))
  BY <1>1, <1>3 DEF StockLook, SupplyLook, Overlooked, RequestSettled, FilesFit, Supplying
<1>5. CASE Finish(r)
  BY <1>1, <1>2, <1>5, LookEnds DEF UnchangedStores
<1>6. CASE (~Taken(q.serial) \/ q.serial \in Spaced) /\ Continue(r, q2)
  <2>1. /\ q2.op = q.op /\ q2.at = "insert" /\ q2.member = q.member /\ q2.email = q.email /\ q2.serial = q.serial
        /\ q2.writes = q.writes /\ q2.dirty = q.dirty
    BY <1>3 DEF Request
  <2>2. Continue(r, q2)
    BY <1>6
  <2> HIDE DEF q2
  <2>3. q2.serial \in Serials \ Spaced => \A p \in Products : ~SerialIn(View, p, q2.serial)
    BY <1>3, <1>6, <2>1, TakenIs, NoSerialAbsent
  <2>4. q.member = None /\ q.email = None
    BY <1>1, <1>3 DEF RequestSound, Phases, RequestSettled, FilesFit, Supplying
  <2>5. FilesFit(View, q2) /\ EditsFit(View, q2) /\ StaffFit(View, q2)
    BY <1>1, <2>1, <2>3, <2>4 DEF FilesFit, EditsFit, StaffFit, Creating, Supplying, Joining
  <2>6. q2.writes = {} /\ q2.dirty = {} /\ ~Sees(q2)
    BY <1>1, <1>3, <2>1 DEF RequestSound, Phases, RequestSettled, Sees, InTransaction
  <2> QED  BY <1>1, <1>2, <2>1, <2>2, <2>5, <2>6, LookSettles
<1> QED  BY <1>4, <1>5, <1>6

-----------------------------------------------------------------------------
\* A transaction writes.

LEMMA WriteSettles ==
    ASSUME IInv, FitInv, Alone, NEW r \in Requests, InTransaction(requests[r]), requests[r].op # "enrol",
           NEW docs, NEW w, NEW at \in {"sync", "mark", "commit"}, NEW sync, docs # {},
           Write(r, docs, w, at, sync), Stores, Ghosts,
           ViewSettled(w, SparedThen(requests[r], failed, renamed)),
           \A d \in Docs \ docs : Same(w, requests[r].view, d)
    PROVE  FitInv'
<1> DEFINE q == requests[r]
           q2 == Wrote(q, docs, w, at, sync)
<1>1. /\ pool' = pool /\ people' = people /\ traffic' = traffic /\ failed' = failed /\ renamed' = renamed
  BY DEF Stores, Ghosts
<1>2. q.op \in Transactions /\ Busy(r)
  BY Known DEF InTransaction, Transactions, Moving, Joining
<1>3. /\ ViewSettled(View, SparedNow(q, failed, renamed)) /\ RequestSettled(View, q, failed, renamed)
      /\ q \in Request
  BY <1>2, AloneKnown
<1>4. CASE Conflict(r, docs)
  <2>1. Finish(r)
    BY <1>4 DEF Write, Abort
  <2> QED  BY <1>1, <1>2, <2>1, FinishSettles
<1>5. CASE ~Conflict(r, docs)
  <2>1. Continue(r, q2)
    BY <1>5 DEF Write, Wrote
  <2>2. /\ q2.op = q.op /\ q2.at = at /\ q2.member = q.member /\ q2.email = q.email /\ q2.view = w
        /\ q2.dirty = q.dirty /\ q2.writes = q.writes \cup docs
    BY <1>3 DEF Wrote, Request
  <2> HIDE DEF q2
  <2>3. SparedNow(q2, failed, renamed) = SparedNow(q, failed, renamed)
    BY <2>2 DEF SparedNow
  <2>4. SparedThen(q2, failed, renamed) = SparedThen(q, failed, renamed)
    BY <2>2 DEF SparedThen
  <2>5. \A d \in Docs \ q2.writes : Same(w, View, d)
    <3>1. \A d \in Docs \ q.writes : Same(q.view, View, d)
      BY <1>3 DEF RequestSettled, Sees
    <3> QED  BY <2>2, <3>1 DEF Same
  <2>6. FilesFit(View, q2) /\ EditsFit(View, q2)
    BY <1>2, <2>2 DEF FilesFit, EditsFit, Transactions, Moving, Joining, Creating, Supplying
  <2>7. StaffFit(View, q2)
    BY <1>3, <2>2 DEF RequestSettled, StaffFit
  <2>8. RequestSettled(View, q2, failed, renamed)
    BY <1>3, <2>2, <2>4, <2>5, <2>6, <2>7 DEF RequestSettled
  <2> QED  BY <1>1, <1>2, <1>3, <2>1, <2>3, <2>8, ContinueSettles
<1> QED  BY <1>4, <1>5

\* The same, when the view is only shifted.
LEMMA ShiftWritten ==
    ASSUME IInv, FitInv, Alone, NEW r \in Requests, InTransaction(requests[r]), requests[r].op # "enrol",
           NEW docs, NEW w, NEW at \in {"sync", "mark", "commit"}, NEW sync, docs # {},
           Write(r, docs, w, at, sync), Stores, Ghosts, Shifts(requests[r].view, w),
           \A d \in Docs \ docs : Same(w, requests[r].view, d)
    PROVE  FitInv'
<1>1. Busy(r)
  BY Known DEF InTransaction, Transactions, Moving, Joining
<1>2. ViewSettled(requests[r].view, SparedThen(requests[r], failed, renamed))
  BY <1>1, AloneKnown DEF RequestSettled, Sees
<1>3. ViewSettled(w, SparedThen(requests[r], failed, renamed))
  BY <1>2, ShiftSettles
<1> QED  BY <1>3, WriteSettles

LEMMA AbortSettles ==
    ASSUME IInv, FitInv, Alone, NEW r \in Requests, Abort(r), Busy(r), Stores, Ghosts,
           requests[r].op # "enrol" \/ requests[r].member = None
    PROVE  FitInv'
BY FinishSettles DEF Abort, Stores, Ghosts

\* The member a product is moved to is in service.
LEMMA MovesToLive ==
    ASSUME ProductsAssumption, IInv, FitInv, Alone, NEW r \in Requests, At(r, Moving, "work"),
           NEW o \in Ordered(requests[r]), o[2] # None, NEW n \in Found(requests[r].view, o[2])
    PROVE  n \in Members /\ requests[r].view.people[n].status = "live"
<1> DEFINE q == requests[r]
           e == o[2]
<1>1. e \in Emails \cup {None} /\ Busy(r) /\ InTransaction(q) /\ q.op \in Moving
  BY Moves
<1>2. Named(e)
  BY <1>1 DEF Ordered, Relocations, Reassignments
<1>3. EmailsDiffer(View) /\ SeesTodo(View, q) /\ View.people = people
  BY <1>1, AloneKnown DEF ViewSettled
<1>4. Reaches(View, e)
  BY <1>1, <1>2, <1>3, ReachedLive
<1>5. n \in Members /\ q.view.people[n].status = View.people[n].status /\ q.view.people[n].email = View.people[n].email
  BY <1>1, <1>3 DEF Found, SeesTodo
<1>6. n \in Found(View, e)
  BY <1>5 DEF Found
<1> QED  BY <1>4, <1>5, <1>6 DEF Reaches

\* A product that is put somewhere else, with the serial number it has.
LEMMA PutShifts ==
    ASSUME NEW v, NEW w, NEW p \in Products, NEW n \in Members, NEW i, NEW j, PutFits(v, w, p, n, i, j),
           i = Absent \/ (SerialIn(v, p, i.serial) /\ i.email \notin Emails),
           j = Absent \/ (SerialIn(v, p, j.serial) /\ v.people[n].status # "deleted")
    PROVE  Shifts(v, w)
<1>1. \A x \in Products \ {p} : w.pool[x] = v.pool[x]
  BY DEF PutFits
<1>2. \A k \in Members : w.people[k].status = v.people[k].status /\ w.people[k].email = v.people[k].email
  BY DEF PutFits
<1>3. \A k \in Members, x \in Products \ {p} : w.people[k].has[x] = v.people[k].has[x]
  BY DEF PutFits
<1>4. w.pool[p] = i /\ \A k \in Members : w.people[k].has[p] = IF k = n THEN j ELSE v.people[k].has[p]
  BY DEF PutFits
<1>5. /\ w.pool[p].serial \in Serials => SerialIn(v, p, w.pool[p].serial)
      /\ w.pool[p].email \notin Emails \/ w.pool[p].gone
  BY <1>4, NoSerialAbsent
<1>6. \A k \in Members :
         \/ w.people[k].has[p] = v.people[k].has[p] \/ w.people[k].has[p] = Absent
         \/ /\ v.people[k].status # "deleted"
            /\ w.people[k].has[p].serial \in Serials => SerialIn(v, p, w.people[k].has[p].serial)
  BY <1>4
<1> QED  BY <1>1, <1>2, <1>3, <1>5, <1>6, ShiftsIf

LEMMA FromPoolSettles ==
    ASSUME ProductsAssumption, IInv, FitInv, Alone, NEW r \in Requests, At(r, Moving, "work"),
           NEW o \in Ordered(requests[r]),
           Stored(requests[r].view, o[1]), FromPool(r, o[1], o[2]), Stores, Ghosts
    PROVE  FitInv'
<1> DEFINE q == requests[r]
           v == q.view
           p == o[1]
           e == o[2]
<1>1. /\ p \in Products /\ e \in Emails \cup {None}
      /\ q \in Request /\ InTransaction(q) /\ q.op \in Moving /\ v \in ViewType /\ Busy(r) /\ q.op # "enrol"
  BY Moves DEF Moving
<1>2. CASE Abort(r)
  BY <1>1, <1>2, AbortSettles
<1>3. CASE UpdatedThere(r, p)
  <2>1. Write(r, {p}, v, "sync", {p})
    BY <1>3 DEF UpdatedThere
  <2>2. Shifts(v, v) /\ \A d \in Docs : Same(v, v, d)
    BY DEF Shifts, Same
  <2> QED  BY <1>1, <2>1, <2>2, ShiftWritten
<1>4. ASSUME e # None, NEW n \in Found(v, e),
             Write(r, {p, n},
                 [pool   |-> [v.pool EXCEPT ![p] = Absent],
                  people |-> [v.people EXCEPT ![n].has[p] = [v.pool[p] EXCEPT !.email = e, !.named = TRUE]]],
                 "sync", {p})
      PROVE  FitInv'
  <2> DEFINE j == [v.pool[p] EXCEPT !.email = e, !.named = TRUE]
             w == [pool |-> [v.pool EXCEPT ![p] = Absent], people |-> [v.people EXCEPT ![n].has[p] = j]]
  <2>1. n \in Members /\ v.people[n].status = "live"
    BY <1>4, MovesToLive
  <2>2. v.pool[p] # Absent /\ v.pool[p] \in Item
    BY <1>1, ViewFields, SlotFields DEF Stored
  <2>3. j \in Slot /\ Absent \in Slot
    BY <1>1, <2>2, ItemUpdates, ItemIsSlot DEF Slot
  <2>4. j.serial = v.pool[p].serial
    BY <2>2 DEF Item
  <2>5. Write(r, {p, n}, w, "sync", {p})
    BY <1>4
  <2> HIDE DEF j
  <2>6. PutFits(v, w, p, n, Absent, j)
    BY <1>1, <2>1, <2>3, PutIs
  <2> HIDE DEF w
  <2>7. w.pool[p].serial \notin Serials /\ w.pool[p].email \notin Emails
    BY <1>1, <2>6, NoSerialAbsent DEF PutFits
  <2>8. SerialIn(v, p, j.serial)
    BY <2>4 DEF SerialIn
  <2>9. Shifts(v, w)
    BY <1>1, <2>1, <2>6, <2>7, <2>8, PutShifts
  <2>10. \A d \in Docs \ {p, n} : Same(w, v, d)
    BY <1>1, <2>1, <2>6, PutElsewhere
  <2> QED  BY <1>1, <2>5, <2>9, <2>10, ShiftWritten
<1> QED  BY <1>2, <1>3, <1>4 DEF FromPool

LEMMA ToPoolSettles ==
    ASSUME IInv, FitInv, Alone, NEW r \in Requests, At(r, Moving, "work"), NEW o \in Ordered(requests[r]),
           NEW m \in Holders(requests[r].view, o[1]), ~Stored(requests[r].view, o[1]),
           ToPool(r, o[1], requests[r].view.people[m].has[o[1]], m), Stores, Ghosts
    PROVE  FitInv'
<1> DEFINE q == requests[r]
           v == q.view
           p == o[1]
           item == v.people[m].has[p]
           i == [item EXCEPT !.email = None, !.named = FALSE]
           w == [pool |-> [v.pool EXCEPT ![p] = i], people |-> [v.people EXCEPT ![m].has[p] = Absent]]
<1>1. p \in Products /\ InTransaction(q) /\ q.op \in Moving /\ v \in ViewType /\ q.op # "enrol"
  BY Moves DEF Moving
<1>2. m \in Members /\ item # Absent /\ item \in Item
  BY <1>1, ViewFields, SlotFields DEF Holders
<1>3. i \in Slot /\ Absent \in Slot /\ i.serial = item.serial /\ i.email = None
  <2>1. i.serial = item.serial /\ i.email = None
    BY <1>2 DEF Item
  <2> QED  BY <1>2, <2>1, ItemUpdates, ItemIsSlot DEF Slot
<1>4. Write(r, {p, m}, w, "sync", {p})
  BY DEF ToPool
<1> HIDE DEF i
<1>5. PutFits(v, w, p, m, i, Absent)
  BY <1>1, <1>2, <1>3, PutIs
<1> HIDE DEF w
<1>6. w.pool[p] = i /\ SerialIn(v, p, i.serial) /\ i.email \notin Emails
  BY <1>1, <1>2, <1>3, <1>5, NoSerialAbsent DEF SerialIn, PutFits
<1>7. Shifts(v, w)
  <2> HIDE DEF item
  <2> QED  BY <1>1, <1>2, <1>5, <1>6, PutShifts
<1>8. \A d \in Docs \ {p, m} : Same(w, v, d)
  BY <1>1, <1>2, <1>5, PutElsewhere
<1> QED  BY <1>1, <1>4, <1>7, <1>8, ShiftWritten

LEMMA ToMemberSettles ==
    ASSUME ProductsAssumption, IInv, FitInv, Alone, NEW r \in Requests, At(r, Moving, "work"),
           NEW o \in Ordered(requests[r]), o[2] # None,
           NEW m \in Holders(requests[r].view, o[1]),
           ToMember(r, o[1], requests[r].view.people[m].has[o[1]], o[2]), Stores, Ghosts
    PROVE  FitInv'
<1> DEFINE q == requests[r]
           v == q.view
           p == o[1]
           e == o[2]
           item == v.people[m].has[p]
           c == Giving(p, item)
           j == [item EXCEPT !.email = e, !.named = TRUE]
<1>1. /\ p \in Products /\ e \in Emails \cup {None} /\ Busy(r)
      /\ InTransaction(q) /\ q.op \in Moving /\ v \in ViewType /\ q.op # "enrol"
  BY Moves DEF Moving
<1>2. m \in Members /\ item # Absent /\ item \in Item
  BY <1>1, ViewFields, SlotFields DEF Holders
<1>3. j \in Slot /\ SerialIn(v, p, j.serial)
  <2>1. j.serial = item.serial
    BY <1>2 DEF Item
  <2> QED  BY <1>1, <1>2, <2>1, ItemUpdates, ItemIsSlot DEF SerialIn
<1>4. c \subseteq Members
  BY DEF Giving, Found
<1>5. CASE Abort(r)
  BY <1>1, <1>5, AbortSettles
<1>6. ASSUME NEW n \in Found(v, e), Write(r, {n} \cup c, Given(v, p, n, c, j), "sync", {p}) PROVE FitInv'
  <2> DEFINE w == Given(v, p, n, c, j)
             docs == {n} \cup c
  <2>1. n \in Members /\ v.people[n].status = "live"
    BY MovesToLive
  <2> HIDE DEF c, item, j
  <2>2. GivenFits(v, p, n, c, j, w)
    BY <1>1, <1>3, <1>4, <2>1, GivenFields
  <2>3. Write(r, docs, w, "sync", {p})
    BY <1>6
  <2> HIDE DEF w
  <2>4. \A k \in Members : \/ w.people[k].has[p] = v.people[k].has[p] \/ w.people[k].has[p] = Absent
                           \/ v.people[k].status = "live" /\ w.people[k].has[p] = j
    BY <2>1, <2>2 DEF GivenFits
  <2>5. /\ w.pool = v.pool
        /\ \A k \in Members : w.people[k].status = v.people[k].status /\ w.people[k].email = v.people[k].email
        /\ \A k \in Members, x \in Products \ {p} : w.people[k].has[x] = v.people[k].has[x]
        /\ \A k \in Members \ docs : w.people[k] = v.people[k]
    BY <2>2 DEF GivenFits
  <2>6. Shifts(v, w)
    <3>1. \A k \in Members :
             \/ w.people[k].has[p] = v.people[k].has[p] \/ w.people[k].has[p] = Absent
             \/ /\ v.people[k].status # "deleted"
                /\ w.people[k].has[p].serial \in Serials => SerialIn(v, p, w.people[k].has[p].serial)
      BY <1>3, <2>4
    <3>2. \A x \in Products \ {p} : w.pool[x] = v.pool[x]
      BY <2>5
    <3>3. w.pool[p] = v.pool[p]
      BY <2>5
    <3> HIDE DEF docs
    <3> QED  BY <1>1, <2>5, <3>1, <3>2, <3>3, ShiftsIf
  <2>7. \A d \in Docs \ docs : Same(w, v, d)
    BY <2>5 DEF Same
  <2>8. docs # {}
    OBVIOUS
  <2> HIDE DEF docs
  <2> QED  BY <1>1, <2>3, <2>6, <2>7, <2>8, ShiftWritten
<1> QED  BY <1>5, <1>6 DEF ToMember, Given

LEMMA MoveItemSettles ==
    ASSUME ProductsAssumption, IInv, FitInv, Alone, NEW r \in Requests, MoveItem(r) PROVE FitInv'
<1> DEFINE q == requests[r]
<1>1. PICK o \in Ordered(q) :
          IF Stored(q.view, o[1]) THEN FromPool(r, o[1], o[2])
          ELSE IF Holders(q.view, o[1]) = {} THEN Abort(r)
          ELSE FromMember(r, o[1], o[2])
  BY DEF MoveItem
<1>2. At(r, Moving, "work") /\ Stores /\ Ghosts
  BY DEF MoveItem
<1>3. Busy(r) /\ q.op # "enrol"
  BY <1>2, Moves DEF Moving
<1>4. CASE Stored(q.view, o[1])
  BY <1>1, <1>2, <1>4, FromPoolSettles
<1>5. CASE Abort(r)
  BY <1>2, <1>3, <1>5, AbortSettles
<1>6. CASE ~Stored(q.view, o[1]) /\ FromMember(r, o[1], o[2]) /\ ~Abort(r)
  <2>1. PICK m \in Holders(q.view, o[1]) :
            IF o[2] = None THEN ToPool(r, o[1], q.view.people[m].has[o[1]], m)
            ELSE ToMember(r, o[1], q.view.people[m].has[o[1]], o[2])
    BY <1>6 DEF FromMember
  <2>2. CASE o[2] = None
    BY <1>2, <1>6, <2>1, <2>2, ToPoolSettles
  <2>3. CASE o[2] # None
    BY <1>2, <1>6, <2>1, <2>3, ToMemberSettles
  <2> QED  BY <2>2, <2>3
<1> QED  BY <1>1, <1>4, <1>5, <1>6

LEMMA EditLookSettles ==
    ASSUME IInv, FitInv, Alone, NEW r \in Requests, EditLook(r) PROVE FitInv'
<1> DEFINE q == requests[r]
<1>1. q.op = "edit" /\ q.at = "start" /\ UnchangedStores /\ UnchangedGhosts
  BY DEF EditLook, At
<1>2. Busy(r)
  BY <1>1, Known
<1>3. /\ ViewSettled(View, SparedNow(q, failed, renamed)) /\ RequestSettled(View, q, failed, renamed)
      /\ q \in Request /\ RequestSound(View, q, astray) /\ View.pool = pool /\ View.people = people
  BY <1>2, AloneKnown
<1>4. q.item \in Products /\ q.writes = {} /\ q.serial \in Serials \cup {None}
  BY <1>1, <1>3, RequestFields DEF RequestSound, Phases
<1>5. CASE Finish(r)
  BY <1>1, <1>2, <1>5, LookEnds DEF UnchangedStores
<1>6. ASSUME NEW m, NEW i, q.serial = i.serial \/ ~Taken(q.serial), SerialIn(View, q.item, i.serial),
             Continue(r, [q EXCEPT !.at = "write", !.member = m, !.dirty = {}])
      PROVE  FitInv'
  <2> DEFINE q2 == [q EXCEPT !.at = "write", !.member = m, !.dirty = {}]
  <2>1. /\ q2.op = "edit" /\ q2.at = "write" /\ q2.writes = {} /\ q2.item = q.item /\ q2.serial = q.serial
        /\ q2.dirty = {}
    BY <1>1, <1>3, <1>4 DEF Request
  <2>2. Continue(r, q2)
    BY <1>6
  <2> HIDE DEF q2
  <2>3. q.serial \in Serials \ Spaced => \A x \in Products \ {q.item} : ~SerialIn(View, x, q.serial)
    <3>1. CASE ~Taken(q.serial)
      BY <1>3, <1>4, <3>1, TakenIs, NoSerialAbsent
    <3>2. CASE q.serial = i.serial
      BY <1>3, <1>4, <1>6, <3>2 DEF ViewSettled, SerialsDiffer
    <3> QED  BY <1>6, <3>1, <3>2
  <2>4. EditsFit(View, q2) /\ FilesFit(View, q2) /\ StaffFit(View, q2) /\ ~Sees(q2)
    BY <2>1, <2>3 DEF EditsFit, FilesFit, StaffFit, Sees, InTransaction, Creating, Supplying, Joining
  <2> QED  BY <1>1, <1>2, <2>1, <2>2, <2>4, LookSettles
<1>7. CASE Stored(View, q.item) /\ (q.serial = pool[q.item].serial \/ ~Taken(q.serial))
           /\ Continue(r, [q EXCEPT !.at = "write", !.member = None, !.dirty = {}])
  <2>1. SerialIn(View, q.item, pool[q.item].serial)
    BY <1>3 DEF SerialIn
  <2> QED  BY <1>6, <1>7, <2>1
<1>8. ASSUME NEW m \in Holders(View, q.item), q.serial = people[m].has[q.item].serial \/ ~Taken(q.serial),
             Continue(r, [q EXCEPT !.at = "write", !.member = m, !.dirty = {}])
      PROVE  FitInv'
  <2>1. SerialIn(View, q.item, people[m].has[q.item].serial)
    BY <1>3 DEF SerialIn, Holders
  <2> QED  BY <1>6, <1>8, <2>1
<1>9. \/ Finish(r)
      \/ Stored(View, q.item) /\ (q.serial = pool[q.item].serial \/ ~Taken(q.serial))
         /\ Continue(r, [q EXCEPT !.at = "write", !.member = None, !.dirty = {}])
      \/ \E m \in Holders(View, q.item) :
            /\ q.serial = people[m].has[q.item].serial \/ ~Taken(q.serial)
            /\ Continue(r, [q EXCEPT !.at = "write", !.member = m, !.dirty = {}])
  BY DEF EditLook
<1> QED  BY <1>5, <1>7, <1>8, <1>9

LEMMA DismissLookSettles ==
    ASSUME IInv, FitInv, Alone, NEW r \in Requests, DismissLook(r) PROVE FitInv'
<1> DEFINE q == requests[r]
           q2 == [q EXCEPT !.op = "dismiss", !.at = "write", !.view = NoView]
<1>1. /\ q.op \in {"dismiss", "offboard"} /\ q.at \in {"start", "dismiss"} /\ UnchangedStores /\ UnchangedGhosts
  BY DEF DismissLook, At
<1>2. Busy(r)
  BY <1>1, Known
<1>3. /\ RequestSettled(View, q, failed, renamed) /\ q \in Request /\ RequestSound(View, q, astray)
      /\ View.people = people
  BY <1>2, AloneKnown
<1>4. Finish(r) \/ (~MustGiveBack(q.member) /\ Continue(r, q2))
  BY DEF DismissLook
<1>5. CASE Finish(r)
  BY <1>1, <1>2, <1>5, LookEnds DEF UnchangedStores
<1>6. CASE ~MustGiveBack(q.member) /\ Continue(r, q2)
  <2>1. /\ q2.op = "dismiss" /\ q2.at = "write" /\ q2.writes = q.writes /\ q2.member = q.member
        /\ q2.dirty = q.dirty
    BY <1>3 DEF Request
  <2>2. Continue(r, q2)
    BY <1>6
  <2> HIDE DEF q2
  <2>3. q2.writes = {} /\ q2.dirty = {}
    BY <1>1, <1>3, <2>1 DEF RequestSound, Phases, RequestSettled
  <2>4. \A p \in Recoverable : View.people[q2.member].has[p] = Absent
    BY <1>3, <1>6, <2>1 DEF MustGiveBack
  <2>5. View.people[q2.member].status # "unused"
    BY <1>1, <1>3, <2>1 DEF RequestSettled, StaffFit
  <2>6. EditsFit(View, q2) /\ FilesFit(View, q2) /\ StaffFit(View, q2) /\ ~Sees(q2)
    BY <2>1, <2>3, <2>4, <2>5 DEF EditsFit, FilesFit, StaffFit, Sees, InTransaction, Creating, Supplying, Joining
  <2> QED  BY <1>1, <1>2, <2>1, <2>2, <2>3, <2>6, LookSettles
<1> QED  BY <1>4, <1>5, <1>6

-----------------------------------------------------------------------------
\* Deleting a product.

LEMMA DeleteWriteSettles ==
    ASSUME IInv, FitInv, Alone, NEW r \in Requests, DeleteWrite(r) PROVE FitInv'
<1> DEFINE q == requests[r]
           v == q.view
           p == q.item
<1>1. /\ q \in Request /\ RequestSound(View, q, astray) /\ v \in ViewType
      /\ q.op = "delete" /\ q.at = "work" /\ Stores /\ Ghosts
  BY Known, RequestFields DEF DeleteWrite, At
<1>2. InTransaction(q) /\ p \in Products /\ Busy(r)
  BY <1>1, Known DEF InTransaction, Transactions, RequestSound, Phases
<1>3. CASE Abort(r)
  BY <1>1, <1>2, <1>3, AbortSettles
<1>4. ASSUME NEW i \in Item, Write(r, {p}, [v EXCEPT !.pool[p] = Deleted(i)], "mark", {}) PROVE FitInv'
  <2> DEFINE w == [v EXCEPT !.pool[p] = Deleted(i)]
  <2>1. /\ w.pool[p] = Deleted(i) /\ w.people = v.people
        /\ \A x \in Products \ {p} : w.pool[x] = v.pool[x]
    BY <1>1, <1>2 DEF ViewType
  <2>2. Write(r, {p}, w, "mark", {})
    BY <1>4
  <2> HIDE DEF w
  <2>3. Deleted(i).gone /\ Deleted(i).serial \notin Serials
    BY NoSerialAbsent DEF Deleted, Item
  <2>4. w.pool[p].serial \notin Serials /\ w.pool[p].gone
    BY <2>1, <2>3
  <2>5. Shifts(v, w)
    <3>1. /\ \A n \in Members : w.people[n].status = v.people[n].status /\ w.people[n].email = v.people[n].email
          /\ \A n \in Members, x \in Products \ {p} : w.people[n].has[x] = v.people[n].has[x]
      BY <2>1
    <3>2. \/ w.pool[p] = v.pool[p]
          \/ /\ w.pool[p].serial \in Serials => SerialIn(v, p, w.pool[p].serial)
             /\ w.pool[p].email \notin Emails \/ w.pool[p].gone
      BY <2>4
    <3>3. \A n \in Members :
             \/ w.people[n].has[p] = v.people[n].has[p] \/ w.people[n].has[p] = Absent
             \/ /\ v.people[n].status # "deleted"
                /\ w.people[n].has[p].serial \in Serials => SerialIn(v, p, w.people[n].has[p].serial)
      BY <2>1
    <3>4. \A x \in Products \ {p} : w.pool[x] = v.pool[x]
      BY <2>1
    <3> QED  BY <1>2, <3>1, <3>2, <3>3, <3>4, ShiftsIf
  <2>6. \A d \in Docs \ {p} : Same(w, v, d)
    BY <2>1 DEF Same
  <2> QED  BY <1>1, <1>2, <2>2, <2>5, <2>6, ShiftWritten
<1>5. CASE Stored(v, p) /\ Write(r, {p}, [v EXCEPT !.pool[p] = Deleted(@)], "mark", {})
  <2>1. v.pool[p] \in Item
    BY <1>1, <1>2, <1>5, ViewFields, SlotFields DEF Stored
  <2> QED  BY <1>4, <1>5, <2>1
<1>6. ASSUME NEW m \in Holders(v, p), Write(r, {p}, [v EXCEPT !.pool[p] = Deleted(v.people[m].has[p])], "mark", {})
      PROVE  FitInv'
  <2>1. v.people[m].has[p] \in Item
    BY <1>1, <1>2, <1>6, ViewFields, SlotFields DEF Holders
  <2> QED  BY <1>4, <1>6, <2>1
<1> QED  BY <1>3, <1>5, <1>6 DEF DeleteWrite

LEMMA DeleteDetachSettles ==
    ASSUME IInv, FitInv, Alone, NEW r \in Requests, DeleteDetach(r) PROVE FitInv'
<1> DEFINE q == requests[r]
           v == q.view
           p == q.item
<1>1. /\ q \in Request /\ RequestSound(View, q, astray) /\ v \in ViewType
      /\ q.op = "delete" /\ q.at = "detach" /\ Stores /\ Ghosts
  BY Known, RequestFields DEF DeleteDetach, At
<1>2. InTransaction(q) /\ p \in Products
  BY <1>1 DEF InTransaction, Transactions, RequestSound, Phases
<1>3. PICK m \in Holders(v, p) : Write(r, {m}, [v EXCEPT !.people[m].has[p] = Absent], "commit", {})
  BY DEF DeleteDetach
<1> DEFINE person == [v.people[m] EXCEPT !.has[p] = Absent]
           w == [v EXCEPT !.people[m] = person]
<1>4. m \in Members /\ v.people[m] \in Person
  BY <1>1, <1>2, ViewFields DEF Holders
<1>5. /\ person.email = v.people[m].email /\ person.status = v.people[m].status /\ person.has[p] = Absent
      /\ \A x \in Products \ {p} : person.has[x] = v.people[m].has[x]
  BY <1>2, <1>4 DEF Person, Slot
<1>6. Write(r, {m}, w, "commit", {})
  BY <1>3
<1> HIDE DEF person
<1>7. w.pool = v.pool /\ w.people[m] = person /\ \A n \in Members \ {m} : w.people[n] = v.people[n]
  BY <1>1, <1>4 DEF ViewType
<1> HIDE DEF w
<1>8. /\ \A n \in Members : w.people[n].status = v.people[n].status /\ w.people[n].email = v.people[n].email
      /\ \A n \in Members, x \in Products \ {p} : w.people[n].has[x] = v.people[n].has[x]
      /\ \A n \in Members : w.people[n].has[p] = v.people[n].has[p] \/ w.people[n].has[p] = Absent
  BY <1>5, <1>7
<1>9. Shifts(v, w)
  <2>1. w.pool[p] = v.pool[p] /\ \A x \in Products \ {p} : w.pool[x] = v.pool[x]
    BY <1>7
  <2>2. \A n \in Members :
           \/ w.people[n].has[p] = v.people[n].has[p] \/ w.people[n].has[p] = Absent
           \/ /\ v.people[n].status # "deleted"
              /\ w.people[n].has[p].serial \in Serials => SerialIn(v, p, w.people[n].has[p].serial)
    BY <1>8
  <2> QED  BY <1>2, <1>8, <2>1, <2>2, ShiftsIf
<1>10. \A d \in Docs \ {m} : Same(w, v, d)
  BY <1>7 DEF Same
<1> QED  BY <1>1, <1>2, <1>6, <1>9, <1>10, ShiftWritten

-----------------------------------------------------------------------------
\* Creating products.

\* A product with a serial number nobody has, that waits for nobody there is.
Fits(v, q) ==
    /\ q.serial \in Serials \ Spaced => \A x \in Products : ~SerialIn(v, x, q.serial)
    /\ IF q.member = None THEN q.email = None \/ Found(v, q.email) = {}
       ELSE v.people[q.member].status = "live"

LEMMA FiledSettled ==
    ASSUME IInv, NEW q \in Request, NEW p \in Fresh, NEW a, ViewSettled(View, a), Fits(View, q)
    PROVE  ViewSettled(Filed(q, p), a)
<1> DEFINE w == Filed(q, p)
<1>1. /\ p \in Products /\ View \in ViewType /\ NewItem(q).serial = q.serial /\ NewItem(q).email = q.email
      /\ View.pool \in [Products -> Slot]
  BY GhostTypes DEF Fresh, NewItem
<1>2. \A m \in Members : w.people[m].status = View.people[m].status /\ w.people[m].email = View.people[m].email
  BY <1>1, FiledStatus
<1>3. /\ \A x \in Products \ {p} : w.pool[x] = View.pool[x]
      /\ \A m \in Members, x \in Products \ {p} : w.people[m].has[x] = View.people[m].has[x]
      /\ w.pool[p] = View.pool[p] \/ (w.pool[p] = NewItem(q) /\ q.member = None)
      /\ \A m \in Members : \/ w.people[m].has[p] = View.people[m].has[p]
                            \/ w.people[m].has[p] = NewItem(q) /\ m = q.member /\ q.member # None
  <2>1. CASE q.member = None
    <3>1. w.pool = [View.pool EXCEPT ![p] = NewItem(q)] /\ w.people = View.people
      BY <1>1, <2>1, FiledFields
    <3> HIDE DEF w
    <3> QED  BY <1>1, <2>1, <3>1
  <2>2. CASE q.member # None
    <3>1. /\ w.pool = View.pool
          /\ \A m \in Members, x \in Products :
                w.people[m].has[x] = IF m = q.member /\ x = p THEN NewItem(q) ELSE View.people[m].has[x]
      BY <1>1, <2>2, FiledFields
    <3> HIDE DEF w
    <3> QED  BY <1>1, <2>2, <3>1
  <2> QED  BY <2>1, <2>2
<1> HIDE DEF w
<1>4. SerialsDiffer(w)
  <2>1. \A s \in Serials, x \in Products : SerialIn(w, x, s) => SerialIn(View, x, s) \/ (x = p /\ s = q.serial)
    BY <1>1, <1>3 DEF SerialIn
  <2>2. \A s \in Serials \ Spaced, x \in Products : s = q.serial => ~SerialIn(View, x, s)
    BY DEF Fits
  <2>3. \A s \in Serials \ Spaced, x, y \in Products : SerialIn(View, x, s) /\ SerialIn(View, y, s) => x = y
    BY DEF ViewSettled, SerialsDiffer
  <2> QED  BY <2>1, <2>2, <2>3 DEF SerialsDiffer
<1>5. GivenBack(w)
  <2> SUFFICES ASSUME NEW m \in Members, w.people[m].status = "deleted", NEW x \in Recoverable
               PROVE  w.people[m].has[x] = Absent
    BY DEF GivenBack
  <2>1. View.people[m].status = "deleted" /\ x \in Products
    BY <1>2, ConstantsAssumption
  <2>2. View.people[m].has[x] = Absent
    BY <2>1 DEF ViewSettled, GivenBack
  <2>3. ~(m = q.member /\ q.member # None)
    BY <2>1 DEF Fits
  <2> QED  BY <1>3, <2>1, <2>2, <2>3
<1>6. EmailsDiffer(w)
  BY <1>2 DEF ViewSettled, EmailsDiffer
<1>7. NoneWaits(w, a)
  <2> SUFFICES ASSUME NEW m \in Members \ a, w.people[m].status = "live", NEW x \in Waiting(w, w.people[m].email)
               PROVE  FALSE
    BY DEF NoneWaits
  <2> DEFINE e == w.people[m].email
  <2>1. View.people[m].status = "live" /\ View.people[m].email = e /\ e \in Emails
    BY <1>2 DEF ViewSettled, EmailsDiffer
  <2>2. x \in Products /\ w.pool[x] # Absent /\ w.pool[x].email = e /\ ~w.pool[x].gone
    BY DEF Waiting, Stored
  <2>3. CASE w.pool[x] = View.pool[x]
    <3>1. x \in Waiting(View, e)
      BY <2>2, <2>3 DEF Waiting, Stored
    <3> QED  BY <2>1, <3>1 DEF ViewSettled, NoneWaits
  <2>4. CASE w.pool[x] # View.pool[x]
    <3>1. x = p /\ w.pool[x] = NewItem(q) /\ q.member = None
      BY <1>3, <2>2, <2>4
    <3>2. q.email = e
      BY <1>1, <2>2, <3>1
    <3>3. Found(View, e) = {} /\ m \in Found(View, e)
      BY <2>1, <3>1, <3>2, NoSerialAbsent DEF Fits, Found
    <3> QED  BY <3>3
  <2> QED  BY <2>3, <2>4
<1> QED  BY <1>4, <1>5, <1>6, <1>7 DEF ViewSettled, w

LEMMA TouchAlone ==
    ASSUME IInv, FitInv, Alone, NEW r \in Requests, Busy(r), NEW q2, NEW docs, Touch(r, q2, docs)
    PROVE  requests'[r] = q2 /\ \A s \in Requests \ {r} : requests'[s] = Idle
<1>1. \A s \in Requests \ {r} : requests[s] = Idle
  BY AloneKnown
<1> QED  BY <1>1 DEF Touch

LEMMA FileSettles ==
    ASSUME IInv, FitInv, Alone, NEW r \in Requests, NEW p \in Fresh,
           requests[r].op \in {"create", "stock"}, requests[r].at = "insert",
           pool' = Filed(requests[r], p).pool, people' = Filed(requests[r], p).people,
           Touch(r, [requests[r] EXCEPT !.view = Filed(requests[r], p), !.sync = {p}, !.at = "sync"],
                 FiledIn(requests[r], p)),
           UnchangedGhosts
    PROVE  FitInv'
<1> DEFINE q == requests[r]
           w == Filed(q, p)
           q2 == [q EXCEPT !.view = w, !.sync = {p}, !.at = "sync"]
<1>1. Busy(r)
  BY Known
<1>2. /\ ViewSettled(View, SparedNow(q, failed, renamed)) /\ RequestSettled(View, q, failed, renamed)
      /\ q \in Request /\ RequestSound(View, q, astray)
  BY <1>1, AloneKnown
<1>3. Fits(View, q) /\ q.writes = {} /\ (q.op = "stock" => q.email = None)
  BY <1>2 DEF Fits, RequestSettled, FilesFit, RequestSound, Phases, Creating, Supplying
<1>4. ViewSettled(w, SparedNow(q, failed, renamed))
  BY <1>2, <1>3, FiledSettled
<1>5. View' = w
  <2>1. w \in ViewType
    BY <1>2, FiledFields DEF Fresh
  <2> QED  BY <2>1, ViewFields DEF View
<1>6. /\ q2.op = q.op /\ q2.at = "sync" /\ q2.view = w /\ q2.writes = {} /\ q2.dirty = q.dirty
      /\ q2.email = q.email
  BY <1>2, <1>3 DEF Request
<1>7. requests'[r] = q2 /\ \A s \in Requests \ {r} : requests'[s] = Idle
  <2>1. Touch(r, q2, FiledIn(q, p))
    OBVIOUS
  <2> HIDE DEF q2
  <2> QED  BY <1>1, <2>1, TouchAlone
<1> HIDE DEF q2, w
<1>8. SparedNow(q2, failed, renamed) = SparedNow(q, failed, renamed)
  BY <1>6 DEF SparedNow
<1>9. FilesFit(w, q2) /\ EditsFit(w, q2) /\ StaffFit(w, q2) /\ ~Sees(q2)
  BY <1>3, <1>6 DEF FilesFit, EditsFit, StaffFit, Sees, InTransaction, Transactions, Moving, Joining, Creating, Supplying
<1>10. RequestSettled(w, q2, failed, renamed)
  BY <1>2, <1>6, <1>9 DEF RequestSettled
<1> QED  BY <1>4, <1>5, <1>7, <1>8, <1>10, StepSettles DEF UnchangedGhosts

LEMMA CreateWriteSettles ==
    ASSUME IInv, FitInv, Alone, NEW r \in Requests, CreateWrite(r) PROVE FitInv'
<1> DEFINE q == requests[r]
<1>1. q.op = "create" /\ q.at = "insert" /\ UnchangedGhosts
  BY DEF CreateWrite, At
<1>2. Busy(r)
  BY <1>1, Known
<1>3. CASE Finish(r) /\ UnchangedStores
  BY <1>1, <1>2, <1>3, LookEnds DEF UnchangedStores
<1>4. ASSUME NEW p \in Fresh,
             pool' = Filed(q, p).pool, people' = Filed(q, p).people,
             Touch(r, [q EXCEPT !.view = Filed(q, p), !.sync = {p}, !.at = "sync"], FiledIn(q, p))
      PROVE  FitInv'
  BY <1>1, <1>4, FileSettles
<1> QED  BY <1>3, <1>4 DEF CreateWrite

LEMMA StockWriteSettles ==
    ASSUME IInv, FitInv, Alone, NEW r \in Requests, StockWrite(r) PROVE FitInv'
<1> DEFINE q == requests[r]
<1>1. q.op = "stock" /\ q.at = "insert" /\ UnchangedGhosts /\ q \in Request
  BY Known DEF StockWrite, At
<1>2. q.member = None /\ Busy(r)
  BY <1>1, Known DEF RequestSound, Phases, Supplying
<1>3. CASE Finish(r) /\ UnchangedStores
  BY <1>1, <1>2, <1>3, LookEnds DEF UnchangedStores
<1>4. ASSUME NEW p \in Fresh, pool' = Filed(q, p).pool, people' = people,
             Touch(r, [q EXCEPT !.view = Filed(q, p), !.sync = {p}, !.at = "sync"], {p})
      PROVE  FitInv'
  <2>1. FiledIn(q, p) = {p}
    BY <1>2 DEF FiledIn
  <2>2. people' = Filed(q, p).people
    <3>1. p \in Products
      BY DEF Fresh
    <3>2. Filed(q, p).people = View.people
      BY <1>1, <1>2, <3>1, FiledFields
    <3> QED  BY <1>4, <3>2, GhostTypes
  <2> QED  BY <1>1, <1>4, <2>1, <2>2, FileSettles
<1> QED  BY <1>3, <1>4 DEF StockWrite

\* A request that creates products in a transaction has written them.
LEMMA InsertSettles ==
    ASSUME IInv, FitInv, Alone, NEW r \in Requests, requests[r].op \in {"import", "supply"}, NEW q2, NEW w, NEW docs,
           Continue(r, q2), UnchangedStores, UnchangedGhosts,
           q2.op = requests[r].op, q2.at = "commit", q2.view = w, q2.writes = docs, docs # {}, q2.email = requests[r].email,
           q2.dirty = requests[r].dirty,
           ViewSettled(w, SparedNow(requests[r], failed, renamed)), \A d \in Docs \ docs : Same(w, View, d)
    PROVE  FitInv'
<1> DEFINE q == requests[r]
<1>1. Busy(r)
  BY Known
<1>2. ViewSettled(View, SparedNow(q, failed, renamed)) /\ RequestSettled(View, q, failed, renamed)
  BY <1>1, AloneKnown
<1>3. /\ SparedNow(q2, failed, renamed) = SparedNow(q, failed, renamed)
      /\ SparedThen(q2, failed, renamed) = SparedNow(q, failed, renamed)
  BY DEF SparedNow, SparedThen
<1>4. FilesFit(View, q2) /\ EditsFit(View, q2) /\ StaffFit(View, q2)
  BY <1>2 DEF RequestSettled, FilesFit, EditsFit, StaffFit, Creating, Supplying, Joining
<1>5. RequestSettled(View, q2, failed, renamed)
  BY <1>2, <1>3, <1>4 DEF RequestSettled
<1> QED  BY <1>1, <1>2, <1>3, <1>5, ContinueSettles DEF UnchangedStores, UnchangedGhosts

LEMMA ImportWriteSettles ==
    ASSUME IInv, FitInv, Alone, NEW r \in Requests, ImportWrite(r) PROVE FitInv'
<1> DEFINE q == requests[r]
<1>1. q.op = "import" /\ q.at = "insert" /\ UnchangedStores /\ UnchangedGhosts
  BY DEF ImportWrite, At
<1>2. Busy(r)
  BY <1>1, Known
<1>3. /\ ViewSettled(View, SparedNow(q, failed, renamed)) /\ RequestSettled(View, q, failed, renamed)
      /\ q \in Request
  BY <1>2, AloneKnown
<1>4. CASE Finish(r)
  BY <1>1, <1>2, <1>4, LookEnds DEF UnchangedStores
<1>5. ASSUME NEW p \in Fresh,
             Continue(r, [q EXCEPT !.view = Filed(q, p), !.sync = {p}, !.at = "commit", !.writes = FiledIn(q, p)])
      PROVE  FitInv'
  <2> DEFINE w == Filed(q, p)
             docs == FiledIn(q, p)
             q2 == [q EXCEPT !.view = w, !.sync = {p}, !.at = "commit", !.writes = docs]
  <2>1. Fits(View, q)
    BY <1>1, <1>3 DEF Fits, RequestSettled, FilesFit, Creating
  <2>2. ViewSettled(w, SparedNow(q, failed, renamed))
    BY <1>3, <2>1, FiledSettled
  <2>3. \A d \in Docs \ docs : Same(w, View, d)
    <3>1. \A d \in Docs \ docs : Same(View, w, d)
      BY <1>3, FiledHomes
    <3> HIDE DEF w
    <3> QED  BY <3>1 DEF Same
  <2>4. docs # {}
    BY DEF FiledIn
  <2>5. /\ q2.op = q.op /\ q2.at = "commit" /\ q2.view = w /\ q2.writes = docs /\ q2.email = q.email
        /\ q2.dirty = q.dirty
    BY <1>3 DEF Request
  <2>6. Continue(r, q2)
    BY <1>5
  <2> HIDE DEF q2, w, docs
  <2> QED  BY <1>1, <2>2, <2>3, <2>4, <2>5, <2>6, InsertSettles
<1> QED  BY <1>4, <1>5 DEF ImportWrite

LEMMA SupplyWriteSettles ==
    ASSUME IInv, FitInv, Alone, NEW r \in Requests, SupplyWrite(r) PROVE FitInv'
<1> DEFINE q == requests[r]
<1>1. q.op = "supply" /\ q.at = "insert" /\ UnchangedStores /\ UnchangedGhosts
  BY DEF SupplyWrite, At
<1>2. Busy(r)
  BY <1>1, Known
<1>3. /\ ViewSettled(View, SparedNow(q, failed, renamed)) /\ RequestSettled(View, q, failed, renamed)
      /\ q \in Request /\ RequestSound(View, q, astray) /\ View \in ViewType
  BY <1>2, AloneKnown
<1>4. q.member = None /\ q.email = None
  BY <1>1, <1>3 DEF RequestSound, Phases, Supplying, RequestSettled, FilesFit
<1>5. CASE Finish(r)
  BY <1>1, <1>2, <1>5, LookEnds DEF UnchangedStores
<1>6. ASSUME NEW p \in Fresh, NEW x \in Fresh, p # x,
             Continue(r, [q EXCEPT !.at = "commit", !.writes = {p, x}, !.sync = {p, x},
                      !.view = [Filed(q, p) EXCEPT !.pool[x] = [Filed(q, p).pool[p] EXCEPT !.serial = None]]])
      PROVE  FitInv'
  <2> DEFINE u == Filed(q, p)
             other == [u.pool[p] EXCEPT !.serial = None]
             w == [u EXCEPT !.pool[x] = other]
             docs == {p, x}
             q2 == [q EXCEPT !.at = "commit", !.writes = docs, !.sync = {p, x}, !.view = w]
  <2>1. Fits(View, q)
    BY <1>1, <1>3 DEF Fits, RequestSettled, FilesFit, Supplying
  <2>2. ViewSettled(u, SparedNow(q, failed, renamed))
    BY <1>3, <2>1, FiledSettled
  <2>3. p \in Products /\ x \in Products
    BY DEF Fresh
  <2>4. u \in ViewType /\ u.pool = [View.pool EXCEPT ![p] = NewItem(q)] /\ u.people = View.people
    BY <1>3, <1>4, <2>3, FiledFields
  <2>5. other.serial = None /\ other.email = None
    <3>1. u.pool[p] = NewItem(q) /\ NewItem(q) \in Item /\ NewItem(q).email = None
      BY <1>3, <1>4, <2>3, <2>4, NewItemType DEF ViewType, NewItem
    <3> QED  BY <3>1 DEF Item
  <2> HIDE DEF other, u
  <2>6. w.people = u.people /\ w.pool[x] = other /\ \A y \in Products \ {x} : w.pool[y] = u.pool[y]
    BY <2>3, <2>4 DEF ViewType
  <2>7. /\ q2.op = q.op /\ q2.at = "commit" /\ q2.view = w /\ q2.writes = docs /\ q2.email = q.email
        /\ q2.dirty = q.dirty
    BY <1>3 DEF Request
  <2>8. Continue(r, q2)
    BY <1>6 DEF other, u
  <2> HIDE DEF q2, w
  <2>9. Shifts(u, w)
    <3>1. /\ \A n \in Members : w.people[n].status = u.people[n].status /\ w.people[n].email = u.people[n].email
          /\ \A n \in Members, y \in Products \ {x} : w.people[n].has[y] = u.people[n].has[y]
      BY <2>6
    <3>2. \/ w.pool[x] = u.pool[x]
          \/ /\ w.pool[x].serial \in Serials => SerialIn(u, x, w.pool[x].serial)
             /\ w.pool[x].email \notin Emails \/ w.pool[x].gone
      BY <2>5, <2>6, NoSerialAbsent
    <3>3. \A n \in Members :
             \/ w.people[n].has[x] = u.people[n].has[x] \/ w.people[n].has[x] = Absent
             \/ /\ u.people[n].status # "deleted"
                /\ w.people[n].has[x].serial \in Serials => SerialIn(u, x, w.people[n].has[x].serial)
      BY <2>6
    <3>4. \A y \in Products \ {x} : w.pool[y] = u.pool[y]
      BY <2>6
    <3> QED  BY <2>3, <3>1, <3>2, <3>3, <3>4, ShiftsIf
  <2>10. ViewSettled(w, SparedNow(q, failed, renamed))
    BY <2>2, <2>9, ShiftSettles
  <2>11. \A d \in Docs \ docs : Same(w, View, d)
    BY <1>3, <2>3, <2>4, <2>6, DocsDiffer DEF Same, ViewType
  <2>12. docs # {}
    OBVIOUS
  <2> HIDE DEF docs
  <2> QED  BY <1>1, <2>7, <2>8, <2>10, <2>11, <2>12, InsertSettles
<1> QED  BY <1>5, <1>6 DEF SupplyWrite

-----------------------------------------------------------------------------
\* Serial numbers and members in place.

LEMMA SerialSettles ==
    ASSUME NEW v, NEW w, NEW a, NEW p \in Products, NEW s, ViewSettled(v, a),
           s \in Serials \ Spaced => \A x \in Products \ {p} : ~SerialIn(v, x, s),
           \A m \in Members : w.people[m].status = v.people[m].status /\ w.people[m].email = v.people[m].email,
           \A x \in Products, t \in Serials : SerialIn(w, x, t) => SerialIn(v, x, t) \/ (x = p /\ t = s),
           \A m \in Members, x \in Products : v.people[m].has[x] = Absent => w.people[m].has[x] = Absent,
           \A e \in Emails : Waiting(w, e) \subseteq Waiting(v, e)
    PROVE  ViewSettled(w, a)
<1>1. SerialsDiffer(w)
  <2>1. \A t \in Serials \ Spaced, x \in Products : SerialIn(v, x, t) /\ t = s => x = p
    OBVIOUS
  <2>2. \A t \in Serials \ Spaced, x, y \in Products : SerialIn(v, x, t) /\ SerialIn(v, y, t) => x = y
    BY DEF ViewSettled, SerialsDiffer
  <2> QED  BY <2>1, <2>2 DEF SerialsDiffer
<1>2. GivenBack(w)
  BY ConstantsAssumption DEF ViewSettled, GivenBack
<1>3. EmailsDiffer(w)
  BY DEF ViewSettled, EmailsDiffer
<1>4. NoneWaits(w, a)
  <2> SUFFICES ASSUME NEW m \in Members \ a, w.people[m].status = "live" PROVE Waiting(w, w.people[m].email) = {}
    BY DEF NoneWaits
  <2>1. v.people[m].status = "live" /\ v.people[m].email = w.people[m].email
    OBVIOUS
  <2>2. v.people[m].email \in Emails /\ Waiting(v, v.people[m].email) = {}
    BY <2>1 DEF ViewSettled, NoneWaits, EmailsDiffer
  <2> QED  BY <2>1, <2>2
<1> QED  BY <1>1, <1>2, <1>3, <1>4 DEF ViewSettled

\* An edit has stored its serial number.
LEMMA EditedSettles ==
    ASSUME IInv, FitInv, Alone, NEW r \in Requests, Busy(r), requests[r].op = "edit", NEW w, NEW q2, NEW docs,
           requests[r].writes = {}, View' = w, Touch(r, q2, docs), UnchangedGhosts,
           q2.op = "edit", q2.at = "sync", q2.writes = {}, q2.dirty = {},
           ViewSettled(w, SparedNow(requests[r], failed, renamed))
    PROVE  FitInv'
<1>1. requests'[r] = q2 /\ \A s \in Requests \ {r} : requests'[s] = Idle
  BY TouchAlone
<1>2. SparedNow(q2, failed, renamed) = SparedNow(requests[r], failed, renamed)
  BY DEF SparedNow
<1>3. FilesFit(w, q2) /\ EditsFit(w, q2) /\ StaffFit(w, q2) /\ ~Sees(q2)
  BY DEF FilesFit, EditsFit, StaffFit, Sees, InTransaction, Transactions, Moving, Joining, Creating, Supplying
<1>4. RequestSettled(w, q2, failed, renamed)
  BY <1>3 DEF RequestSettled
<1> QED  BY <1>1, <1>2, <1>4, StepSettles DEF UnchangedGhosts

LEMMA EditInPoolSettles ==
    ASSUME IInv, FitInv, Alone, NEW r \in Requests, EditInPool(r) PROVE FitInv'
<1> DEFINE q == requests[r]
           p == q.item
           i == [View.pool[p] EXCEPT !.serial = q.serial]
           w == [View EXCEPT !.pool[p] = i]
           q2 == [q EXCEPT !.at = "sync", !.sync = {p}, !.view = w]
<1>1. q.op = "edit" /\ q.at = "write" /\ UnchangedGhosts
  BY DEF EditInPool, At
<1>2. Busy(r)
  BY <1>1, Known
<1>3. /\ ViewSettled(View, SparedNow(q, failed, renamed)) /\ RequestSettled(View, q, failed, renamed)
      /\ q \in Request /\ RequestSound(View, q, astray) /\ View \in ViewType
      /\ View.pool = pool /\ View.people = people
  BY <1>2, AloneKnown
<1>4. p \in Products /\ q.writes = {} /\ q.serial \in Serials \cup {None}
  BY <1>1, <1>3, RequestFields DEF RequestSound, Phases
<1>5. CASE Finish(r) /\ UnchangedStores
  BY <1>1, <1>2, <1>5, LookEnds DEF UnchangedStores
<1>6. CASE /\ Stored(View, p)
           /\ pool' = [pool EXCEPT ![p].serial = q.serial]
           /\ Touch(r, q2, {p}) /\ people' = people
  <2>1. View.pool[p] \in Slot /\ View.pool[p] # Absent /\ View.pool \in [Products -> Slot]
    BY <1>3, <1>4, <1>6, ViewFields DEF Stored
  <2>2. /\ i.serial = q.serial /\ i.gone = View.pool[p].gone /\ i.email = View.pool[p].email
        /\ i \in Slot
    <3>1. i.serial = q.serial
      BY <2>1, SlotFields DEF Item
    <3> QED  BY <1>4, <2>1, <3>1, SerialType, SerialGone
  <2>3. pool' = [View.pool EXCEPT ![p] = i]
    BY <1>3, <1>6
  <2>4. Touch(r, q2, {p})
    BY <1>6
  <2> HIDE DEF i
  <2>5. w \in ViewType /\ w.pool = [View.pool EXCEPT ![p] = i] /\ w.people = View.people
    BY <1>3, <1>4, <2>1, <2>2 DEF ViewType
  <2>6. View' = w
    <3>1. w = [pool |-> w.pool, people |-> w.people]
      BY <2>5, ViewFields
    <3> HIDE DEF w
    <3> QED  BY <1>3, <1>6, <2>3, <2>5, <3>1 DEF View
  <2>7. q2.op = "edit" /\ q2.at = "sync" /\ q2.writes = {} /\ q2.dirty = {}
    BY <1>1, <1>3, <1>4 DEF Request, RequestSettled
  <2> HIDE DEF w, q2
  <2>8. \A x \in Products : w.pool[x] = IF x = p THEN i ELSE View.pool[x]
    BY <2>1, <2>5
  <2>9. \A x \in Products, t \in Serials : SerialIn(w, x, t) => SerialIn(View, x, t) \/ (x = p /\ t = q.serial)
    BY <2>2, <2>5, <2>8 DEF SerialIn
  <2>10. \A e \in Emails : Waiting(w, e) \subseteq Waiting(View, e)
    BY <2>1, <2>2, <2>8 DEF Waiting, Stored
  <2>11. q.serial \in Serials \ Spaced => \A x \in Products \ {p} : ~SerialIn(View, x, q.serial)
    BY <1>1, <1>3 DEF RequestSettled, EditsFit
  <2>12. /\ \A m \in Members : w.people[m].status = View.people[m].status /\ w.people[m].email = View.people[m].email
         /\ \A m \in Members, x \in Products : View.people[m].has[x] = Absent => w.people[m].has[x] = Absent
    BY <2>5
  <2>13. ViewSettled(w, SparedNow(q, failed, renamed))
    <3> DEFINE a == SparedNow(q, failed, renamed)
    <3>1. ViewSettled(View, a) /\ p \in Products
      BY <1>3, <1>4
    <3> HIDE DEF a, p
    <3>2. ViewSettled(w, a)
      BY <2>9, <2>10, <2>11, <2>12, <3>1, SerialSettles
    <3> QED  BY <3>2 DEF a
  <2> QED  BY <1>1, <1>2, <1>4, <2>4, <2>6, <2>7, <2>13, EditedSettles
<1> QED  BY <1>5, <1>6, <1>3 DEF EditInPool

LEMMA EditInMemberSettles ==
    ASSUME IInv, FitInv, Alone, NEW r \in Requests, EditInMember(r) PROVE FitInv'
<1> DEFINE q == requests[r]
           m == q.member
           p == q.item
           i == [View.people[m].has[p] EXCEPT !.serial = q.serial]
           person == [View.people[m] EXCEPT !.has[p] = i]
           w == [View EXCEPT !.people[m] = person]
           q2 == [q EXCEPT !.at = "sync", !.sync = {p}, !.view = w]
<1>1. q.op = "edit" /\ q.at = "write" /\ m # None /\ UnchangedGhosts
  BY DEF EditInMember, At
<1>2. Busy(r)
  BY <1>1, Known
<1>3. /\ ViewSettled(View, SparedNow(q, failed, renamed)) /\ RequestSettled(View, q, failed, renamed)
      /\ q \in Request /\ RequestSound(View, q, astray) /\ View \in ViewType
      /\ View.pool = pool /\ View.people = people
  BY <1>2, AloneKnown
<1>4. p \in Products /\ q.writes = {} /\ q.serial \in Serials \cup {None} /\ m \in Members /\ q.dirty = {}
  BY <1>1, <1>3, RequestFields DEF RequestSound, Phases, RequestSettled
<1>5. View.people[m].has[p] # Absent
  BY <1>1, <1>3, <1>4 DEF RequestSound, EditSees
<1>6. people' = [people EXCEPT ![m].has[p].serial = q.serial] /\ Touch(r, q2, {m}) /\ pool' = pool
  BY <1>4 DEF EditInMember
<1>7. View.people[m] \in Person /\ View.people \in [Members -> Person] /\ View.people[m].has[p] \in Slot
  BY <1>3, <1>4, ViewFields
<1>8. i.serial = q.serial /\ i \in Slot
  <2>1. i.serial = q.serial
    BY <1>5, <1>7, SlotFields DEF Item
  <2> QED  BY <1>4, <1>5, <1>7, <2>1, SerialType
<1>9. people' = [View.people EXCEPT ![m] = person]
  BY <1>3, <1>6
<1>10. Touch(r, q2, {m}) /\ pool' = View.pool
  BY <1>3, <1>6
<1> HIDE DEF i
<1>11. /\ person \in Person /\ person.email = View.people[m].email /\ person.status = View.people[m].status
       /\ \A x \in Products : person.has[x] = IF x = p THEN i ELSE View.people[m].has[x]
  BY <1>4, <1>7, <1>8 DEF Person
<1> HIDE DEF person
<1>12. w \in ViewType /\ w.pool = View.pool /\ w.people = [View.people EXCEPT ![m] = person]
  BY <1>3, <1>4, <1>7, <1>11 DEF ViewType
<1>13. View' = w
  <2>1. w = [pool |-> w.pool, people |-> w.people]
    BY <1>12, ViewFields
  <2> HIDE DEF w
  <2> QED  BY <1>9, <1>10, <1>12, <2>1 DEF View
<1>14. q2.op = "edit" /\ q2.at = "sync" /\ q2.writes = {} /\ q2.dirty = {}
  BY <1>1, <1>3, <1>4 DEF Request, RequestSettled
<1> HIDE DEF w, q2
<1>15. w.people[m] = person /\ \A n \in Members \ {m} : w.people[n] = View.people[n]
  BY <1>4, <1>7, <1>12
<1>16. /\ \A n \in Members : w.people[n].status = View.people[n].status /\ w.people[n].email = View.people[n].email
       /\ \A n \in Members, x \in Products :
             w.people[n].has[x] = IF n = m /\ x = p THEN i ELSE View.people[n].has[x]
  BY <1>11, <1>15
<1>17. \A n \in Members, x \in Products : View.people[n].has[x] = Absent => w.people[n].has[x] = Absent
  BY <1>5, <1>16
<1>18. \A x \in Products, t \in Serials : SerialIn(w, x, t) => SerialIn(View, x, t) \/ (x = p /\ t = q.serial)
  BY <1>8, <1>12, <1>16 DEF SerialIn
<1>19. \A e \in Emails : Waiting(w, e) \subseteq Waiting(View, e)
  BY <1>12 DEF Waiting, Stored
<1>20. q.serial \in Serials \ Spaced => \A x \in Products \ {p} : ~SerialIn(View, x, q.serial)
  BY <1>1, <1>3 DEF RequestSettled, EditsFit
<1>21. ViewSettled(w, SparedNow(q, failed, renamed))
  <2> DEFINE a == SparedNow(q, failed, renamed)
  <2>1. ViewSettled(View, a) /\ p \in Products
    BY <1>3, <1>4
  <2>2. \A n \in Members : w.people[n].status = View.people[n].status /\ w.people[n].email = View.people[n].email
    BY <1>16
  <2> HIDE DEF a, p
  <2>3. ViewSettled(w, a)
    BY <1>17, <1>18, <1>19, <1>20, <2>1, <2>2, SerialSettles
  <2> QED  BY <2>3 DEF a
<1> QED  BY <1>1, <1>2, <1>4, <1>10, <1>13, <1>14, <1>21, EditedSettles

LEMMA DismissWriteSettles ==
    ASSUME IInv, FitInv, Alone, NEW r \in Requests, DismissWrite(r) PROVE FitInv'
<1> DEFINE q == requests[r]
           m == q.member
           person == [View.people[m] EXCEPT !.status = "deleted"]
           w == [View EXCEPT !.people[m] = person]
<1>1. q.op = "dismiss" /\ q.at = "write" /\ UnchangedGhosts
  BY DEF DismissWrite, At
<1>2. Busy(r)
  BY <1>1, Known
<1>3. /\ ViewSettled(View, SparedNow(q, failed, renamed)) /\ RequestSettled(View, q, failed, renamed)
      /\ q \in Request /\ RequestSound(View, q, astray) /\ View \in ViewType
      /\ View.pool = pool /\ View.people = people
  BY <1>2, AloneKnown
<1>4. m \in Members
  BY <1>1, <1>3 DEF RequestSound, Phases
<1>5. people' = [people EXCEPT ![m].status = "deleted"] /\ Touch(r, Idle, {m}) /\ pool' = pool
  BY DEF DismissWrite
<1>6. View.people[m] \in Person /\ View.people \in [Members -> Person]
  BY <1>3, <1>4, ViewFields
<1>7. /\ person \in Person /\ person.email = View.people[m].email /\ person.has = View.people[m].has
      /\ person.status = "deleted"
  BY <1>6 DEF Person
<1>8. people' = [View.people EXCEPT ![m] = person]
  BY <1>3, <1>5
<1> HIDE DEF person
<1>9. w \in ViewType /\ w.pool = View.pool /\ w.people = [View.people EXCEPT ![m] = person]
  BY <1>3, <1>4, <1>6, <1>7 DEF ViewType
<1>10. View' = w
  <2>1. w = [pool |-> w.pool, people |-> w.people]
    BY <1>9, ViewFields
  <2> HIDE DEF w
  <2> QED  BY <1>3, <1>5, <1>8, <1>9, <2>1 DEF View
<1> HIDE DEF w
<1>11. /\ w.people[m].status = "deleted"
       /\ \A n \in Members : /\ w.people[n].has = View.people[n].has /\ w.people[n].email = View.people[n].email
                             /\ n # m => w.people[n] = View.people[n]
  BY <1>4, <1>6, <1>7, <1>9
<1>12. View.people[m].status # "unused" /\ \A p \in Recoverable : View.people[m].has[p] = Absent
  BY <1>1, <1>3 DEF RequestSettled, StaffFit
<1>13. SerialsDiffer(w)
  <2>1. \A p \in Products, s \in Serials : SerialIn(w, p, s) => SerialIn(View, p, s)
    BY <1>9, <1>11 DEF SerialIn
  <2> QED  BY <1>3, <2>1 DEF ViewSettled, SerialsDiffer
<1>14. GivenBack(w)
  BY <1>3, <1>11, <1>12 DEF ViewSettled, GivenBack
<1>15. EmailsDiffer(w)
  <2>1. \A n \in Members : w.people[n].status # "unused" => View.people[n].status # "unused"
    BY <1>11, <1>12
  <2> QED  BY <1>3, <1>11, <2>1 DEF ViewSettled, EmailsDiffer
<1>16. NoneWaits(w, SparedNow(q, failed, renamed))
  <2>1. \A n \in Members : w.people[n].status = "live" => View.people[n].status = "live"
    BY <1>11
  <2>2. \A e : Waiting(w, e) = Waiting(View, e)
    BY <1>9 DEF Waiting, Stored
  <2> QED  BY <1>3, <1>11, <2>1, <2>2 DEF ViewSettled, NoneWaits
<1>17. ViewSettled(w, SparedNow(Idle, failed, renamed))
  <2>1. SparedNow(Idle, failed, renamed) = SparedNow(q, failed, renamed)
    BY <1>1 DEF SparedNow, Idle
  <2> QED  BY <1>13, <1>14, <1>15, <1>16, <2>1 DEF ViewSettled
<1>18. requests'[r] = Idle /\ \A s \in Requests \ {r} : requests'[s] = Idle
  <2>1. PICK q2 : q2 = Idle
    OBVIOUS
  <2> QED  BY <1>2, <1>5, <2>1, TouchAlone
<1>19. RequestSettled(w, Idle, failed, renamed)
  BY IdleSettled
<1> QED  BY <1>1, <1>10, <1>17, <1>18, <1>19, StepSettles DEF UnchangedGhosts

-----------------------------------------------------------------------------
\* Members.

LEMMA AttachedSerials ==
    ASSUME NEW v \in ViewType, NEW m \in Members, NEW e, NEW named
    PROVE  \A p \in Waiting(v, e) : Attached(v, m, e, named).people[m].has[p].serial = v.pool[p].serial
<1> DEFINE S == Waiting(v, e)
           has == [p \in Products |->
                     IF p \in S THEN [v.pool[p] EXCEPT !.named = @ \/ named] ELSE v.people[m].has[p]]
           person == [status |-> "live", email |-> e, has |-> has]
           left == [p \in Products |-> IF p \in S THEN Absent ELSE v.pool[p]]
<1>1. v.people \in [Members -> Person] /\ v = [pool |-> v.pool, people |-> v.people]
  BY ViewFields
<1>2. ASSUME NEW p \in S PROVE has[p].serial = v.pool[p].serial
  <2>1. p \in Products /\ v.pool[p] \in Item
    BY <1>1, ViewFields, SlotFields DEF Waiting, Stored
  <2>2. has[p] = [v.pool[p] EXCEPT !.named = @ \/ named]
    BY <2>1
  <2> QED  BY <2>1, <2>2 DEF Item
<1>3. Attached(v, m, e, named) = [v EXCEPT !.pool = left, !.people[m] = person]
  BY DEF Attached
<1> HIDE DEF left, has
<1>4. Attached(v, m, e, named).people[m].has = has
  BY <1>1, <1>3
<1> QED  BY <1>2, <1>4

\* The member takes all that waits for it, and nobody else has its email.
LEMMA AttachedSettled ==
    ASSUME NEW v \in ViewType, NEW m \in Members, NEW e \in Emails, NEW named \in BOOLEAN, NEW a, NEW b,
           ViewSettled(v, a), Found(v, e) \subseteq {m}, v.people[m].status # "deleted",
           a \subseteq b \cup {m}
    PROVE  ViewSettled(Attached(v, m, e, named), b)
<1> DEFINE S == Waiting(v, e)
           w == Attached(v, m, e, named)
<1>1. AttachedFits(v, m, e, w)
  BY AttachedFields
<1>2. \A p \in S : w.people[m].has[p].serial = v.pool[p].serial
  BY AttachedSerials
<1> HIDE DEF w
<1>3. /\ \A p \in S : w.pool[p] = Absent
      /\ \A p \in Products \ S : w.pool[p] = v.pool[p]
      /\ \A n \in Members \ {m} : w.people[n] = v.people[n]
      /\ w.people[m].status = "live" /\ w.people[m].email = e
      /\ \A p \in Products \ S : w.people[m].has[p] = v.people[m].has[p]
  BY <1>1 DEF AttachedFits
<1>4. SerialsDiffer(w)
  <2>1. ASSUME NEW x \in Products, NEW s \in Serials, SerialIn(w, x, s) PROVE SerialIn(v, x, s)
    <3>1. CASE w.pool[x].serial = s
      BY <1>3, <3>1, NoSerialAbsent DEF SerialIn
    <3>2. ASSUME NEW n \in Members, w.people[n].has[x].serial = s PROVE SerialIn(v, x, s)
      <4>1. CASE n = m /\ x \in S
        BY <1>2, <3>2, <4>1 DEF SerialIn
      <4>2. CASE n # m \/ x \notin S
        BY <1>3, <3>2, <4>2 DEF SerialIn
      <4> QED  BY <4>1, <4>2
    <3> QED  BY <2>1, <3>1, <3>2 DEF SerialIn
  <2> QED  BY <2>1 DEF ViewSettled, SerialsDiffer
<1>5. GivenBack(w)
  BY <1>3 DEF ViewSettled, GivenBack
<1>6. EmailsDiffer(w)
  <2>1. \A n \in Members \ {m} : v.people[n].status # "unused" => v.people[n].email # e
    BY DEF Found
  <2> QED  BY <1>3, <2>1 DEF ViewSettled, EmailsDiffer
<1>7. NoneWaits(w, b)
  <2> SUFFICES ASSUME NEW n \in Members \ b, w.people[n].status = "live", NEW x \in Waiting(w, w.people[n].email)
               PROVE  FALSE
    BY DEF NoneWaits
  <2>1. x \in Products /\ w.pool[x] # Absent /\ w.pool[x].email = w.people[n].email /\ ~w.pool[x].gone
    BY DEF Waiting, Stored
  <2>2. x \notin S /\ w.pool[x] = v.pool[x]
    BY <1>3, <2>1
  <2>3. x \in Waiting(v, w.people[n].email)
    BY <2>1, <2>2 DEF Waiting, Stored
  <2>4. CASE n = m
    BY <1>3, <2>2, <2>3, <2>4
  <2>5. CASE n # m
    <3>1. v.people[n].status = "live" /\ v.people[n].email = w.people[n].email /\ n \in Members \ a
      BY <1>3, <2>5
    <3> QED  BY <2>3, <3>1 DEF ViewSettled, NoneWaits
  <2> QED  BY <2>4, <2>5
<1> QED  BY <1>4, <1>5, <1>6, <1>7 DEF ViewSettled, w

\* A transaction that has written nothing sees what is there.
LEMMA SeesAll ==
    ASSUME IInv, FitInv, Alone, NEW r \in Requests, InTransaction(requests[r]), requests[r].writes = {}
    PROVE  /\ \A p \in Products : requests[r].view.pool[p] = View.pool[p]
           /\ \A m \in Members : requests[r].view.people[m] = View.people[m]
<1>1. Busy(r)
  BY Known DEF InTransaction, Transactions, Moving, Joining
<1>2. \A d \in Docs : Same(requests[r].view, View, d)
  BY <1>1, AloneKnown DEF RequestSettled, Sees
<1> QED  BY <1>2, DocsDiffer DEF Same

LEMMA JoinWriteSettles ==
    ASSUME IInv, FitInv, Alone, NEW r \in Requests, JoinWrite(r) PROVE FitInv'
<1> DEFINE q == requests[r]
           v == q.view
           e == q.email
           S == Waiting(v, e)
           next == IF S = {} THEN "commit" ELSE "sync"
<1>1. q.op = "join" /\ q.at = "work" /\ Stores /\ Ghosts
  BY DEF JoinWrite, At
<1>2. Busy(r)
  BY <1>1, Known
<1>3. /\ RequestSettled(View, q, failed, renamed) /\ q \in Request /\ RequestSound(View, q, astray)
      /\ v \in ViewType /\ View.people = people
  BY <1>2, AloneKnown
<1>4. InTransaction(q) /\ q.writes = {} /\ e \in Emails
  BY <1>1, <1>3 DEF InTransaction, Transactions, Joining, RequestSound, Phases, RequestSettled, StaffFit
<1>5. CASE Abort(r)
  BY <1>1, <1>2, <1>5, AbortSettles
<1>6. ASSUME NEW m \in Members, people[m].status = "unused", Found(View, e) = {},
             Write(r, {m} \cup S, Attached(v, m, e, FALSE), next, S)
      PROVE  FitInv'
  <2> DEFINE w == Attached(v, m, e, FALSE)
             docs == {m} \cup S
             a == SparedThen(q, failed, renamed)
  <2>1. \A n \in Members : v.people[n] = View.people[n]
    BY <1>4, SeesAll
  <2>2. v.people[m].status = "unused" /\ Found(v, e) \subseteq {m}
    BY <1>3, <1>6, <2>1 DEF Found
  <2>3. ViewSettled(v, a)
    BY <1>3, <1>4 DEF RequestSettled, Sees
  <2>4. AttachedMoves(v, m, e, w)
    BY <1>3, <1>4, AttachedHomes, Zenon
  <2>5. Write(r, docs, w, next, S)
    BY <1>6
  <2> HIDE DEF a
  <2>6. ViewSettled(w, a)
    BY <1>3, <1>4, <2>2, <2>3, AttachedSettled
  <2> HIDE DEF w
  <2>7. \A d \in Docs \ docs : Same(w, v, d)
    BY <2>4 DEF AttachedMoves
  <2>8. next \in {"sync", "mark", "commit"} /\ docs # {}
    OBVIOUS
  <2> HIDE DEF docs, next, S
  <2> QED  BY <1>1, <1>4, <2>5, <2>6, <2>7, <2>8, WriteSettles DEF a
<1> QED  BY <1>5, <1>6 DEF JoinWrite, EmailInUse

LEMMA EnrolWriteSettles ==
    ASSUME IInv, FitInv, Alone, NEW r \in Requests, EnrolWrite(r) PROVE FitInv'
<1> DEFINE q == requests[r]
           v == q.view
           e == q.email
<1>1. q.op = "enrol" /\ q.at = "work" /\ Stores /\ Ghosts
  BY DEF EnrolWrite, At
<1>2. Busy(r)
  BY <1>1, Known
<1>3. /\ ViewSettled(View, SparedNow(q, failed, renamed)) /\ RequestSettled(View, q, failed, renamed)
      /\ q \in Request /\ RequestSound(View, q, astray) /\ v \in ViewType /\ View.people = people
  BY <1>2, AloneKnown
<1>4. InTransaction(q) /\ q.writes = {} /\ e \in Emails /\ q.member = None
  BY <1>1, <1>3 DEF InTransaction, Transactions, Joining, RequestSound, Phases, RequestSettled, StaffFit
<1>5. CASE Abort(r)
  BY <1>1, <1>2, <1>4, <1>5, AbortSettles
<1>6. ASSUME NEW m \in Members, people[m].status = "unused", Found(View, e) = {},
             Continue(r, [q EXCEPT !.member = m, !.writes = {m}, !.at = "inserted",
                      !.view.people[m] = [Nobody EXCEPT !.status = "live", !.email = q.email]])
      PROVE  FitInv'
  <2> DEFINE person == [Nobody EXCEPT !.status = "live", !.email = e]
             w == [v EXCEPT !.people[m] = person]
             q2 == [q EXCEPT !.member = m, !.writes = {m}, !.at = "inserted", !.view = w]
             a == SparedThen(q, failed, renamed)
             b == SparedThen(q2, failed, renamed)
  <2>1. person.email = e /\ person.status = "live" /\ \A p \in Products : person.has[p] = Absent
    BY <1>1, NobodyType DEF Person
  <2>2. Continue(r, q2)
    BY <1>6
  <2> HIDE DEF person
  <2>3. w.pool = v.pool /\ w.people[m] = person /\ \A n \in Members \ {m} : w.people[n] = v.people[n]
    BY <1>3 DEF ViewType
  <2> HIDE DEF w
  <2>4. /\ q2.op = "enrol" /\ q2.at = "inserted" /\ q2.member = m /\ q2.email = e /\ q2.dirty = q.dirty
        /\ q2.view = w /\ q2.writes = {m}
    BY <1>1, <1>3 DEF Request
  <2> HIDE DEF q2
  <2>5. /\ \A p \in Products : v.pool[p] = View.pool[p]
        /\ \A n \in Members : v.people[n] = View.people[n]
    BY <1>4, SeesAll
  <2>6. ViewSettled(v, a)
    BY <1>3, <1>4 DEF RequestSettled, Sees
  <2>7. \A n \in Members \ b : n # m /\ n \in Members \ a
    BY <1>1, <1>4, <2>4 DEF SparedThen
  <2>8. SerialsDiffer(w)
    <3>1. \A p \in Products, s \in Serials : SerialIn(w, p, s) => SerialIn(v, p, s)
      BY <2>1, <2>3, NoSerialAbsent DEF SerialIn
    <3> QED  BY <2>6, <3>1 DEF ViewSettled, SerialsDiffer
  <2>9. GivenBack(w)
    BY <2>1, <2>3, <2>6 DEF ViewSettled, GivenBack
  <2>10. EmailsDiffer(w)
    <3>1. \A n \in Members : v.people[n].status # "unused" => v.people[n].email # e
      BY <1>6, <2>5 DEF Found
    <3> QED  BY <1>4, <2>1, <2>3, <2>6, <3>1 DEF ViewSettled, EmailsDiffer
  <2> HIDE DEF a, b
  <2>11. NoneWaits(w, b)
    <3>1. \A n \in Members \ b : w.people[n] = v.people[n]
      BY <2>3, <2>7
    <3>2. \A x : Waiting(w, x) = Waiting(v, x)
      BY <2>3 DEF Waiting, Stored
    <3> QED  BY <2>6, <2>7, <3>1, <3>2 DEF ViewSettled, NoneWaits
  <2>12. ViewSettled(w, b)
    BY <2>8, <2>9, <2>10, <2>11 DEF ViewSettled
  <2>13. \A d \in Docs \ {m} : Same(w, View, d)
    BY <2>3, <2>5 DEF Same
  <2>14. StaffFit(View, q2)
    BY <1>4, <2>1, <2>3, <2>4 DEF StaffFit
  <2>15. FilesFit(View, q2) /\ EditsFit(View, q2)
    BY <2>4 DEF FilesFit, EditsFit, Creating, Supplying
  <2>16. RequestSettled(View, q2, failed, renamed)
    BY <1>3, <2>4, <2>12, <2>13, <2>14, <2>15 DEF RequestSettled, b
  <2>17. ViewSettled(View, SparedNow(q2, failed, renamed))
    <3>1. Members \ SparedNow(q2, failed, renamed) \subseteq Members \ SparedNow(q, failed, renamed)
      BY <1>4, <2>4, NoneIsNoDoc DEF SparedNow
    <3> QED  BY <1>3, <3>1, SettledMore
  <2> QED  BY <1>1, <1>2, <2>2, <2>16, <2>17, ContinueSettles DEF Stores, Ghosts
<1>7. Abort(r) \/ \E m \in Members :
          /\ people[m].status = "unused" /\ Found(View, e) = {}
          /\ Continue(r, [q EXCEPT !.member = m, !.writes = {m}, !.at = "inserted",
                 !.view.people[m] = [Nobody EXCEPT !.status = "live", !.email = q.email]])
  BY DEF EnrolWrite, EmailInUse
<1> QED  BY <1>5, <1>6, <1>7

LEMMA EnrolAttachSettles ==
    ASSUME IInv, FitInv, Alone, NEW r \in Requests, EnrolAttach(r) PROVE FitInv'
<1> DEFINE q == requests[r]
           m == q.member
           e == q.email
           S == Waiting(View, e)
           w == Attached(View, m, e, TRUE)
           q2 == [q EXCEPT !.view = w, !.writes = {m} \cup S, !.sync = S, !.at = "sync"]
           a == SparedNow(q, failed, renamed)
           b == SparedNow(Idle, failed, renamed)
<1>1. q.op = "enrol" /\ q.at = "attach" /\ UnchangedStores /\ UnchangedGhosts
  BY DEF EnrolAttach, At
<1>2. Busy(r)
  BY <1>1, Known
<1>3. /\ ViewSettled(View, a) /\ RequestSettled(View, q, failed, renamed)
      /\ q \in Request /\ RequestSound(View, q, astray) /\ View \in ViewType
      /\ \A s \in Requests \ {r} : requests[s] = Idle
  BY <1>2, AloneKnown
<1>4. /\ m \in Members /\ q.writes = {} /\ e \in Emails
      /\ View.people[m].status = "live" /\ View.people[m].email = e
  BY <1>1, <1>3 DEF RequestSound, Phases, RequestSettled, StaffFit, Joining
<1>5. Writing = {}
  BY <1>3, <1>4, IdleSound DEF Writing
<1>6. (S = {} /\ Finish(r)) \/ Continue(r, q2)
  BY <1>1, <1>3, <1>5 DEF EnrolAttach, Request
<1>7. b = (IF failed THEN Members ELSE renamed) /\ (\A n \in Members \ b : n # m => n \in Members \ a)
      /\ a \cap Members \subseteq b \cup {m}
  BY <1>1, GhostTypes DEF SparedNow, Idle
<1>8. CASE S = {} /\ Finish(r)
  <2>1. NoneWaits(View, b)
    BY <1>3, <1>4, <1>7, <1>8 DEF ViewSettled, NoneWaits
  <2>2. ViewSettled(View, b)
    BY <1>3, <2>1 DEF ViewSettled
  <2> QED  BY <1>1, <1>2, <1>8, <2>2, IdleSettled, ContinueSettles DEF Finish, UnchangedStores, UnchangedGhosts
<1>9. CASE Continue(r, q2)
  <2>1. AttachedMoves(View, m, e, w)
    BY <1>3, <1>4, AttachedHomes, Zenon
  <2>2. /\ q2.op = "enrol" /\ q2.at = "sync" /\ q2.member = m /\ q2.email = e /\ q2.dirty = q.dirty
        /\ q2.view = w /\ q2.writes = {m} \cup S
    BY <1>1, <1>3 DEF Request
  <2>3. Found(View, e) \subseteq {m}
    BY <1>3, <1>4 DEF Found, ViewSettled, EmailsDiffer
  <2>4. a \subseteq b \cup {m}
    BY <1>1, <1>4, GhostTypes DEF SparedNow, Idle
  <2> HIDE DEF a, b
  <2>5. ViewSettled(w, b)
    BY <1>3, <1>4, <2>3, <2>4, AttachedSettled
  <2>6. SparedThen(q2, failed, renamed) = b /\ SparedNow(q2, failed, renamed) = a
    BY <1>1, <2>2 DEF SparedThen, SparedNow, a, b, Idle
  <2> HIDE DEF q2, w
  <2>7. \A d \in Docs \ ({m} \cup S) : Same(w, View, d)
    BY <2>1 DEF AttachedMoves
  <2>8. FilesFit(View, q2) /\ EditsFit(View, q2) /\ StaffFit(View, q2)
    BY <1>4, <2>2 DEF FilesFit, EditsFit, StaffFit, Creating, Supplying, Joining
  <2> HIDE DEF S
  <2>9. RequestSettled(View, q2, failed, renamed)
    BY <1>3, <2>2, <2>5, <2>6, <2>7, <2>8 DEF RequestSettled
  <2> QED  BY <1>1, <1>2, <1>3, <1>9, <2>6, <2>9, ContinueSettles DEF UnchangedStores, UnchangedGhosts
<1> QED  BY <1>6, <1>8, <1>9

LEMMA ReaddressedSerials ==
    ASSUME NEW person \in Person, NEW e
    PROVE  /\ Readdressed(person, e).email = e
           /\ \A p \in Products : Readdressed(person, e).has[p].serial = person.has[p].serial
<1> DEFINE has == [p \in Products |->
                     IF person.has[p] # Absent /\ person.has[p].named /\ person.has[p].email = person.email
                     THEN [person.has[p] EXCEPT !.email = e] ELSE person.has[p]]
<1>1. \A p \in Products : person.has[p] # Absent => person.has[p] \in Item
  BY SlotFields DEF Person
<1>2. \A p \in Products : person.has[p] # Absent => [person.has[p] EXCEPT !.email = e].serial = person.has[p].serial
  BY <1>1 DEF Item
<1>3. \A p \in Products : has[p].serial = person.has[p].serial
  BY <1>2
<1>4. Readdressed(person, e) = [person EXCEPT !.email = e, !.has = has]
  BY DEF Readdressed
<1> HIDE DEF has
<1> QED  BY <1>3, <1>4 DEF Person

LEMMA ReaddressWriteSettles ==
    ASSUME IInv, FitInv, Alone, NEW r \in Requests, ReaddressWrite(r) PROVE FitInv'
<1> DEFINE q == requests[r]
           v == q.view
           m == q.member
           e == q.email
           person == Readdressed(v.people[m], e)
           w == [v EXCEPT !.people[m] = person]
           a == SparedThen(q, failed, renamed)
<1>1. q.op = "readdress" /\ q.at = "work" /\ Stores /\ Ghosts
  BY DEF ReaddressWrite, At
<1>2. Busy(r)
  BY <1>1, Known
<1>3. /\ RequestSettled(View, q, failed, renamed) /\ q \in Request /\ RequestSound(View, q, astray)
      /\ v \in ViewType
  BY <1>2, AloneKnown
<1>4. InTransaction(q) /\ q.writes = {} /\ e \in Emails /\ m \in Members
  BY <1>1, <1>3 DEF InTransaction, Transactions, RequestSound, Phases, RequestSettled, StaffFit
<1>5. CASE Abort(r)
  BY <1>1, <1>2, <1>5, AbortSettles
<1>6. CASE Found(View, e) = {} /\ Write(r, {m}, [v EXCEPT !.people[m] = Readdressed(@, e)], "commit", {})
  <2>1. Write(r, {m}, w, "commit", {})
    BY <1>6
  <2>2. v.people[m] \in Person
    BY <1>3, <1>4, ViewFields
  <2>3. /\ person.status = v.people[m].status /\ person.email = e
        /\ \A p \in Products : /\ person.has[p].serial = v.people[m].has[p].serial
                               /\ v.people[m].has[p] = Absent => person.has[p] = Absent
    BY <1>4, <2>2, ReaddressedFields, ReaddressedSerials
  <2> HIDE DEF person
  <2>4. w.pool = v.pool /\ w.people[m] = person /\ \A n \in Members \ {m} : w.people[n] = v.people[n]
    BY <1>3, <1>4 DEF ViewType
  <2> HIDE DEF w
  <2>5. ViewSettled(v, a)
    BY <1>3, <1>4 DEF RequestSettled, Sees
  <2>6. \A n \in Members \ a : n # m
    BY <1>1, <1>4 DEF SparedThen
  <2> HIDE DEF a
  <2>7. SerialsDiffer(w)
    <3>1. \A p \in Products, s \in Serials : SerialIn(w, p, s) => SerialIn(v, p, s)
      BY <2>3, <2>4 DEF SerialIn
    <3> QED  BY <2>5, <3>1 DEF ViewSettled, SerialsDiffer
  <2>8. GivenBack(w)
    BY <2>3, <2>4, <2>5, ConstantsAssumption DEF ViewSettled, GivenBack
  <2>9. EmailsDiffer(w)
    <3>1. \A n \in Members : v.people[n].status # "unused" => v.people[n].email # e
      <4>1. \A n \in Members : v.people[n] = View.people[n]
        BY <1>4, SeesAll
      <4> QED  BY <1>6, <4>1 DEF Found
    <3> QED  BY <1>4, <2>3, <2>4, <2>5, <3>1 DEF ViewSettled, EmailsDiffer
  <2>10. NoneWaits(w, a)
    <3>1. \A x : Waiting(w, x) = Waiting(v, x)
      BY <2>4 DEF Waiting, Stored
    <3> QED  BY <2>4, <2>5, <2>6, <3>1 DEF ViewSettled, NoneWaits
  <2>11. ViewSettled(w, a)
    BY <2>7, <2>8, <2>9, <2>10 DEF ViewSettled
  <2>12. \A d \in Docs \ {m} : Same(w, v, d)
    BY <2>4 DEF Same
  <2> QED  BY <1>1, <1>4, <2>1, <2>11, <2>12, WriteSettles DEF a
<1> QED  BY <1>5, <1>6 DEF ReaddressWrite, EmailInUse

-----------------------------------------------------------------------------
\* A transaction commits.

LEMMA CommitCases ==
    ASSUME NEW q \in Request, q.at \in {"commit", "inserted"}, NEW q2, q2 = AfterCommit(q)
    PROVE  \/ q2 = Idle /\ ~(q.op = "enrol" /\ q.at = "inserted")
           \/ /\ \/ q.op \in {"import", "supply"} /\ q2.at = "sync"
                 \/ q.op = "offboard" /\ q2.at = "start"
                 \/ q.op = "enrol" /\ q.at = "inserted" /\ q2.at = "attach"
              /\ q2.op = q.op /\ q2.writes = {} /\ q2.member = q.member /\ q2.email = q.email
              /\ q2.dirty = q.dirty
<1>1. CASE q.op \in {"import", "supply"}
  <2>1. q2 = [q EXCEPT !.at = "sync", !.writes = {}]
    BY <1>1 DEF AfterCommit
  <2> QED  BY <1>1, <2>1 DEF Request
<1>2. CASE q.op = "offboard"
  <2>1. q2 = [q EXCEPT !.at = "start", !.writes = {}, !.copied = {}, !.view = NoView]
    BY <1>2 DEF AfterCommit
  <2> QED  BY <1>2, <2>1 DEF Request
<1>3. CASE q.op = "enrol" /\ q.at = "inserted"
  <2>1. q2 = [q EXCEPT !.at = "attach", !.writes = {}, !.view = NoView]
    BY <1>3 DEF AfterCommit
  <2> QED  BY <1>3, <2>1 DEF Request
<1>4. CASE q.op \notin {"import", "supply", "offboard"} /\ ~(q.op = "enrol" /\ q.at = "inserted")
  BY <1>4 DEF AfterCommit
<1> QED  BY <1>1, <1>2, <1>3, <1>4

\* A view is settled if it is another one, document by document.
LEMMA SameSettles ==
    ASSUME NEW v, NEW w, NEW a, ViewSettled(v, a),
           \A p \in Products : w.pool[p] = v.pool[p], \A m \in Members : w.people[m] = v.people[m]
    PROVE  ViewSettled(w, a)
<1>1. \A p \in Products : \A s : SerialIn(w, p, s) <=> SerialIn(v, p, s)
  BY DEF SerialIn
<1>2. \A e : Waiting(w, e) = Waiting(v, e)
  BY DEF Waiting, Stored
<1>3. SerialsDiffer(w)
  BY <1>1 DEF ViewSettled, SerialsDiffer
<1>4. GivenBack(w) /\ EmailsDiffer(w)
  BY DEF ViewSettled, GivenBack, EmailsDiffer
<1>5. NoneWaits(w, a)
  BY <1>2 DEF ViewSettled, NoneWaits
<1> QED  BY <1>3, <1>4, <1>5 DEF ViewSettled

LEMMA CommitSettles ==
    ASSUME IInv, FitInv, Alone, NEW r \in Requests, Commit(r) PROVE FitInv'
<1> DEFINE q == requests[r]
           q2 == AfterCommit(q)
           w == View'
           a == SparedThen(q, failed, renamed)
           c == SparedNow(q2, failed', renamed')
<1>1. q.at \in {"commit", "inserted"} /\ failed' = failed /\ traffic' = traffic
  BY DEF Commit
<1>2. Busy(r)
  BY <1>1 DEF Busy, Idle
<1>3. /\ RequestSettled(View, q, failed, renamed) /\ q \in Request /\ RequestSound(View, q, astray)
      /\ q.writes \subseteq Docs
  BY <1>2, AloneKnown, RequestFields
<1>4. ViewSettled(q.view, a) /\ \A d \in Docs \ q.writes : Same(q.view, View, d)
  BY <1>1, <1>3 DEF RequestSettled, Sees
<1>5. /\ \A p \in Products : w.pool[p] = IF p \in q.writes THEN q.view.pool[p] ELSE View.pool[p]
      /\ \A m \in Members : w.people[m] = IF m \in q.writes THEN q.view.people[m] ELSE View.people[m]
  BY DEF Commit, View
<1>6. requests'[r] = q2 /\ \A s \in Requests \ {r} : requests'[s] = Idle
  <2>1. Touch(r, q2, q.writes)
    BY DEF Commit
  <2> HIDE DEF q2
  <2> QED  BY <1>2, <2>1, TouchAlone
<1>7. renamed' = IF q.op = "readdress" THEN renamed \cup {q.member} ELSE renamed
  BY DEF Commit
<1> HIDE DEF w
<1>8. /\ \A p \in Products : w.pool[p] = q.view.pool[p]
      /\ \A m \in Members : w.people[m] = q.view.people[m]
  BY <1>4, <1>5, DocsDiffer DEF Same
<1>9. ViewSettled(w, a)
  BY <1>4, <1>8, SameSettles
<1>10. \/ q2 = Idle /\ ~(q.op = "enrol" /\ q.at = "inserted")
       \/ /\ \/ q.op \in {"import", "supply"} /\ q2.at = "sync"
             \/ q.op = "offboard" /\ q2.at = "start"
             \/ q.op = "enrol" /\ q.at = "inserted" /\ q2.at = "attach"
          /\ q2.op = q.op /\ q2.writes = {} /\ q2.member = q.member /\ q2.email = q.email
          /\ q2.dirty = q.dirty
  BY <1>1, <1>3, CommitCases
<1> HIDE DEF q2
<1>11. Members \ c \subseteq Members \ a
  BY <1>1, <1>7, <1>10 DEF a, c, SparedThen, SparedNow
<1> HIDE DEF a, c
<1>12. ViewSettled(w, c)
  BY <1>9, <1>11, SettledMore
<1>13. RequestSettled(w, q2, failed', renamed')
  <2>1. CASE q2 = Idle
    BY <2>1, IdleSettled
  <2>2. CASE /\ \/ q.op \in {"import", "supply"} /\ q2.at = "sync"
                \/ q.op = "offboard" /\ q2.at = "start"
                \/ q.op = "enrol" /\ q.at = "inserted" /\ q2.at = "attach"
             /\ q2.op = q.op /\ q2.writes = {} /\ q2.member = q.member /\ q2.email = q.email
             /\ q2.dirty = q.dirty
    <3>1. ~Sees(q2)
      BY <2>2 DEF Sees, InTransaction, Transactions, Moving, Joining
    <3>2. FilesFit(w, q2)
      BY <1>3, <2>2 DEF RequestSettled, FilesFit, Creating, Supplying
    <3>3. EditsFit(w, q2)
      BY <2>2 DEF EditsFit
    <3>4. q.op = "offboard" => w.people[q.member].status # "unused"
      <4>1. q.op = "offboard" => q.member \in Members
        BY <1>3 DEF RequestSound, Phases
      <4>2. q.op = "offboard" => View.people[q.member].status # "unused"
        BY <1>3 DEF RequestSettled, StaffFit
      <4>3. q.member \in Members /\ q.member \in q.writes /\ q.op = "offboard" => q.view.people[q.member].status # "unused"
        BY <1>3 DEF RequestSound, MembersUsed
      <4> QED  BY <1>5, <4>1, <4>2, <4>3
    <3>5. q.op = "enrol" /\ q.at = "inserted" =>
              w.people[q.member].status = "live" /\ w.people[q.member].email = q.email /\ q.email \in Emails
      <4>1. q.at = "inserted" => q.member \in Members
        BY <1>3 DEF RequestSound, Phases
      <4> QED  BY <1>3, <1>8, <4>1 DEF RequestSettled, StaffFit, Joining
    <3>6. StaffFit(w, q2)
      BY <2>2, <3>4, <3>5 DEF StaffFit, Joining
    <3> QED  BY <1>3, <2>2, <3>1, <3>2, <3>3, <3>6 DEF RequestSettled
  <2> QED  BY <1>10, <2>1, <2>2
<1> QED  BY <1>1, <1>6, <1>12, <1>13, StepSettles DEF w, c

-----------------------------------------------------------------------------
\* The first state, and the whole.

LEMMA EmployedEmails ==
    ASSUME NEW w \in Employed, NEW m \in Members, w[m].status # "unused"
    PROVE  /\ w[m].status = "live" /\ w[m].email \in Emails
           /\ \A n \in Members : w[n].status # "unused" /\ w[n].email = w[m].email => n = m
<1>1. PICK e \in {f \in [Members -> Emails \cup {None}] :
                    \A i, n \in Members : f[i] = f[n] /\ f[i] # None => i = n} :
          w = [n \in Members |-> IF e[n] = None THEN Nobody ELSE [Nobody EXCEPT !.status = "live", !.email = e[n]]]
  BY DEF Employed
<1>2. ASSUME NEW x \in Emails \cup {None}
      PROVE  LET y == [Nobody EXCEPT !.status = "live", !.email = x] IN y.status = "live" /\ y.email = x
  BY NobodyType DEF Person
<1>3. \A n \in Members : w[n].status # "unused" => e[n] # None /\ w[n].status = "live" /\ w[n].email = e[n]
  BY <1>1, <1>2, NobodyType
<1> QED  BY <1>1, <1>3

\* Nothing is stored, and those who are there are live and have emails of their own.
LEMMA EmptySettled ==
    ASSUME NEW v, NEW a, v.pool = NoView.pool,
           \A m \in Members, p \in Products : v.people[m].has[p] = Absent,
           \A m \in Members : v.people[m].status # "unused" =>
              /\ v.people[m].status = "live" /\ v.people[m].email \in Emails
              /\ \A n \in Members : v.people[n].status # "unused" /\ v.people[n].email = v.people[m].email => n = m
    PROVE  ViewSettled(v, a)
<1>1. \A p \in Products : v.pool[p] = Absent
  BY NoViewType
<1>2. SerialsDiffer(v)
  BY <1>1, NoSerialAbsent DEF SerialsDiffer, SerialIn
<1>3. GivenBack(v)
  BY DEF GivenBack
<1>4. EmailsDiffer(v)
  BY DEF EmailsDiffer
<1>5. NoneWaits(v, a)
  BY <1>1 DEF NoneWaits, Waiting, Stored
<1> QED  BY <1>2, <1>3, <1>4, <1>5 DEF ViewSettled

LEMMA InitFit == ASSUME Init PROVE FitInv
<1>1. PICK v \in CASE traffic = "assets"   -> {[NoView EXCEPT !.people = w] :
                                                 w \in {x \in Employed : \A m \in Members : x[m] # Nobody}}
                   [] traffic = "staff"    -> {NoView}
                   [] traffic = "together" -> Stocked :
          pool = v.pool /\ people = v.people
  BY DEF Init
<1>2. traffic \in {"assets", "staff", "together"}
  BY ConstantsAssumption DEF Init
<1>3. \A r \in Requests : requests[r] = Idle
  BY DEF Init
<1> SUFFICES ASSUME Alone PROVE ViewSettled(View, SparedIn(requests, failed, renamed))
  BY <1>3, IdleSettled DEF FitInv
<1>4. v = NoView \/ \E w \in Employed : v = [NoView EXCEPT !.people = w]
  BY <1>1, <1>2 DEF Alone
<1>5. CASE v = NoView
  BY <1>1, <1>5, NoViewType, NobodyType, EmptySettled DEF View
<1>6. ASSUME NEW w \in Employed, v = [NoView EXCEPT !.people = w]
      PROVE  ViewSettled(View, SparedIn(requests, failed, renamed))
  <2>1. View.pool = NoView.pool /\ View.people = w
    BY <1>1, <1>6, NoViewType DEF View, ViewType
  <2>2. \A m \in Members, p \in Products : w[m].has[p] = Absent
    BY EmployedType
  <2>3. \A m \in Members : w[m].status # "unused" =>
          /\ w[m].status = "live" /\ w[m].email \in Emails
          /\ \A n \in Members : w[n].status # "unused" /\ w[n].email = w[m].email => n = m
    BY EmployedEmails
  <2> QED  BY <2>1, <2>2, <2>3, EmptySettled
<1> QED  BY <1>4, <1>5, <1>6

LEMMA NextSettles == ASSUME ProductsAssumption, IInv, FitInv, [Next]_vars PROVE FitInv'
<1>1. traffic' = traffic
  BY DEF Next, vars, Arrive, Fail, Step, Begin, Sync, Commit, CreateLook, CreateWrite, ImportLook, ImportWrite,
         StockLook, StockWrite, SupplyLook, SupplyWrite, EditLook, EditInPool, EditInMember, MoveItem,
         DeleteWrite, DeleteMark, DeleteDetach, JoinWrite, EnrolWrite, EnrolAttach, ReaddressWrite,
         DismissLook, DismissWrite, UnchangedGhosts, Ghosts
<1>2. CASE ~Alone
  BY <1>1, <1>2 DEF FitInv, Alone
<1>3. CASE UNCHANGED vars
  <2>1. View' = View /\ requests' = requests /\ failed' = failed /\ renamed' = renamed /\ Alone' = Alone
    BY <1>3 DEF vars, View, Alone
  <2> QED  BY <2>1 DEF FitInv
<1>4. ASSUME Alone, NEW r \in Requests, Arrive(r) PROVE FitInv'
  BY <1>4, ArriveSettles
<1>5. ASSUME Alone, NEW r \in Requests, Fail(r) PROVE FitInv'
  BY <1>5, FailSettles
<1>6. ASSUME Alone, NEW r \in Requests, Step(r) PROVE FitInv'
  <2>1. CASE Begin(r) \/ Sync(r) \/ Commit(r)
    BY <1>6, <2>1, BeginSettles, SyncSettles, CommitSettles
  <2>2. CASE CreateLook(r) \/ CreateWrite(r) \/ ImportLook(r) \/ ImportWrite(r)
    BY <1>6, <2>2, CreateLookSettles, CreateWriteSettles, ImportWriteSettles
  <2>3. CASE StockLook(r) \/ StockWrite(r) \/ SupplyLook(r) \/ SupplyWrite(r)
    BY <1>6, <2>3, StockLookSettles, StockWriteSettles, SupplyWriteSettles
  <2>4. CASE EditLook(r) \/ EditInPool(r) \/ EditInMember(r)
    BY <1>6, <2>4, EditLookSettles, EditInPoolSettles, EditInMemberSettles
  <2>5. CASE MoveItem(r)
    BY <1>6, <2>5, MoveItemSettles
  <2>6. CASE DeleteWrite(r) \/ DeleteMark(r) \/ DeleteDetach(r)
    BY <1>6, <2>6, DeleteWriteSettles, DeleteMarkSettles, DeleteDetachSettles
  <2>7. CASE JoinWrite(r) \/ EnrolWrite(r) \/ EnrolAttach(r) \/ ReaddressWrite(r)
    BY <1>6, <2>7, JoinWriteSettles, EnrolWriteSettles, EnrolAttachSettles, ReaddressWriteSettles
  <2>8. CASE DismissLook(r) \/ DismissWrite(r)
    BY <1>6, <2>8, DismissLookSettles, DismissWriteSettles
  <2> QED  BY <1>6, <2>1, <2>2, <2>3, <2>4, <2>5, <2>6, <2>7, <2>8 DEF Step
<1> QED  BY <1>2, <1>3, <1>4, <1>5, <1>6 DEF Next

\* What the invariant says of the collections is what the run checks.
LEMMA FitSuffices == ASSUME IInv, FitInv PROVE ProductsFit
<1>1. TypeOK /\ View.pool = pool /\ View.people = people
  BY ViewType_View DEF IInv
<1>2. Alone => ViewSettled(View, SparedIn(requests, failed, renamed))
  BY DEF FitInv
<1>3. SerialUnique
  <2> SUFFICES ASSUME Alone, NEW p \in Products, NEW x \in Products,
                      NEW i \in {pool[p]} \cup {people[m].has[p] : m \in Members},
                      NEW j \in {pool[x]} \cup {people[m].has[x] : m \in Members},
                      i.serial \notin Spaced \cup {None}, i.serial = j.serial
               PROVE  p = x
    BY DEF SerialUnique
  <2>1. i \in Slot
    <3>1. pool[p] \in Slot /\ \A m \in Members : people[m].has[p] \in Slot
      BY <1>1 DEF TypeOK, Person
    <3> QED  BY <3>1
  <2>2. i.serial \in Serials \ Spaced
    BY <2>1, NoSerialAbsent DEF Slot, Item
  <2>3. SerialIn(View, p, i.serial) /\ SerialIn(View, x, i.serial)
    BY <1>1 DEF SerialIn
  <2> QED  BY <1>2, <2>2, <2>3 DEF ViewSettled, SerialsDiffer
<1>4. NothingLost
  BY <1>1, <1>2 DEF NothingLost, ViewSettled, GivenBack
<1>5. WaitingAreAttached
  <2> SUFFICES ASSUME Alone, Quiet, ~failed, NEW m \in Members \ renamed, people[m].status = "live"
               PROVE  Waiting(View, people[m].email) = {}
    BY DEF WaitingAreAttached, LiveMembers
  <2>1. \A r \in Requests : requests[r].op # "enrol"
    BY DEF Quiet, Busy, Idle
  <2>2. m \notin SparedIn(requests, failed, renamed)
    BY <2>1 DEF SparedIn
  <2> QED  BY <1>1, <1>2, <2>2 DEF ViewSettled, NoneWaits
<1> QED  BY <1>1, <1>3, <1>4, <1>5 DEF ProductsFit

\* Products and members fit together, for any number of products, members and requests,
\* when requests come one after the other and fail at any step: no two products have one
\* serial number, unless it is typed with blanks around it, no member is deleted with a product that must be given back, and no
\* product in the pool waits for a member that is there.
THEOREM ProductsAlwaysFit == ProductsAssumption => (Spec => []ProductsFit)
<1> SUFFICES ASSUME ProductsAssumption PROVE Spec => []ProductsFit
  OBVIOUS
<1> DEFINE Inv == IInv /\ FitInv
<1>1. Init => Inv
  BY InitIInv, InitFit
<1>2. Inv /\ [Next]_vars => Inv'
  <2>1. Inv /\ [Next]_vars => IInv'
    BY NextIInv DEF ProductsAssumption
  <2>2. Inv /\ [Next]_vars => FitInv'
    BY NextSettles
  <2> QED  BY <2>1, <2>2
<1>3. Inv => ProductsFit
  BY FitSuffices
<1> HIDE DEF Inv
<1> QED  BY <1>1, <1>2, <1>3, PTL DEF Spec

=============================================================================
