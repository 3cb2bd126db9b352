------------------------------- MODULE Catalog -------------------------------
(***************************************************************************)
(* Where the products of one tenant are stored: a product is a document of *)
(* its own in the pool (the products collection) or an element of the      *)
(* array products of a member, and a copy of it stands in the global       *)
(* collection of another database. From products.service.ts,               *)
(* assignments.service.ts, members.service.ts and                          *)
(* global-product-sync.service.ts.                                         *)
(*                                                                         *)
(* Most handlers work in a MongoDB transaction: they read a snapshot, the  *)
(* first to write a document keeps it until it ends, and whoever writes a  *)
(* document that changed since its snapshot is aborted. The copies are     *)
(* written from within, but are no part of the transaction. Shipments,     *)
(* warehouses and offices of a product are the business of other modules.  *)
(***************************************************************************)
EXTENDS Naturals, FiniteSets

CONSTANTS
    Products,      \* ids MongoDB may hand out to products; none is used twice
    Recoverable,   \* those that must be given back
    Members,       \* ids of members
    Emails, Serials,
    None,          \* no email, serial number, product or member
    Invented,      \* an id made up for a member
    Requests,      \* requests that may be in flight at the same time
    Addresses,     \* whose email a body may name
    Spaced,        \* serial numbers that are sometimes typed with blanks around them
    Traffic,       \* how requests may arrive in a run
    Operations     \* the kinds of request that arrive in each traffic

Moving         == {"move", "return", "bulk", "offboard"}
Creating       == {"create", "import"}
Supplying      == {"stock", "supply"}     \* a superadmin's, of one product or two
Joining        == {"join", "enrol"}
OperationKinds == Moving \cup Creating \cup Supplying \cup Joining
                      \cup {"edit", "delete", "readdress", "dismiss"}

ASSUME ConstantsAssumption ==
    /\ Recoverable \subseteq Products
    /\ Products \cap Members = {}
    /\ {None, Invented} \cap (Products \cup Members \cup Emails \cup Serials) = {}
    /\ None # Invented
    /\ Addresses \subseteq {"live", "deleted", "unknown"}
    /\ Spaced \subseteq Serials
    /\ Traffic \subseteq {"assets", "staff", "together"}
    /\ Operations \in [Traffic -> SUBSET OperationKinds]

VARIABLES
    pool,      \* the documents of the products collection
    people,    \* the documents of the members collection
    copies,    \* the documents of the global collection
    requests,  \* what every request is doing
    failed,    \* has a request died or failed half-way?
    undone,    \* products copied by a transaction that did not commit
    astray,    \* products once embedded under another email than the member's
    renamed,   \* members whose email was changed
    traffic    \* the arrivals this behaviour has

vars == <<pool, people, copies, requests, failed, undone, astray, renamed, traffic>>

-----------------------------------------------------------------------------
\* Values.

\* An asset as either collection stores it: assignedEmail, whether
\* assignedMember is the name of its member, the serial number, isDeleted.
Item   == [email : Emails \cup {None}, named : BOOLEAN, serial : Serials \cup {None}, gone : BOOLEAN]
Absent == [email |-> None, named |-> FALSE, serial |-> None, gone |-> FALSE, absent |-> TRUE]
Slot   == Item \cup {Absent}
Person == [status : {"unused", "live", "deleted"}, email : Emails \cup {None}, has : [Products -> Slot]]
Copy   == [source : {"none", "products", "members"}, holder : Members \cup {None, Invented},
           serial : Serials \cup {None}, gone : BOOLEAN]

\* What a transaction sees: its snapshot with its own writes.
View    == [pool |-> pool, people |-> people]
Nobody  == [status |-> "unused", email |-> None, has |-> [p \in Products |-> Absent]]
NoView  == [pool |-> [p \in Products |-> Absent], people |-> [m \in Members |-> Nobody]]
Docs    == Products \cup Members

Idle == [op |-> "none", at |-> "start", item |-> None, todo |-> {}, member |-> None,
         email |-> None, serial |-> None, typed |-> "exact", view |-> NoView, dirty |-> {}, writes |-> {},
         sync |-> {}, copied |-> {}]

Request ==
    [op : OperationKinds \cup {"none"},
     at : {"start", "insert", "write", "work", "sync", "mark", "detach", "inserted", "commit", "attach", "dismiss"},
     item : Products \cup {None}, todo : SUBSET Products, member : Members \cup {None},
     email : Emails \cup {None}, serial : Serials \cup {None}, typed : {"exact", "padded"},
     view : [pool : [Products -> Slot], people : [Members -> Person]],
     dirty : SUBSET Docs, writes : SUBSET Docs, sync : SUBSET Products, copied : SUBSET Products]

Stored(v, p)  == v.pool[p] # Absent
Holders(v, p) == {m \in Members : v.people[m].has[p] # Absent}
\* findOne by email finds deleted members too.
Found(v, e)   == {m \in Members : v.people[m].status # "unused" /\ v.people[m].email = e}
Writing       == UNION {requests[r].writes : r \in Requests}
Fresh         == {p \in Products : ~Stored(View, p) /\ Holders(View, p) = {}} \ Writing

Busy(r) == requests[r] # Idle
Quiet   == \A r \in Requests : ~Busy(r)

\* Requests that overlap may find members that are there already.
Employed ==
    {[m \in Members |-> IF e[m] = None THEN Nobody ELSE [Nobody EXCEPT !.status = "live", !.email = e[m]]] :
        e \in {f \in [Members -> Emails \cup {None}] : \A m, n \in Members : f[m] = f[n] /\ f[m] # None => m = n}}

\* ... and a product, in the pool, waiting for a member, or with one; its copy is to come.
Stocked ==
    LET at(e, named) == [email |-> e, named |-> named, serial |-> None, gone |-> FALSE] IN
    {[pool |-> [NoView.pool EXCEPT ![p] = at(e, FALSE)], people |-> w] :
        p \in Products, e \in Emails \cup {None}, w \in Employed}
    \cup
    {[pool |-> NoView.pool, people |-> [w EXCEPT ![m].has[p] = at(w[m].email, TRUE)]] :
        p \in Products, m \in Members, w \in Employed}

\* One request at a time, or two.
Alone == traffic # "together"

Init ==
    /\ traffic \in Traffic
    /\ \E v \in CASE traffic = "assets"   -> {[NoView EXCEPT !.people = w] :
                                                 w \in {x \in Employed : \A m \in Members : x[m] # Nobody}}
                 [] traffic = "staff"    -> {NoView}
                 [] traffic = "together" -> Stocked :
          /\ pool = v.pool /\ people = v.people
          /\ \A p \in Products, m \in Members :
                /\ people[m].has[p] # Absent => people[m].status = "live"
                /\ Stored(v, p) => Found(v, pool[p].email) = {}
    /\ copies = [p \in Products |-> [source |-> "none", holder |-> None, serial |-> None, gone |-> FALSE]]
    /\ requests = [r \in Requests |-> Idle]
    /\ failed = FALSE /\ undone = {} /\ astray = {} /\ renamed = {}

-----------------------------------------------------------------------------
\* Requests.

At(r, ops, at) == requests[r].op \in ops /\ requests[r].at = at

Continue(r, q) == requests' = [requests EXCEPT ![r] = q]
Finish(r)      == Continue(r, Idle)

\* The request r goes on as q after it wrote docs, which the others did not see.
\* An element set in place, or a flag, does not move the elements of an array,
\* which is all that a save outside a transaction compares.
InPlace == {"edit", "dismiss"}
Touch(r, q, docs) ==
    requests' = [s \in Requests |->
        IF s = r THEN q
        ELSE IF requests[s] = Idle \/ {requests[r].op, requests[s].op} \subseteq InPlace THEN requests[s]
        ELSE [requests[s] EXCEPT !.dirty = @ \cup docs]]

\* A transaction that cannot go on ends; its copies stay as it wrote them.
Abort(r) == Finish(r) /\ undone' = undone \cup requests[r].copied

UnchangedStores == UNCHANGED <<pool, people, copies>>
UnchangedGhosts == UNCHANGED <<failed, undone, astray, renamed, traffic>>

\* Mutant: what others write does not matter.
ConflictNever(r, docs) == FALSE

\* Somebody else has, or has had, one of the documents since the snapshot.
Conflict(r, docs) ==
    docs \cap (requests[r].dirty \cup UNION {requests[s].writes : s \in Requests \ {r}}) # {}

Named(e) ==
    \/ e = None
    \/ "live" \in Addresses /\ \E m \in Found(View, e) : people[m].status = "live"
    \/ "deleted" \in Addresses /\ \E m \in Found(View, e) : people[m].status = "deleted"
    \/ "unknown" \in Addresses /\ Found(View, e) = {}

Listed == {p \in Products : Stored(View, p) /\ ~pool[p].gone}
              \cup {p \in Products : \E m \in Holders(View, p) : people[m].status = "live" /\ ~people[m].has[p].gone}
LiveMembers == {m \in Members : people[m].status = "live"}

\* What the controllers let in. Products and members are chosen from a list.
BodyItems(op)   == IF op \in {"edit", "delete"} THEN Listed ELSE {None}
BodyTodos(op)   == CASE op \in {"move", "return"} -> {{x} : x \in Listed}
                     [] op = "bulk" -> {x \in SUBSET Listed : Cardinality(x) = 2}
                     [] op = "offboard" -> SUBSET Listed
                     [] OTHER -> {{}}
BodyMembers(op) == IF op \in {"offboard", "readdress", "dismiss"} THEN LiveMembers ELSE {None}
BodyEmails(op)  == CASE op \in Creating -> {x \in Emails \cup {None} : Named(x)}
                     [] op \in Joining \cup {"readdress"} -> Emails
                     [] OTHER -> {None}
\* Bound: serial numbers are given in one traffic, whose requests come alone.
BodySerials(op) == IF op \in Creating \cup Supplying \cup {"edit"} /\ traffic = "assets"
                   THEN Serials \cup {None} ELSE {None}
\* Bound: imports and edits, which store a number as it comes, get it without blanks.
BodyTypings(op) == IF op \in Supplying \cup {"create"} THEN {"exact", "padded"} ELSE {"exact"}

Body(op, p, t, m, e, s, k) ==
    [Idle EXCEPT !.op = op, !.item = p, !.todo = t, !.member = m, !.email = e, !.serial = s, !.typed = k]
Bodies(op) ==
    {Body(op, p, t, m, e, s, k) :
        p \in BodyItems(op), t \in BodyTodos(op), m \in BodyMembers(op),
        e \in BodyEmails(op), s \in BodySerials(op), k \in BodyTypings(op)}

Arrive(r) ==
    /\ ~Busy(r)
    /\ Alone => Quiet
    /\ \E op \in Operations[traffic] : \E q \in Bodies(op) :
          /\ op = "offboard" => \A p \in q.todo : people[q.member].has[p] # Absent
          /\ q.typed = "padded" => q.serial \in Spaced
          /\ Continue(r, q)
    /\ UnchangedStores /\ UnchangedGhosts

-----------------------------------------------------------------------------
\* The copy in the global collection.

\* syncProduct keeps the serial number when none is given, and forgets it only
\* when it is told to.
Copied(old, source, holder, item, cleared) ==
    [source |-> source, holder |-> holder, gone |-> item.gone,
     serial |-> IF cleared THEN None ELSE IF item.serial # None THEN item.serial ELSE old.serial]

\* Who calls decides what it says about the place of the product: a member that
\* is just being created is given an id that was made up, and an import takes an
\* email for a member.
SyncedBy(q, p) ==
    LET inPool == Stored(q.view, p)
        m      == CHOOSE x \in Holders(q.view, p) : TRUE
        item   == IF inPool THEN q.view.pool[p] ELSE q.view.people[m].has[p]
        source == CASE q.op = "join"   -> "products"
                    [] q.op = "import" -> IF item.email # None THEN "members" ELSE "products"
                    [] OTHER           -> IF inPool THEN "products" ELSE "members"
        holder == IF inPool THEN None ELSE IF q.op = "join" THEN Invented ELSE m
    IN  Copied(copies[p], source, holder, item, q.op = "edit" /\ q.serial = None)

\* One call after the other, and on to whatever the request has left to do.
Sync(r) ==
    /\ requests[r].at = "sync"
    /\ LET q == requests[r] IN
       \E p \in q.sync :
          /\ copies' = [copies EXCEPT ![p] = SyncedBy(q, p)]
          /\ IF q.sync # {p} THEN Continue(r, [q EXCEPT !.sync = @ \ {p}, !.copied = @ \cup {p}])
             ELSE IF q.writes = {} THEN Finish(r)
             ELSE Continue(r, [q EXCEPT !.sync = {}, !.copied = @ \cup {p},
                                  !.at = IF q.op = "bulk" /\ q.todo # {} THEN "work" ELSE "commit"])
    /\ UNCHANGED <<pool, people>> /\ UnchangedGhosts

-----------------------------------------------------------------------------
\* Transactions.

Transactions == Moving \cup Joining \cup {"delete", "readdress"}

Begin(r) ==
    /\ At(r, Transactions, "start")
    /\ Continue(r, [requests[r] EXCEPT !.view = View, !.dirty = {},
           !.at = IF @ = "start" /\ requests[r].op = "offboard" /\ requests[r].todo = {}
                  THEN "dismiss" ELSE "work"])
    /\ UnchangedStores /\ UnchangedGhosts

\* The transaction writes docs, its view becomes view, and it goes on at at.
Write(r, docs, view, at, sync) ==
    IF Conflict(r, docs) THEN Abort(r)
    ELSE /\ Continue(r, [requests[r] EXCEPT !.writes = @ \cup docs, !.view = view,
                !.at = at, !.sync = sync, !.todo = @ \ sync])
         /\ UNCHANGED undone

Stores    == pool' = pool /\ people' = people /\ copies' = copies
Ghosts    == UNCHANGED <<failed, astray, renamed, traffic>>

\* What is next once the writes are in the database.
AfterCommit(q) ==
    CASE q.op \in {"import", "supply"}       -> [q EXCEPT !.at = "sync", !.writes = {}]
      [] q.op = "offboard"                   -> [q EXCEPT !.at = "start", !.writes = {}, !.copied = {}, !.view = NoView]
      [] q.op = "enrol" /\ q.at = "inserted" -> [q EXCEPT !.at = "attach", !.writes = {}, !.view = NoView]
      [] OTHER                               -> Idle

Commit(r) ==
    /\ requests[r].at \in {"commit", "inserted"}
    /\ LET q == requests[r] IN
          /\ pool' = [p \in Products |-> IF p \in q.writes THEN q.view.pool[p] ELSE pool[p]]
          /\ people' = [m \in Members |-> IF m \in q.writes THEN q.view.people[m] ELSE people[m]]
          /\ Touch(r, AfterCommit(q), q.writes)
          /\ astray' = astray \cup {p \in Products : \E m \in Members :
                                        people'[m].has[p] # Absent /\ people'[m].has[p].email # people'[m].email}
          /\ renamed' = IF q.op = "readdress" THEN renamed \cup {q.member} ELSE renamed
    /\ UNCHANGED <<copies, failed, undone, traffic>>

-----------------------------------------------------------------------------
\* Creating products.

\* The unique index of the pool. As a mutant of Taken: the products of members are
\* not looked at.
TakenInPool(s) == s # None /\ \E p \in Products : Stored(View, p) /\ pool[p].serial = s

\* The number is looked up in both collections; a product without one is not.
Taken(s) ==
    /\ s # None
    /\ \/ \E p \in Products : Stored(View, p) /\ pool[p].serial = s
       \/ \E m \in Members, p \in Products : people[m].has[p] # Absent /\ people[m].has[p].serial = s

\* The member that has the email, if any, for a request whose serial number is free.
Owned(r) ==
    LET q == requests[r] IN
    \E m \in IF Found(View, q.email) = {} THEN {None} ELSE Found(View, q.email) :
        Continue(r, [q EXCEPT !.at = "insert", !.member = IF q.email = None THEN None ELSE m])

\* A serial number with blanks around it is looked up as it is, and stored
\* without them.
Overlooked(q) == q.typed = "padded" \/ ~Taken(q.serial)

CreateLook(r) ==
    /\ At(r, {"create"}, "start")
    /\ IF Overlooked(requests[r]) THEN Owned(r) ELSE Finish(r)
    /\ UnchangedStores /\ UnchangedGhosts

\* An import looks every serial number up before it writes the first product.
ImportLook(r) ==
    /\ At(r, {"import"}, "start")
    /\ IF Taken(requests[r].serial) THEN Finish(r) ELSE Owned(r)
    /\ UnchangedStores /\ UnchangedGhosts

\* The new product p, in the pool or with the member; and the documents it takes.
Filed(q, p) ==
    LET item == [email |-> q.email, named |-> q.member # None, serial |-> q.serial, gone |-> FALSE] IN
    IF q.member = None THEN [View EXCEPT !.pool[p] = item]
    ELSE [View EXCEPT !.people[q.member].has[p] = item]
FiledIn(q, p) == IF q.member = None THEN {p} ELSE {p, q.member}

\* The pool has a unique index on serial numbers, the arrays have none. A push
\* compares nothing, it waits for a transaction that has the member.
Refused(q) == q.member = None /\ TakenInPool(q.serial)

CreateWrite(r) ==
    /\ At(r, {"create"}, "insert")
    /\ LET q == requests[r] IN
       IF Refused(q) THEN Finish(r) /\ UnchangedStores
       ELSE \E p \in Fresh :
               /\ FiledIn(q, p) \cap Writing = {}
               /\ pool' = Filed(q, p).pool /\ people' = Filed(q, p).people
               /\ Touch(r, [q EXCEPT !.view = Filed(q, p), !.sync = {p}, !.at = "sync"], FiledIn(q, p))
               /\ UNCHANGED copies
    /\ UnchangedGhosts

\* A save in a transaction does not wait.
ImportWrite(r) ==
    /\ At(r, {"import"}, "insert")
    /\ LET q == requests[r] IN
       IF Refused(q) \/ q.member \in Writing THEN Finish(r)
       ELSE \E p \in Fresh :
               Continue(r, [q EXCEPT !.view = Filed(q, p), !.sync = {p}, !.at = "commit", !.writes = FiledIn(q, p)])
    /\ UnchangedStores /\ UnchangedGhosts

-----------------------------------------------------------------------------
\* Creating products for a tenant from above: they start in the pool.

StockLook(r) ==
    /\ At(r, {"stock"}, "start")
    /\ IF Overlooked(requests[r]) THEN Continue(r, [requests[r] EXCEPT !.at = "insert"]) ELSE Finish(r)
    /\ UnchangedStores /\ UnchangedGhosts

StockWrite(r) ==
    /\ At(r, {"stock"}, "insert")
    /\ LET q == requests[r] IN
       IF Refused(q) THEN Finish(r) /\ UnchangedStores
       ELSE \E p \in Fresh :
               /\ pool' = Filed(q, p).pool
               /\ Touch(r, [q EXCEPT !.view = Filed(q, p), !.sync = {p}, !.at = "sync"], {p})
               /\ UNCHANGED <<people, copies>>
    /\ UnchangedGhosts

SupplyLook(r) ==
    /\ At(r, {"supply"}, "start")
    /\ IF Overlooked(requests[r]) THEN Continue(r, [requests[r] EXCEPT !.at = "insert"]) ELSE Finish(r)
    /\ UnchangedStores /\ UnchangedGhosts

\* Bound: two products, of which one has a serial number or none.
SupplyWrite(r) ==
    /\ At(r, {"supply"}, "insert")
    /\ LET q == requests[r] IN
       IF Refused(q) THEN Finish(r)
       ELSE \E p, x \in Fresh :
               /\ p # x
               /\ Continue(r, [q EXCEPT !.at = "commit", !.writes = {p, x}, !.sync = {p, x},
                      !.view = [Filed(q, p) EXCEPT !.pool[x] = [Filed(q, p).pool[p] EXCEPT !.serial = None]]])
    /\ UnchangedStores /\ UnchangedGhosts

-----------------------------------------------------------------------------
\* Changing the serial number of a product, outside any transaction.

EditLook(r) ==
    /\ At(r, {"edit"}, "start")
    /\ LET q == requests[r]
           p == q.item
           look(item, m) ==
               IF item.gone \/ (q.serial # item.serial /\ Taken(q.serial)) THEN Finish(r)
               ELSE Continue(r, [q EXCEPT !.at = "write", !.member = m, !.dirty = {}])
       IN  IF Stored(View, p) THEN look(pool[p], None)
           ELSE IF Holders(View, p) = {} THEN Finish(r)
           ELSE \E m \in Holders(View, p) : look(people[m].has[p], m)
    /\ UnchangedStores /\ UnchangedGhosts

EditInPool(r) ==
    /\ At(r, {"edit"}, "write") /\ requests[r].member = None
    /\ LET q == requests[r] p == q.item IN
       IF ~Stored(View, p) \/ (q.serial # None /\ \E x \in Products \ {p} : Stored(View, x) /\ pool[x].serial = q.serial)
       THEN Finish(r) /\ UnchangedStores
       ELSE /\ p \notin Writing
            /\ pool' = [pool EXCEPT ![p].serial = q.serial]
            /\ Touch(r, [q EXCEPT !.at = "sync", !.sync = {p},
                          !.view = [View EXCEPT !.pool[p].serial = q.serial]], {p})
            /\ UNCHANGED <<people, copies>>
    /\ UnchangedGhosts

\* A new serial number is saved under the version that was read. A serial number
\* is removed by the position the product had, whatever stands there now.
EditInMember(r) ==
    /\ At(r, {"edit"}, "write") /\ requests[r].member # None
    /\ LET q == requests[r] m == q.member
           moved == m \in q.dirty
           held == {x \in Products : people[m].has[x] # Absent}
       IN  IF moved /\ (q.serial # None \/ held = {})
           THEN Finish(r) /\ UnchangedStores
           ELSE /\ m \notin Writing
                /\ \E x \in IF moved THEN held ELSE {q.item} :
                      /\ people' = [people EXCEPT ![m].has[x].serial = q.serial]
                      /\ Touch(r, [q EXCEPT !.at = "sync", !.sync = {x},
                                    !.view = [View EXCEPT !.people[m].has[x].serial = q.serial]], {m})
                /\ UNCHANGED <<pool, copies>>
    /\ UnchangedGhosts

-----------------------------------------------------------------------------
\* Moving products.

\* The product is updated where it is.
UpdatedThere(r, p) == Write(r, {p}, requests[r].view, "sync", {p})

\* A product of the pool is given to the member that has the email. One that
\* waits for a member cannot be moved: the look for that member fails.
FromPool(r, p, e) ==
    LET v == requests[r].view IN
    IF v.pool[p].email # None \/ (e # None /\ Found(v, e) = {}) THEN Abort(r)
    ELSE IF e = None THEN UpdatedThere(r, p)
    ELSE \E n \in Found(v, e) :
            Write(r, {p, n},
                [pool   |-> [v.pool EXCEPT ![p] = Absent],
                 people |-> [v.people EXCEPT ![n].has[p] = [v.pool[p] EXCEPT !.email = e, !.named = TRUE]]],
                "sync", {p})

\* Mutant: the product stays with the member that gives it away.
KeepingHolder(p, item) == {}

\* Whoever gives the product away is found by the email written in the product,
\* in the database and not in the snapshot.
Giving(p, item) == {c \in Found(View, item.email) : people[c].has[p] # Absent}

ToMember(r, p, item, e) ==
    LET v == requests[r].view
        c == Giving(p, item)
    IN  IF Found(v, e) = {} \/ c \cap requests[r].writes # {} THEN Abort(r)
        ELSE \E n \in Found(v, e) :
                Write(r, {n} \cup c,
                    [v EXCEPT !.people = [m \in Members |->
                        IF m = n THEN [v.people[m] EXCEPT !.has[p] = [item EXCEPT !.email = e, !.named = TRUE]]
                        ELSE IF m \in c THEN [v.people[m] EXCEPT !.has[p] = Absent] ELSE v.people[m]]],
                    "sync", {p})

ToPool(r, p, item, m) ==
    LET v == requests[r].view IN
    Write(r, {p, m},
        [pool   |-> [v.pool EXCEPT ![p] = [item EXCEPT !.email = None, !.named = FALSE]],
         people |-> [v.people EXCEPT ![m].has[p] = Absent]],
        "sync", {p})

\* The index of the pool, for a product that comes back: what is stored, and what
\* a transaction has written.
Clashes(r, s) ==
    /\ s # None
    /\ \/ \E x \in Products \ requests[r].writes : Stored(View, x) /\ pool[x].serial = s
       \/ \E t \in Requests : \E x \in Products \cap requests[t].writes :
             Stored(requests[t].view, x) /\ requests[t].view.pool[x].serial = s

FromMember(r, p, e) ==
    \E m \in Holders(requests[r].view, p) :
        LET item == requests[r].view.people[m].has[p] IN
        IF e = None /\ Clashes(r, item.serial) THEN Abort(r)
        ELSE IF e = None THEN ToPool(r, p, item, m)
        ELSE e # item.email /\ ToMember(r, p, item, e)

\* The next product of a request, and the email its body names or else the pool.
\* An offboarding takes the products in order.
Relocations(q)   == {<<CHOOSE x \in q.todo : TRUE, e>> : e \in {x \in Emails \cup {None} : Named(x)}}
Reassignments(q) == q.todo \X {x \in Emails \cup {None} : Named(x)}

Ordered(q) ==
    CASE q.op = "offboard" -> Relocations(q)
      [] q.op = "return"   -> q.todo \X {None}
      [] OTHER             -> Reassignments(q)

MoveItem(r) ==
    /\ At(r, Moving, "work")
    /\ LET q == requests[r] IN
       \E o \in Ordered(q) :
          IF Stored(q.view, o[1]) THEN FromPool(r, o[1], o[2])
          ELSE IF Holders(q.view, o[1]) = {} THEN Abort(r)
          ELSE FromMember(r, o[1], o[2])
    /\ Stores /\ Ghosts

-----------------------------------------------------------------------------
\* Deleting a product: the copy is marked before the transaction is through.

Deleted(item) == [item EXCEPT !.gone = TRUE, !.serial = None]

DeleteWrite(r) ==
    /\ At(r, {"delete"}, "work")
    /\ LET q == requests[r] p == q.item IN
       IF Stored(q.view, p) THEN Write(r, {p}, [q.view EXCEPT !.pool[p] = Deleted(@)], "mark", {})
       ELSE IF Holders(q.view, p) = {} THEN Abort(r)
       ELSE \E m \in Holders(q.view, p) :
               Write(r, {p}, [q.view EXCEPT !.pool[p] = Deleted(q.view.people[m].has[p])], "mark", {})
    /\ Stores /\ Ghosts

\* Mutant: the copy is left as it is.
MarkedNot(old) == old
Marked(old) == [old EXCEPT !.source = "products", !.serial = None, !.gone = TRUE]
DeleteMark(r) ==
    /\ At(r, {"delete"}, "mark")
    /\ LET q == requests[r] p == q.item IN
          /\ copies' = [copies EXCEPT ![p] = IF @.source = "none" THEN @ ELSE Marked(@)]
          /\ Continue(r, [q EXCEPT !.copied = {p},
                !.at = IF Holders(q.view, p) = {} THEN "commit" ELSE "detach"])
    /\ UNCHANGED <<pool, people>> /\ UnchangedGhosts

DeleteDetach(r) ==
    /\ At(r, {"delete"}, "detach")
    /\ LET q == requests[r] IN
       \E m \in Holders(q.view, q.item) :
          Write(r, {m}, [q.view EXCEPT !.people[m].has[q.item] = Absent], "commit", {})
    /\ Stores /\ Ghosts

-----------------------------------------------------------------------------
\* Members.

Waiting(v, e) == {p \in Products : Stored(v, p) /\ v.pool[p].email = e /\ ~v.pool[p].gone}

\* The products that wait for the member become its own, with the name they had.
Attached(v, m, e, named) ==
    LET S == Waiting(v, e) IN
    [v EXCEPT !.pool = [p \in Products |-> IF p \in S THEN Absent ELSE v.pool[p]],
              !.people[m] = [status |-> "live", email |-> e,
                  has |-> [p \in Products |->
                      IF p \in S THEN [v.pool[p] EXCEPT !.named = @ \/ named] ELSE v.people[m].has[p]]]]

EmailInUse(v, e) ==
    Found(v, e) # {} \/ \E s \in Requests : requests[s].writes # {} /\ Found(requests[s].view, e) # {}

\* A member is created, and takes what waits for it, in one transaction.
JoinWrite(r) ==
    /\ At(r, {"join"}, "work")
    /\ LET q == requests[r] v == q.view S == Waiting(v, q.email) IN
       IF EmailInUse(View, q.email) THEN Abort(r)
       ELSE \E m \in {x \in Members : people[x].status = "unused"} \ Writing :
               Write(r, {m} \cup S, Attached(v, m, q.email, FALSE), IF S = {} THEN "commit" ELSE "sync", S)
    /\ Stores /\ Ghosts

\* An import of members: one transaction inserts them, a second one attaches.
EnrolWrite(r) ==
    /\ At(r, {"enrol"}, "work")
    /\ LET q == requests[r] IN
       IF EmailInUse(View, q.email) THEN Abort(r)
       ELSE \E m \in {x \in Members : people[x].status = "unused"} \ Writing :
               /\ Continue(r, [q EXCEPT !.member = m, !.writes = {m}, !.at = "inserted",
                      !.view.people[m] = [Nobody EXCEPT !.status = "live", !.email = q.email]])
               /\ UNCHANGED undone
    /\ Stores /\ Ghosts

EnrolAttach(r) ==
    /\ At(r, {"enrol"}, "attach")
    /\ LET q == [requests[r] EXCEPT !.view = View] S == Waiting(View, q.email) IN
       IF S = {} \/ ({q.member} \cup S) \cap Writing # {} THEN Finish(r)
       ELSE Continue(r, [q EXCEPT !.writes = {q.member} \cup S, !.sync = S, !.at = "sync",
                !.view = Attached(View, q.member, q.email, TRUE)])
    /\ UnchangedStores /\ UnchangedGhosts

\* Only a product that names the member and its old email gets the new one.
Readdressed(person, e) ==
    [person EXCEPT !.email = e,
        !.has = [p \in Products |->
            IF @[p] # Absent /\ @[p].named /\ @[p].email = person.email
            THEN [@[p] EXCEPT !.email = e] ELSE @[p]]]

ReaddressWrite(r) ==
    /\ At(r, {"readdress"}, "work")
    /\ LET q == requests[r] m == q.member IN
       IF EmailInUse(View, q.email) THEN Abort(r)
       ELSE Write(r, {m}, [q.view EXCEPT !.people[m] = Readdressed(@, q.email)], "commit", {})
    /\ Stores /\ Ghosts

MustGiveBack(m) == \E p \in Recoverable : people[m].has[p] # Absent

\* The last step of an offboarding, and a request of its own.
DismissLook(r) ==
    /\ \/ At(r, {"dismiss"}, "start")
       \/ At(r, {"offboard"}, "dismiss")
    /\ IF MustGiveBack(requests[r].member) THEN Finish(r)
       ELSE Continue(r, [requests[r] EXCEPT !.op = "dismiss", !.at = "write", !.view = NoView])
    /\ UnchangedStores /\ UnchangedGhosts

DismissWrite(r) ==
    /\ At(r, {"dismiss"}, "write")
    /\ LET m == requests[r].member IN
          /\ m \notin Writing
          /\ people' = [people EXCEPT ![m].status = "deleted"]
          /\ Touch(r, Idle, {m})
    /\ UNCHANGED <<pool, copies>> /\ UnchangedGhosts

-----------------------------------------------------------------------------
\* A process dies, or a call fails. A deletion that fails because the catalog of
\* the database changed starts again.
Fail(r) ==
    /\ Busy(r) /\ Alone /\ ~failed      \* bound: one failure
    /\ \/ Abort(r)
       \/ /\ requests[r].op = "delete"
          /\ Continue(r, [Idle EXCEPT !.op = "delete", !.item = requests[r].item])
          /\ UNCHANGED undone
    /\ failed' = TRUE
    /\ UnchangedStores /\ UNCHANGED <<astray, renamed, traffic>>

Step(r) ==
    \/ Begin(r) \/ Sync(r) \/ Commit(r)
    \/ CreateLook(r) \/ CreateWrite(r) \/ ImportLook(r) \/ ImportWrite(r)
    \/ StockLook(r) \/ StockWrite(r) \/ SupplyLook(r) \/ SupplyWrite(r)
    \/ EditLook(r) \/ EditInPool(r) \/ EditInMember(r)
    \/ MoveItem(r)
    \/ DeleteWrite(r) \/ DeleteMark(r) \/ DeleteDetach(r)
    \/ JoinWrite(r) \/ EnrolWrite(r) \/ EnrolAttach(r) \/ ReaddressWrite(r)
    \/ DismissLook(r) \/ DismissWrite(r)

Next == \E r \in Requests : Arrive(r) \/ Step(r) \/ Fail(r)

Spec == Init /\ [][Next]_vars

-----------------------------------------------------------------------------
\* Properties.

\* Every variable keeps its shape.
TypeOK ==
    /\ pool \in [Products -> Slot]
    /\ people \in [Members -> Person]
    /\ copies \in [Products -> Copy]
    /\ requests \in [Requests -> Request]
    /\ failed \in BOOLEAN /\ traffic \in Traffic
    /\ undone \subseteq Products /\ astray \subseteq Products /\ renamed \subseteq Members

\* A product is stored once: in the pool or with one member, never in both and
\* never with two, whatever overlaps or fails. The exception are products that
\* carry another email than their member: a move looks for that email when it
\* takes the product away from its old holder.
OneHome ==
    \A p \in Products \ astray :
        /\ Cardinality(Holders(View, p)) <= 1
        /\ Stored(View, p) => Holders(View, p) = {}

\* Two products of a tenant never have the same serial number, wherever they
\* are, when requests come one after the other. The exception are the numbers
\* that somebody types with blanks around them.
SerialUnique ==
    Alone =>
        \A p, x \in Products : \A i \in {pool[p]} \cup {people[m].has[p] : m \in Members} :
            \A j \in {pool[x]} \cup {people[m].has[x] : m \in Members} :
                i.serial \notin Spaced \cup {None} /\ i.serial = j.serial => p = x

\* Once the requests have ended, the copy of a product says where it is, its
\* serial number and whether it is deleted. Exceptions: a move or deletion that was
\* undone after it wrote the copy; an email taken for a member by an import; and
\* the id made up for a member, which stays until the copy is written again.
CopiesAgree ==
    Alone /\ Quiet /\ ~failed =>
        \A p \in Products \ (undone \cup astray) :
            /\ Stored(View, p) =>
                   /\ copies[p].gone = pool[p].gone /\ copies[p].serial = pool[p].serial
                   /\ pool[p].email = None => copies[p].source = "products"
                   /\ copies[p].holder # None => pool[p].gone
            /\ \A m \in Holders(View, p) :
                   /\ copies[p].gone = people[m].has[p].gone
                   /\ copies[p].serial = people[m].has[p].serial
                   /\ copies[p].holder \in {m, Invented}
                   /\ copies[p].holder = m => copies[p].source = "members"

\* A member that is deleted takes nothing along that must be given back, when
\* requests come one after the other.
NothingLost ==
    Alone =>
        \A m \in Members : people[m].status = "deleted" =>
            \A p \in Recoverable : people[m].has[p] = Absent

\* A product in the pool does not wait for a member that is there, once the
\* requests have ended, unless the member got the email later.
WaitingAreAttached ==
    Alone /\ Quiet /\ ~failed =>
        \A m \in LiveMembers \ renamed : Waiting(View, people[m].email) = {}

\* Where a product is, for the abstract specification.
PlaceOf(p) ==
    LET holders == Holders(View, p) IN
    IF Stored(View, p) THEN IF pool[p].gone THEN "deleted" ELSE "pool"
    ELSE IF holders = {} THEN "nowhere"
    ELSE LET m == CHOOSE x \in holders : TRUE IN
         IF people[m].has[p].gone THEN "deleted" ELSE m

\* The two collections, as the requests commit to them, do what Custody promises:
\* products appear once, are moved in single steps, and stay deleted.
Kept == INSTANCE Custody WITH place <- [p \in Products |-> PlaceOf(p)]
Implements == Kept!Spec

\* Products and members fit together: no serial number twice, nothing to be given
\* back lost with a member, no product waiting for a member that is there.
ProductsFit == TypeOK /\ SerialUnique /\ NothingLost /\ WaitingAreAttached

=============================================================================
