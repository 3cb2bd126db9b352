--------------------------- MODULE Offices_proofs ---------------------------
(***************************************************************************)
(* What holds of Offices for every number of offices, products and         *)
(* requests, with crashes anywhere: names, the default office, deletions   *)
(* and the copies, from what each request in flight has found out.         *)
(***************************************************************************)
EXTENDS Offices, TLAPS

\* No PATCH /offices/:id takes the flag from the default office, to hand it to none. Only
\* that there is a default office, and with it that names differ, rests on this.
KeepsDefault == "unset" \notin DefaultChanges

-----------------------------------------------------------------------------
\* The inductive invariant: what the offices and the products are, and what every
\* request in flight has found out that still holds.

Does(q, ops, ats) == q.op \in ops /\ q.at \in ats
Inserting    == {"setup", "updateDefault"}
Working      == {"destroy", "mark", "check", "write"}

\* The body of a request, as the controllers let it in.
BodyFits(q) ==
    /\ q.op = "none" => q = Idle
    /\ q.op \in NamesOffice \/ Does(q, {"updateDefault"}, {"write"}) => q.office \in Offices
    /\ KeepsDefault => q.change # "unset"
    /\ Does(q, {"create", "update"}, {"clear"}) => q.change = "set"
    /\ traffic = "together" => q.op # "delete"

\* What holds in every traffic of the office a request works on.
OfficeStands(q) ==
    /\ Does(q, {"create"}, {"insert"}) /\ ~q.was /\ q.change # "set" => LiveOffices # {}
    /\ Does(q, {"update"}, {"clear", "write"}) => Live(q.office)
    /\ Does(q, {"toggle"}, {"clear", "write"}) => Live(q.office)
    /\ Does(q, {"updateDefault"}, {"write"}) => Live(q.office)
    /\ Does(q, {"delete"}, {"promote"}) => Live(q.office)
    /\ Does(q, {"delete"}, {"ensure"}) => ~Live(q.office)

\* A request that has yet to make an office the default one, or to look for one.
WillSet(q) ==
    \/ Does(q, Inserting, {"insert"})
    \/ Does(q, {"create"}, {"insert"}) /\ (q.change = "set" \/ q.was)
    \/ Does(q, {"update"}, {"write"}) /\ q.change = "set"
    \/ Does(q, {"toggle"}, {"write"})
    \/ Does(q, {"delete"}, {"ensure", "promote"})

DefaultsLive == \A o \in Offices : offices[o].isDefault => Live(o)
SomeDefault  ==
    KeepsDefault /\ ~crashed /\ LiveOffices # {} /\ Defaults = {} => \E r \in Requests : WillSet(requests[r])

CommonInv ==
    /\ TypeOK /\ DefaultsLive /\ SomeDefault
    /\ (crashed => traffic = "alone")
    /\ \A r \in Requests : BodyFits(requests[r]) /\ OfficeStands(requests[r])

\* One request at a time: there is one default office, and none where a request is
\* about to set one.
OneDefault == \A o, x \in Defaults : o = x
FlagStands(q) ==
    /\ WillSet(q) => Defaults = {} \/ (q.op = "update" /\ Defaults = {q.office})
    /\ Does(q, {"updateDefault"}, {"write"}) => q.office \in Defaults
    /\ Does(q, {"delete"}, Working) => Live(q.office) /\ (q.was <=> q.office \in Defaults)

\* A deleted office is empty, and an id not yet used has no products. A deletion
\* empties its office before it deletes it.
Empty == \A o \in Offices :
             /\ offices[o].status = "deleted" => In(o) = {}
             /\ offices[o].status = "unused" => \A p \in Products : products[p].office # o
HandStands(q) ==
    /\ Does(q, {"delete"}, {"destroy", "mark"}) => q.todo = In(q.office) /\ q.todo \cap Recoverable = {}
    /\ Does(q, {"delete"}, {"check", "write"}) => In(q.office) = {}

AloneInv ==
    traffic = "alone" =>
        /\ \A r, s \in Requests : Busy(r) /\ Busy(s) => r = s
        /\ OneDefault /\ Empty
        /\ \A r \in Requests : FlagStands(requests[r]) /\ HandStands(requests[r])

\* As long as no request has died: the names differ.
NamesDiffer == KeepsDefault => \A o, x \in LiveOffices : offices[o].name = offices[x].name => o = x
NameStands(q) ==
    /\ KeepsDefault /\ Does(q, Inserting, {"insert"}) => LiveOffices = {}
    /\ Does(q, {"create"}, {"clear", "insert"}) => ~NameTaken(q.name, {})
    /\ Does(q, {"updateDefault"}, {"write"}) =>
           q.name = offices[q.office].name \/ ~NameTaken(q.name, {q.office})
    /\ Does(q, {"update"}, {"clear", "write"}) =>
           IF q.was THEN ~NameTaken(q.name, {q.office}) ELSE q.name = offices[q.office].name
    /\ Does(q, {"update"}, {"propagate"}) => q.name = offices[q.office].name

\* What was destroyed went with its office, was in vain, or is in the hands of the
\* deletion.
Destroyed(p) ==
    /\ p \notin Recoverable /\ products[p].office \in Offices
    /\ \/ offices[products[p].office].status = "deleted"
       \/ products[p].office \in refused
       \/ \E r \in Requests : Does(requests[r], {"delete"}, Working) /\ requests[r].office = products[p].office

\* A product carries the name of its office, or the name is about to be passed on.
Named(o) ==
    \/ \A p \in In(o) : products[p].officeName = offices[o].name
    \/ \E r \in Requests : Does(requests[r], {"update"}, {"propagate"}) /\ requests[r].office = o

\* A copy says what its product says, or a request is about to write it.
Agrees(p) ==
    /\ products[p].isDeleted = copies[p].isDeleted
    /\ ~products[p].isDeleted => copies[p] = products[p]
Owes(q, p) ==
    \/ Does(q, {"update"}, {"affected"}) /\ p \in In(q.office) /\ ~copies[p].isDeleted
    \/ Does(q, {"update"}, {"sync"}) /\ p \in q.todo /\ ~copies[p].isDeleted
    \/ Does(q, {"delete"}, {"mark"}) /\ products[p].isDeleted
CopyStands(q) ==
    /\ Does(q, {"update"}, {"sync"}) => \A p \in q.todo : p \in In(q.office) /\ q.read[p] = products[p]
    /\ q.op = "delete" => \A p \in Products : q.read[p].isDeleted => products[p].isDeleted
    /\ Does(q, {"delete"}, {"mark"}) => \A p, x \in Products : ~Agrees(p) /\ ~Agrees(x) => p = x

WholeInv ==
    traffic = "alone" /\ ~crashed =>
        /\ NamesDiffer
        /\ \A p \in Products : products[p].isDeleted => Destroyed(p)
        /\ \A o \in LiveOffices \ bypassed : Named(o)
        /\ \A p \in Products : Agrees(p) \/ \E r \in Requests : Owes(requests[r], p)
        /\ \A r \in Requests : NameStands(requests[r]) /\ CopyStands(requests[r])

IInv == CommonInv /\ AloneInv /\ WholeInv

-----------------------------------------------------------------------------
\* The shape of steps.

LEMMA CallsAre ==
    /\ {"start", "insert", "clear", "write", "propagate", "affected"} \subseteq Calls
    /\ {"sync", "destroy", "mark", "check", "ensure", "promote"} \subseteq Calls
BY DEF Calls

LEMMA NoneIsNoOffice == None \notin Offices
BY ConstantsAssumption

LEMMA IdleFits ==
    /\ Idle \in Request /\ BodyFits(Idle) /\ OfficeStands(Idle) /\ FlagStands(Idle) /\ HandStands(Idle)
    /\ NameStands(Idle) /\ CopyStands(Idle) /\ ~WillSet(Idle)
    /\ \A p \in Products : ~Owes(Idle, p)
    /\ \A ops \in SUBSET OperationKinds, ats \in SUBSET Calls : ~Does(Idle, ops, ats)
<1>1. Idle.op = "none" /\ Idle.office = None /\ Idle.change = "keep"
  BY DEF Idle
<1>2. "none" \notin OperationKinds
  BY DEF OperationKinds
<1>3. Idle \in Request
  <2>1. Nowhere \in [Products -> Product]
    BY DEF Nowhere, Product
  <2> QED  BY <2>1 DEF Idle, Request, Calls
<1>4. \A p \in Products : ~Idle.read[p].isDeleted
  BY DEF Idle, Nowhere
<1> QED
  BY <1>1, <1>2, <1>3, <1>4 DEF BodyFits, OfficeStands, FlagStands, HandStands, NameStands, CopyStands,
     WillSet, Owes, Does, NamesOffice, Inserting

\* A request that was q is u: its kind, its call, its office, and what it has in hand.
Turns(q, u, op, at, office, was, read, todo) ==
    /\ u \in Request
    /\ u.op = op /\ u.at = at /\ u.office = office /\ u.was = was /\ u.read = read /\ u.todo = todo
    /\ u.name = q.name /\ u.change = q.change
Calling(q, u, at) == Turns(q, u, q.op, at, q.office, q.was, q.read, q.todo)

LEMMA StepShape ==
    ASSUME TypeOK, NEW r \in Requests, Step(r)
    PROVE  /\ Busy(r) /\ requests[r].op \in OperationKinds
           /\ requests' = [requests EXCEPT ![r] = requests'[r]]
           /\ UNCHANGED <<shipping, onTheWay, crashed, traffic>>
<1>1. requests \in [Requests -> Request]
  BY DEF TypeOK
<1>2. requests[r].op \in OperationKinds => Busy(r)
  BY <1>1 DEF Busy, Idle, OperationKinds
<1>3. ASSUME NEW u, requests' = [requests EXCEPT ![r] = u] PROVE requests' = [requests EXCEPT ![r] = requests'[r]]
  BY <1>1, <1>3
<1>4. CASE SetupLook(r) \/ SetupInsert(r) \/ TenantLook(r) \/ UpdateDefaultLook(r)
  BY <1>1, <1>2, <1>4 DEF SetupLook, SetupInsert, TenantLook, UpdateDefaultLook, Insert, At, Finish, Goto,
     UnchangedWorld, OperationKinds
<1>5. CASE UpdateDefaultInsert(r) \/ UpdateDefaultWrite(r) \/ CsvLook(r) \/ CreateLook(r)
  BY <1>1, <1>2, <1>5 DEF UpdateDefaultInsert, UpdateDefaultWrite, CsvLook, CreateLook, Insert, At, Finish, Goto,
     UnchangedWorld, OperationKinds
<1>6. CASE CreateClear(r) \/ CreateInsert(r) \/ UpdateLook(r) \/ UpdateClear(r)
  BY <1>1, <1>2, <1>6 DEF CreateClear, CreateInsert, UpdateLook, UpdateClear, Insert, At, Finish, Goto,
     UnchangedWorld, OperationKinds
<1>7. CASE UpdateWrite(r) \/ Propagate(r) \/ Affected(r) \/ SyncAffected(r)
  BY <1>1, <1>2, <1>7 DEF UpdateWrite, Propagate, Affected, SyncAffected, At, Finish, Goto,
     UnchangedWorld, OperationKinds
<1>8. CASE ToggleLook(r) \/ ToggleClear(r) \/ ToggleWrite(r) \/ DeleteLook(r)
  BY <1>1, <1>2, <1>8 DEF ToggleLook, ToggleClear, ToggleWrite, DeleteLook, At, Finish, Goto,
     UnchangedWorld, OperationKinds
<1>9. CASE Destroy(r) \/ Mark(r) \/ DeleteCheck(r)
  BY <1>1, <1>2, <1>9 DEF Destroy, Mark, DeleteCheck, At, Finish, Goto, UnchangedWorld, OperationKinds
<1>10. CASE DeleteWrite(r) \/ EnsureLook(r) \/ EnsureWrite(r)
  BY <1>1, <1>2, <1>10 DEF DeleteWrite, EnsureLook, EnsureWrite, At, Finish, Goto, UnchangedWorld, OperationKinds
<1> QED  BY <1>4, <1>5, <1>6, <1>7, <1>8, <1>9, <1>10 DEF Step

-----------------------------------------------------------------------------
\* Values that are changed in a field or two.

LEMMA OfficeFields ==
    ASSUME NEW x \in Office
    PROVE  /\ \A b \in BOOLEAN : [x EXCEPT !.isDefault = b] \in Office
           /\ \A n \in Names \cup {None}, c \in {"keep", "set", "unset"} : Changed(x, n, c) \in Office
           /\ [x EXCEPT !.status = "deleted", !.isDefault = FALSE] \in Office
<1>1. \A b \in BOOLEAN : [x EXCEPT !.isDefault = b] \in Office
  BY DEF Office
<1>2. [x EXCEPT !.status = "deleted", !.isDefault = FALSE] \in Office
  BY DEF Office
<1>3. ASSUME NEW n \in Names \cup {None}, NEW c \in {"keep", "set", "unset"} PROVE Changed(x, n, c) \in Office
  <2>1. \A b \in BOOLEAN : [x EXCEPT !.name = n, !.isDefault = b] \in Office
    BY DEF Office
  <2>2. x.isDefault \in BOOLEAN
    BY DEF Office
  <2> QED  BY <2>1, <2>2 DEF Changed
<1> QED  BY <1>1, <1>2, <1>3

LEMMA ProductFields ==
    ASSUME NEW x \in Product
    PROVE  /\ \A n \in Names \cup {None} : [x EXCEPT !.officeName = n] \in Product
           /\ \A b \in BOOLEAN : [x EXCEPT !.isDeleted = b] \in Product
<1>1. \A n \in Names \cup {None} : [x EXCEPT !.officeName = n] \in Product
  BY DEF Product
<1>2. \A b \in BOOLEAN : [x EXCEPT !.isDeleted = b] \in Product
  BY DEF Product
<1> QED  BY <1>1, <1>2

-----------------------------------------------------------------------------
\* What every step does, with the request it leaves behind.

OfficesOnly == UNCHANGED <<products, copies, refused, bypassed>>
RequestOnly == UNCHANGED <<offices, products, copies, refused, bypassed>>

Inserted(r, isDefault) ==
    /\ requests'[r] = Idle /\ OfficesOnly
    /\ \E o \in Offices :
          /\ offices[o].status = "unused"
          /\ offices' = [offices EXCEPT ![o] =
                [status |-> "live", name |-> requests[r].name, isDefault |-> isDefault]]

SetupLooked(r, q, u) ==
    Does(q, {"setup"}, {"start"}) /\ RequestOnly /\ (u = Idle \/ (Defaults = {} /\ Calling(q, u, "insert")))
SetupInserted(r, q, u) == Does(q, {"setup"}, {"insert"}) /\ Inserted(r, TRUE)
TenantLooked(r, q, u) ==
    /\ Does(q, {"tenant"}, {"start"}) /\ RequestOnly
    /\ \E op \in {"updateDefault", "setup"} : Turns(q, u, op, "start", q.office, q.was, q.read, q.todo)
UpdateDefaultLooked(r, q, u) ==
    /\ Does(q, {"updateDefault"}, {"start"}) /\ RequestOnly
    /\ \/ Defaults = {} /\ Calling(q, u, "insert")
       \/ u = Idle
       \/ \E o \in Defaults :
             /\ NameTaken(q.name, {o}) => q.name = offices[o].name
             /\ Turns(q, u, q.op, "write", o, q.was, q.read, q.todo)
UpdateDefaultInserted(r, q, u) == Does(q, {"updateDefault"}, {"insert"}) /\ Inserted(r, TRUE)
UpdateDefaultWritten(r, q, u) ==
    /\ Does(q, {"updateDefault"}, {"write"}) /\ u = Idle /\ UNCHANGED <<products, copies, refused>>
    /\ offices' = [offices EXCEPT ![q.office] = Changed(offices[q.office], q.name, q.change)]
    /\ bypassed' = IF q.name = offices[q.office].name THEN bypassed ELSE bypassed \cup {q.office}
CsvLooked(r, q, u) ==
    /\ Does(q, {"csv"}, {"start"}) /\ RequestOnly
    /\ u = Idle \/ Turns(q, u, "create", "start", q.office, q.was, q.read, q.todo)
CreateLooked(r, q, u) ==
    /\ Does(q, {"create"}, {"start"}) /\ RequestOnly
    /\ \/ u = Idle
       \/ /\ ~NameTaken(q.name, {})
          /\ Turns(q, u, q.op, IF q.change = "set" THEN "clear" ELSE "insert", q.office, LiveOffices = {}, q.read, q.todo)
CreateCleared(r, q, u) ==
    Does(q, {"create"}, {"clear"}) /\ offices' = Cleared({}) /\ OfficesOnly /\ Calling(q, u, "insert")
CreateInserted(r, q, u) ==
    Does(q, {"create"}, {"insert"}) /\ Inserted(r, q.change = "set" \/ q.was)
UpdateLooked(r, q, u) ==
    /\ Does(q, {"update"}, {"start"}) /\ RequestOnly
    /\ \/ u = Idle
       \/ /\ Live(q.office) /\ (q.name # offices[q.office].name => ~NameTaken(q.name, {q.office}))
          /\ Turns(q, u, q.op, IF q.change = "set" THEN "clear" ELSE "write", q.office,
                   q.name # offices[q.office].name, q.read, q.todo)
UpdateCleared(r, q, u) ==
    /\ Does(q, {"update"}, {"clear"}) /\ offices' = Cleared({q.office}) /\ OfficesOnly
    /\ Calling(q, u, "write")
UpdateWritten(r, q, u) ==
    /\ Does(q, {"update"}, {"write"}) /\ OfficesOnly
    /\ offices' = [offices EXCEPT ![q.office] = Changed(offices[q.office], q.name, q.change)]
    /\ IF q.was THEN Calling(q, u, "propagate") ELSE u = Idle
Propagated(r, q, u) ==
    /\ Does(q, {"update"}, {"propagate"}) /\ UNCHANGED <<offices, copies, refused, bypassed>>
    /\ products' = Renamed(q.office, q.name) /\ Calling(q, u, "affected")
AffectedRead(r, q, u) ==
    /\ Does(q, {"update"}, {"affected"}) /\ RequestOnly
    /\ Turns(q, u, q.op, "sync", q.office, q.was, products, In(q.office))
AffectedSynced(r, q, u) ==
    /\ Does(q, {"update"}, {"sync"}) /\ UNCHANGED <<offices, products, refused, bypassed>>
    /\ \/ q.todo = {} /\ u = Idle /\ UNCHANGED copies
       \/ \E p \in q.todo :
             /\ copies' = [copies EXCEPT ![p] = [q.read[p] EXCEPT !.isDeleted = FALSE]]
             /\ Turns(q, u, q.op, "sync", q.office, q.was, q.read, q.todo \ {p})
ToggleLooked(r, q, u) ==
    /\ Does(q, {"toggle"}, {"start"}) /\ RequestOnly
    /\ u = Idle \/ (Live(q.office) /\ Calling(q, u, "clear"))
ToggleCleared(r, q, u) ==
    Does(q, {"toggle"}, {"clear"}) /\ offices' = Cleared({}) /\ OfficesOnly /\ Calling(q, u, "write")
ToggleWritten(r, q, u) ==
    /\ Does(q, {"toggle"}, {"write"}) /\ OfficesOnly /\ u = Idle
    /\ offices' = [offices EXCEPT ![q.office] = [offices[q.office] EXCEPT !.isDefault = TRUE]]
DeleteLooked(r, q, u) ==
    /\ Does(q, {"delete"}, {"start"}) /\ RequestOnly
    /\ \/ u = Idle
       \/ /\ Live(q.office) /\ ~Blocks(q.office)
          /\ Turns(q, u, q.op, "destroy", q.office, offices[q.office].isDefault, q.read, In(q.office) \ Recoverable)
ProductDestroyed(r, q, u) ==
    /\ Does(q, {"delete"}, {"destroy"}) /\ UNCHANGED <<offices, copies, refused, bypassed>>
    /\ \/ q.todo = {} /\ Calling(q, u, "check") /\ UNCHANGED products
       \/ \E p \in q.todo :
             /\ products' = [products EXCEPT ![p] = [products[p] EXCEPT !.isDeleted = TRUE]]
             /\ Turns(q, u, q.op, "mark", q.office, q.was, [q.read EXCEPT ![p] = products'[p]], q.todo \ {p})
CopyMarked(r, q, u) ==
    /\ Does(q, {"delete"}, {"mark"}) /\ UNCHANGED <<offices, products, refused, bypassed>>
    /\ \E p \in Products :
          /\ q.read[p].isDeleted /\ ~copies[p].isDeleted
          /\ copies' = [copies EXCEPT ![p] = [copies[p] EXCEPT !.isDeleted = TRUE]]
    /\ Calling(q, u, "destroy")
DeleteChecked(r, q, u) ==
    /\ Does(q, {"delete"}, {"check"}) /\ UNCHANGED <<offices, products, copies, bypassed>>
    /\ \/ u = Idle /\ refused' = refused \cup {q.office}
       \/ Calling(q, u, "write") /\ refused' = refused
DeleteWritten(r, q, u) ==
    /\ Does(q, {"delete"}, {"write"}) /\ OfficesOnly
    /\ offices' = [offices EXCEPT ![q.office] = [offices[q.office] EXCEPT !.status = "deleted", !.isDefault = FALSE]]
    /\ IF q.was THEN Calling(q, u, "ensure") ELSE u = Idle
EnsureLooked(r, q, u) ==
    /\ Does(q, {"delete"}, {"ensure"}) /\ RequestOnly
    /\ \/ u = Idle /\ (Defaults \ {q.office} # {} \/ LiveOffices \subseteq {q.office})
       \/ \E o \in LiveOffices : Turns(q, u, q.op, "promote", o, q.was, q.read, q.todo)
EnsureWritten(r, q, u) ==
    /\ Does(q, {"delete"}, {"promote"}) /\ OfficesOnly /\ u = Idle
    /\ offices' = [offices EXCEPT ![q.office] = [offices[q.office] EXCEPT !.isDefault = TRUE]]

\* Five kinds of step: those that look, those that insert an office, those that clear the
\* flag, those that change one office, and those that leave the offices alone.
Looks(r, q, u) ==
    \/ SetupLooked(r, q, u) \/ TenantLooked(r, q, u) \/ UpdateDefaultLooked(r, q, u) \/ CsvLooked(r, q, u)
    \/ CreateLooked(r, q, u) \/ UpdateLooked(r, q, u) \/ AffectedRead(r, q, u) \/ ToggleLooked(r, q, u)
    \/ DeleteLooked(r, q, u) \/ EnsureLooked(r, q, u)
Inserts(r, q, u) == SetupInserted(r, q, u) \/ UpdateDefaultInserted(r, q, u) \/ CreateInserted(r, q, u)
Clears(r, q, u)  == CreateCleared(r, q, u) \/ UpdateCleared(r, q, u) \/ ToggleCleared(r, q, u)
Sets(r, q, u) ==
    \/ UpdateDefaultWritten(r, q, u) \/ UpdateWritten(r, q, u) \/ ToggleWritten(r, q, u)
    \/ DeleteWritten(r, q, u) \/ EnsureWritten(r, q, u)
Rests(r, q, u) ==
    \/ Propagated(r, q, u) \/ AffectedSynced(r, q, u) \/ ProductDestroyed(r, q, u) \/ CopyMarked(r, q, u)
    \/ DeleteChecked(r, q, u)
StepIs(r, q, u) == Looks(r, q, u) \/ Inserts(r, q, u) \/ Clears(r, q, u) \/ Sets(r, q, u) \/ Rests(r, q, u)

LEMMA StepKinds ==
    ASSUME NEW r, NEW q, NEW u, q = requests[r], u = requests'[r]
    PROVE  /\ Looks(r, q, u) => RequestOnly
           /\ Inserts(r, q, u) => OfficesOnly /\ u = Idle
           /\ Clears(r, q, u) => OfficesOnly
           /\ Sets(r, q, u) => UNCHANGED <<products, copies, refused>>
           /\ Rests(r, q, u) => offices' = offices /\ bypassed' = bypassed
           /\ (u = Idle \/ u \in Request) \/ ~StepIs(r, q, u)
<1>1. Looks(r, q, u) => RequestOnly /\ (u = Idle \/ u \in Request)
  BY DEF Looks, SetupLooked, TenantLooked, UpdateDefaultLooked, CsvLooked, CreateLooked, UpdateLooked,
     AffectedRead, ToggleLooked, DeleteLooked, EnsureLooked, Calling, Turns
<1>2. Inserts(r, q, u) => OfficesOnly /\ u = Idle
  BY DEF Inserts, SetupInserted, UpdateDefaultInserted, CreateInserted, Inserted
<1>3. Clears(r, q, u) => OfficesOnly /\ u \in Request
  BY DEF Clears, CreateCleared, UpdateCleared, ToggleCleared, Calling, Turns
<1>4. Sets(r, q, u) => UNCHANGED <<products, copies, refused>> /\ (u = Idle \/ u \in Request)
  BY DEF Sets, UpdateDefaultWritten, UpdateWritten, ToggleWritten, DeleteWritten, EnsureWritten, OfficesOnly,
     Calling, Turns
<1>5. Rests(r, q, u) => offices' = offices /\ bypassed' = bypassed /\ (u = Idle \/ u \in Request)
  BY DEF Rests, Propagated, AffectedSynced, ProductDestroyed, CopyMarked, DeleteChecked, Calling, Turns
<1> QED  BY <1>1, <1>2, <1>3, <1>4, <1>5 DEF StepIs

LEMMA StepForm ==
    ASSUME TypeOK, NEW r \in Requests, Step(r) PROVE StepIs(r, requests[r], requests'[r])
<1> DEFINE q == requests[r]
           u == requests'[r]
<1>1. /\ requests \in [Requests -> Request] /\ q \in Request
      /\ offices \in [Offices -> Office] /\ products \in [Products -> Product] /\ copies \in [Products -> Product]
  BY DEF TypeOK
<1>2. /\ q.office \in Offices \cup {None} /\ q.name \in Names \cup {None} /\ q.was \in BOOLEAN
      /\ q.read \in [Products -> Product] /\ q.todo \in SUBSET Products
  BY <1>1 DEF Request
<1>3. ASSUME NEW x, requests' = [requests EXCEPT ![r] = x] PROVE u = x
  BY <1>1, <1>3
<1>4. \A a \in Calls : Calling(q, [q EXCEPT !.at = a], a)
  BY <1>1 DEF Calling, Turns, Request
<1>5. ASSUME NEW a \in Calls, Goto(r, a) PROVE Calling(q, u, a)
  BY <1>1, <1>3, <1>4, <1>5 DEF Goto
<1>6. Finish(r) => u = Idle
  BY <1>1 DEF Finish
<1>7. ASSUME NEW b, Insert(r, b) PROVE Inserted(r, b)
  BY <1>6, <1>7 DEF Insert, Inserted, UnchangedProducts, UnchangedWorld, OfficesOnly
<1>8. ASSUME NEW ops, NEW at, At(r, ops, at) PROVE Does(q, ops, {at})
  BY <1>8 DEF At, Does
<1>10. SetupLook(r) => SetupLooked(r, q, u)
  BY <1>1, <1>2, <1>3, <1>5, <1>6, <1>7, <1>8, CallsAre DEF SetupLook, SetupLooked, UnchangedData, UnchangedProducts, UnchangedWorld, RequestOnly, OfficesOnly
<1>11. SetupInsert(r) => SetupInserted(r, q, u)
  BY <1>1, <1>2, <1>3, <1>5, <1>6, <1>7, <1>8, CallsAre DEF SetupInsert, SetupInserted, UnchangedData, UnchangedProducts, UnchangedWorld, RequestOnly, OfficesOnly
<1>12. TenantLook(r) => TenantLooked(r, q, u)
  <2> SUFFICES ASSUME TenantLook(r) PROVE TenantLooked(r, q, u)
    OBVIOUS
  <2>1. PICK op \in {"updateDefault", "setup"} : u = [q EXCEPT !.op = op]
    BY <1>1 DEF TenantLook
  <2>2. Turns(q, [q EXCEPT !.op = op], op, q.at, q.office, q.was, q.read, q.todo)
    BY <1>1 DEF Turns, Request, OperationKinds
  <2>3. Does(q, {"tenant"}, {"start"}) /\ q.at = "start" /\ RequestOnly
    BY DEF TenantLook, At, Does, UnchangedData, UnchangedWorld, RequestOnly
  <2> HIDE DEF q, u
  <2> QED  BY <2>1, <2>2, <2>3 DEF TenantLooked
<1>13. UpdateDefaultLook(r) => UpdateDefaultLooked(r, q, u)
  <2> SUFFICES ASSUME UpdateDefaultLook(r) PROVE UpdateDefaultLooked(r, q, u)
    OBVIOUS
  <2>1. Does(q, {"updateDefault"}, {"start"}) /\ RequestOnly
    BY DEF UpdateDefaultLook, At, Does, UnchangedData, UnchangedWorld, RequestOnly
  <2>2. CASE Defaults = {} /\ Goto(r, "insert")
    BY <2>1, <2>2, <1>5, CallsAre DEF UpdateDefaultLooked
  <2>3. ASSUME NEW o \in Defaults,
               IF NameTaken(q.name, {o}) /\ q.name # offices[o].name THEN Finish(r)
               ELSE requests' = [requests EXCEPT ![r].at = "write", ![r].office = o]
        PROVE  UpdateDefaultLooked(r, q, u)
    <3>1. o \in Offices
      BY DEF Defaults, LiveOffices
    <3>2. Turns(q, [q EXCEPT !.at = "write", !.office = o], q.op, "write", o, q.was, q.read, q.todo)
      BY <1>1, <3>1 DEF Turns, Request, Calls
    <3>3. CASE NameTaken(q.name, {o}) /\ q.name # offices[o].name
      BY <2>1, <2>3, <3>3, <1>6 DEF UpdateDefaultLooked
    <3>4. CASE ~(NameTaken(q.name, {o}) /\ q.name # offices[o].name)
      <4>1. u = [q EXCEPT !.at = "write", !.office = o]
        BY <2>3, <3>4, <1>1
      <4> HIDE DEF q, u
      <4> QED  BY <2>1, <3>2, <3>4, <4>1 DEF UpdateDefaultLooked
    <3> QED  BY <3>3, <3>4
  <2> QED  BY <2>2, <2>3 DEF UpdateDefaultLook
<1>14. UpdateDefaultInsert(r) => UpdateDefaultInserted(r, q, u)
  BY <1>1, <1>2, <1>3, <1>5, <1>6, <1>7, <1>8, CallsAre DEF UpdateDefaultInsert, UpdateDefaultInserted, UnchangedData, UnchangedProducts, UnchangedWorld, RequestOnly, OfficesOnly
<1>15. UpdateDefaultWrite(r) => UpdateDefaultWritten(r, q, u)
  BY <1>1, <1>2, <1>3, <1>5, <1>6, <1>7, <1>8, CallsAre DEF UpdateDefaultWrite, UpdateDefaultWritten, UnchangedData, UnchangedProducts, UnchangedWorld, RequestOnly, OfficesOnly
<1>16. CsvLook(r) => CsvLooked(r, q, u)
  <2> SUFFICES ASSUME CsvLook(r) PROVE CsvLooked(r, q, u)
    OBVIOUS
  <2>1. u = Idle \/ u = [q EXCEPT !.op = "create"]
    BY <1>1 DEF CsvLook, Finish
  <2>2. Turns(q, [q EXCEPT !.op = "create"], "create", q.at, q.office, q.was, q.read, q.todo)
    BY <1>1 DEF Turns, Request, OperationKinds
  <2>3. Does(q, {"csv"}, {"start"}) /\ q.at = "start" /\ RequestOnly
    BY DEF CsvLook, At, Does, UnchangedData, UnchangedWorld, RequestOnly
  <2> HIDE DEF q, u
  <2> QED  BY <2>1, <2>2, <2>3 DEF CsvLooked
<1>17. CreateLook(r) => CreateLooked(r, q, u)
  <2> SUFFICES ASSUME CreateLook(r) PROVE CreateLooked(r, q, u)
    OBVIOUS
  <2> DEFINE a == IF q.change = "set" THEN "clear" ELSE "insert"
  <2>1. Does(q, {"create"}, {"start"}) /\ RequestOnly
    BY DEF CreateLook, At, Does, UnchangedData, UnchangedWorld, RequestOnly
  <2>2. a \in Calls /\ (LiveOffices = {}) \in BOOLEAN
    BY DEF Calls
  <2>3. u = Idle \/ (~NameTaken(q.name, {}) /\ u = [q EXCEPT !.was = LiveOffices = {}, !.at = a])
    BY <1>1 DEF CreateLook, Finish
  <2> DEFINE b == LiveOffices = {}
  <2>4. Turns(q, [q EXCEPT !.was = b, !.at = a], q.op, a, q.office, b, q.read, q.todo)
    <3> HIDE DEF a, b
    <3>1. a \in Calls /\ b \in BOOLEAN
      BY <2>2 DEF b
    <3> QED  BY <3>1, <1>1 DEF Turns, Request
  <2> HIDE DEF q, u
  <2> QED  BY <2>1, <2>3, <2>4 DEF CreateLooked
<1>18. CreateClear(r) => CreateCleared(r, q, u)
  BY <1>1, <1>2, <1>3, <1>5, <1>6, <1>7, <1>8, CallsAre DEF CreateClear, CreateCleared, UnchangedData, UnchangedProducts, UnchangedWorld, RequestOnly, OfficesOnly
<1>19. CreateInsert(r) => CreateInserted(r, q, u)
  BY <1>1, <1>2, <1>3, <1>5, <1>6, <1>7, <1>8, CallsAre DEF CreateInsert, CreateInserted, UnchangedData, UnchangedProducts, UnchangedWorld, RequestOnly, OfficesOnly
<1>20. UpdateLook(r) => UpdateLooked(r, q, u)
  <2> SUFFICES ASSUME UpdateLook(r) PROVE UpdateLooked(r, q, u)
    OBVIOUS
  <2> DEFINE a == IF q.change = "set" THEN "clear" ELSE "write"
             b == q.name # offices[q.office].name
  <2>1. Does(q, {"update"}, {"start"}) /\ RequestOnly
    BY DEF UpdateLook, At, Does, UnchangedData, UnchangedWorld, RequestOnly
  <2>2. \/ u = Idle
        \/ /\ Live(q.office) /\ (b => ~NameTaken(q.name, {q.office}))
           /\ u = [q EXCEPT !.was = b, !.at = a]
    BY <1>1 DEF UpdateLook, Finish
  <2>3. Turns(q, [q EXCEPT !.was = b, !.at = a], q.op, a, q.office, b, q.read, q.todo)
    <3>1. a \in Calls /\ b \in BOOLEAN
      BY DEF Calls
    <3> HIDE DEF a, b
    <3> QED  BY <3>1, <1>1 DEF Turns, Request
  <2> HIDE DEF q, u
  <2> QED  BY <2>1, <2>2, <2>3 DEF UpdateLooked
<1>21. UpdateClear(r) => UpdateCleared(r, q, u)
  BY <1>1, <1>2, <1>3, <1>5, <1>6, <1>7, <1>8, CallsAre DEF UpdateClear, UpdateCleared, UnchangedData, UnchangedProducts, UnchangedWorld, RequestOnly, OfficesOnly
<1>22. UpdateWrite(r) => UpdateWritten(r, q, u)
  BY <1>1, <1>2, <1>3, <1>5, <1>6, <1>7, <1>8, CallsAre DEF UpdateWrite, UpdateWritten, UnchangedData, UnchangedProducts, UnchangedWorld, RequestOnly, OfficesOnly
<1>23. Propagate(r) => Propagated(r, q, u)
  BY <1>1, <1>2, <1>3, <1>5, <1>6, <1>7, <1>8, CallsAre DEF Propagate, Propagated, UnchangedData, UnchangedProducts, UnchangedWorld, RequestOnly, OfficesOnly
<1>24. Affected(r) => AffectedRead(r, q, u)
  <2> SUFFICES ASSUME Affected(r) PROVE AffectedRead(r, q, u)
    OBVIOUS
  <2>1. Does(q, {"update"}, {"affected"}) /\ RequestOnly
    BY DEF Affected, At, Does, UnchangedData, UnchangedWorld, RequestOnly
  <2>2. u = [q EXCEPT !.at = "sync", !.read = products, !.todo = In(q.office)]
    BY <1>1 DEF Affected
  <2>3. In(q.office) \in SUBSET Products
    BY DEF In
  <2>4. \A t \in SUBSET Products :
            Turns(q, [q EXCEPT !.at = "sync", !.read = products, !.todo = t], q.op, "sync", q.office, q.was, products, t)
    BY <1>1 DEF Turns, Request, Calls
  <2> HIDE DEF q, u
  <2> QED  BY <2>1, <2>2, <2>3, <2>4 DEF AffectedRead
<1>25. SyncAffected(r) => AffectedSynced(r, q, u)
  <2> SUFFICES ASSUME SyncAffected(r) PROVE AffectedSynced(r, q, u)
    OBVIOUS
  <2>1. Does(q, {"update"}, {"sync"}) /\ q.at = "sync" /\ UNCHANGED <<offices, products, refused, bypassed>>
    BY DEF SyncAffected, At, Does, UnchangedData, UnchangedWorld
  <2>2. \A t \in SUBSET Products : Turns(q, [q EXCEPT !.todo = t], q.op, q.at, q.office, q.was, q.read, t)
    BY <1>1 DEF Turns, Request
  <2>3. \/ q.todo = {} /\ u = Idle /\ UNCHANGED copies
        \/ \E p \in q.todo :
             /\ copies' = [copies EXCEPT ![p] = [q.read[p] EXCEPT !.isDeleted = FALSE]]
             /\ u = [q EXCEPT !.todo = q.todo \ {p}]
    BY <1>1 DEF SyncAffected, Finish, UnchangedData
  <2>4. \A p : q.todo \ {p} \in SUBSET Products
    BY <1>2
  <2> HIDE DEF q, u
  <2> QED  BY <2>1, <2>2, <2>3, <2>4 DEF AffectedSynced
<1>26. ToggleLook(r) => ToggleLooked(r, q, u)
  BY <1>1, <1>2, <1>3, <1>5, <1>6, <1>7, <1>8, CallsAre DEF ToggleLook, ToggleLooked, UnchangedData, UnchangedProducts, UnchangedWorld, RequestOnly, OfficesOnly
<1>27. ToggleClear(r) => ToggleCleared(r, q, u)
  BY <1>1, <1>2, <1>3, <1>5, <1>6, <1>7, <1>8, CallsAre DEF ToggleClear, ToggleCleared, UnchangedData, UnchangedProducts, UnchangedWorld, RequestOnly, OfficesOnly
<1>28. ToggleWrite(r) => ToggleWritten(r, q, u)
  BY <1>1, <1>2, <1>3, <1>5, <1>6, <1>7, <1>8, CallsAre DEF ToggleWrite, ToggleWritten, UnchangedData, UnchangedProducts, UnchangedWorld, RequestOnly, OfficesOnly
<1>29. DeleteLook(r) => DeleteLooked(r, q, u)
  BY <1>1, <1>2, <1>3, <1>5, <1>6, <1>7, <1>8, CallsAre DEF DeleteLook, DeleteLooked, UnchangedData, UnchangedProducts, UnchangedWorld, RequestOnly, OfficesOnly, Turns, Request, OperationKinds, In, Defaults, LiveOffices
<1>30. Destroy(r) => ProductDestroyed(r, q, u)
  <2> SUFFICES ASSUME Destroy(r) PROVE ProductDestroyed(r, q, u)
    OBVIOUS
  <2>1. Does(q, {"delete"}, {"destroy"}) /\ UNCHANGED <<offices, copies, refused, bypassed>>
    BY DEF Destroy, At, Does, UnchangedWorld
  <2>2. CASE q.todo = {} /\ Goto(r, "check") /\ UNCHANGED products
    BY <2>1, <2>2, <1>5, CallsAre DEF ProductDestroyed
  <2>3. ASSUME NEW p \in q.todo,
               products' = [products EXCEPT ![p].isDeleted = TRUE],
               requests' = [requests EXCEPT ![r].at = "mark", ![r].todo = @ \ {p},
                                ![r].read = [@ EXCEPT ![p] = products'[p]]]
        PROVE  ProductDestroyed(r, q, u)
    <3>1. p \in Products /\ q.todo \ {p} \in SUBSET Products
      BY <1>2
    <3>2. products'[p] \in Product
      <4>1. products[p] \in Product
        BY <1>1, <3>1
      <4>2. [products[p] EXCEPT !.isDeleted = TRUE] \in Product
        BY <4>1, ProductFields
      <4> QED  BY <2>3, <3>1, <4>2, <1>1
    <3>3. [q.read EXCEPT ![p] = products'[p]] \in [Products -> Product]
      BY <1>2, <3>2
    <3>4. u = [q EXCEPT !.at = "mark", !.todo = q.todo \ {p}, !.read = [q.read EXCEPT ![p] = products'[p]]]
      BY <2>3, <1>1
    <3>5. \A t \in SUBSET Products, d \in [Products -> Product] :
              Turns(q, [q EXCEPT !.at = "mark", !.todo = t, !.read = d], q.op, "mark", q.office, q.was, d, t)
      BY <1>1 DEF Turns, Request, Calls
    <3>6. products' = [products EXCEPT ![p] = [products[p] EXCEPT !.isDeleted = TRUE]]
      BY <2>3, <1>1, <3>1
    <3> HIDE DEF q, u
    <3> QED  BY <2>1, <3>1, <3>3, <3>4, <3>5, <3>6 DEF ProductDestroyed
  <2>4. q.todo = {} \/ q.todo # {}
    OBVIOUS
  <2> QED  BY <2>2, <2>3 DEF Destroy
<1>31. Mark(r) => CopyMarked(r, q, u)
  BY <1>1, <1>2, <1>3, <1>5, <1>6, <1>7, <1>8, CallsAre DEF Mark, CopyMarked, UnchangedData, UnchangedProducts, UnchangedWorld, RequestOnly, OfficesOnly
<1>32. DeleteCheck(r) => DeleteChecked(r, q, u)
  BY <1>1, <1>2, <1>3, <1>5, <1>6, <1>7, <1>8, CallsAre DEF DeleteCheck, DeleteChecked, UnchangedData, UnchangedProducts, UnchangedWorld, RequestOnly, OfficesOnly
<1>33. DeleteWrite(r) => DeleteWritten(r, q, u)
  BY <1>1, <1>2, <1>3, <1>5, <1>6, <1>7, <1>8, CallsAre DEF DeleteWrite, DeleteWritten, UnchangedData, UnchangedProducts, UnchangedWorld, RequestOnly, OfficesOnly
<1>34. EnsureLook(r) => EnsureLooked(r, q, u)
  BY <1>1, <1>2, <1>3, <1>5, <1>6, <1>7, <1>8, CallsAre DEF EnsureLook, EnsureLooked, UnchangedData, UnchangedProducts, UnchangedWorld, RequestOnly, OfficesOnly, Turns, Request, OperationKinds, In, Defaults, LiveOffices
<1>35. EnsureWrite(r) => EnsureWritten(r, q, u)
  BY <1>1, <1>2, <1>3, <1>5, <1>6, <1>7, <1>8, CallsAre DEF EnsureWrite, EnsureWritten, UnchangedData, UnchangedProducts, UnchangedWorld, RequestOnly, OfficesOnly
<1> QED
  BY <1>10, <1>11, <1>12, <1>13, <1>14, <1>15, <1>16, <1>17, <1>18, <1>19, <1>20, <1>21, <1>22, <1>23, <1>24, <1>25, <1>26, <1>27, <1>28, <1>29, <1>30, <1>31, <1>32, <1>33, <1>34, <1>35 DEF Step, StepIs, Looks, Inserts, Clears, Sets, Rests

-----------------------------------------------------------------------------
\* The other requests stay as they are.

LEMMA StepFrame ==
    ASSUME IInv, NEW r \in Requests, Step(r)
    PROVE  /\ StepIs(r, requests[r], requests'[r]) /\ requests[r] # Idle
           /\ requests[r] \in Request /\ requests' = [requests EXCEPT ![r] = requests'[r]]
           /\ \A s \in Requests \ {r} : requests'[s] = requests[s]
           /\ traffic = "alone" => \A s \in Requests \ {r} : requests[s] = Idle /\ requests'[s] = Idle
           /\ traffic' = traffic /\ crashed' = crashed /\ shipping' = shipping /\ onTheWay' = onTheWay
<1>1. TypeOK /\ requests \in [Requests -> Request]
  BY DEF IInv, CommonInv, TypeOK
<1>2. /\ StepIs(r, requests[r], requests'[r]) /\ Busy(r)
      /\ requests' = [requests EXCEPT ![r] = requests'[r]]
      /\ traffic' = traffic /\ crashed' = crashed /\ shipping' = shipping /\ onTheWay' = onTheWay
  BY <1>1, StepForm, StepShape
<1>3. \A s \in Requests \ {r} : requests'[s] = requests[s]
  BY <1>1, <1>2
<1>4. traffic = "alone" => \A s \in Requests \ {r} : requests[s] = Idle
  BY <1>2 DEF IInv, AloneInv, Busy
<1> QED  BY <1>1, <1>2, <1>3, <1>4 DEF Busy

LEMMA TypeStep == ASSUME IInv, NEW r \in Requests, Step(r) PROVE TypeOK'
<1> DEFINE q == requests[r]
           u == requests'[r]
<1>1. /\ requests \in [Requests -> Request] /\ q \in Request
      /\ offices \in [Offices -> Office] /\ products \in [Products -> Product] /\ copies \in [Products -> Product]
      /\ refused \subseteq Offices /\ bypassed \subseteq Offices
  BY DEF IInv, CommonInv, TypeOK
<1>2. /\ q.office \in Offices \cup {None} /\ q.name \in Names \cup {None} /\ q.was \in BOOLEAN
      /\ q.change \in {"keep", "set", "unset"}
      /\ q.read \in [Products -> Product] /\ q.todo \in SUBSET Products
  BY <1>1 DEF Request
<1>3. /\ StepIs(r, q, u) /\ requests' = [requests EXCEPT ![r] = u]
      /\ traffic' = traffic /\ crashed' = crashed /\ shipping' = shipping /\ onTheWay' = onTheWay
  BY StepFrame
<1>4. q.op \in NamesOffice \/ Does(q, {"updateDefault"}, {"write"}) => q.office \in Offices
  BY DEF IInv, CommonInv, BodyFits
<1>5. Idle \in Request
  BY IdleFits
<1>6. \A x \in Offices : offices[x] \in Office
  BY <1>1
<1>7. \A p \in Products : products[p] \in Product /\ copies[p] \in Product
  BY <1>1
<1>8. SUFFICES /\ u \in Request /\ offices' \in [Offices -> Office] /\ products' \in [Products -> Product]
               /\ copies' \in [Products -> Product] /\ refused' \subseteq Offices /\ bypassed' \subseteq Offices
  <2>1. TypeOK
    BY DEF IInv, CommonInv
  <2> QED  BY <1>1, <1>3, <2>1 DEF TypeOK
<1> HIDE DEF q, u
<1>a. q = requests[r] /\ u = requests'[r]
  BY DEF q, u
<1>9. u \in Request
  BY <1>3, <1>5, <1>a, StepKinds
<1>10. offices' \in [Offices -> Office]
  <2>1. ASSUME NEW b \in BOOLEAN, Inserted(r, b) PROVE offices' \in [Offices -> Office]
    BY <2>1, <1>1, <1>2 DEF Inserted, Office, q
  <2>2. ASSUME NEW S, offices' = Cleared(S) PROVE offices' \in [Offices -> Office]
    BY <2>2, <1>1, <1>6, OfficeFields DEF Cleared
  <2>3. ASSUME NEW x \in Offices, NEW y \in Office, offices' = [offices EXCEPT ![x] = y]
        PROVE  offices' \in [Offices -> Office]
    BY <2>3, <1>1
  <2>4. q.office \in Offices => \A y \in Office : offices' = [offices EXCEPT ![q.office] = y] => offices' \in [Offices -> Office]
    BY <2>3
  <2>5. q.office \in Offices =>
           /\ Changed(offices[q.office], q.name, q.change) \in Office
           /\ [offices[q.office] EXCEPT !.isDefault = TRUE] \in Office
           /\ [offices[q.office] EXCEPT !.status = "deleted", !.isDefault = FALSE] \in Office
    BY <1>2, <1>6, OfficeFields
  <2>6. Does(q, {"update", "toggle", "delete"}, Calls) \/ Does(q, {"updateDefault"}, {"write"}) => q.office \in Offices
    BY <1>4 DEF Does, NamesOffice
  <2>7. CASE Inserts(r, q, u)
    BY <2>7, <2>1, <1>2 DEF Inserts, SetupInserted, UpdateDefaultInserted, CreateInserted
  <2>8. CASE Clears(r, q, u)
    BY <2>8, <2>2 DEF Clears, CreateCleared, UpdateCleared, ToggleCleared
  <2>9. CASE Sets(r, q, u)
    <3>1. q.office \in Offices
      BY <2>9, <2>6 DEF Sets, UpdateDefaultWritten, UpdateWritten, ToggleWritten, DeleteWritten, EnsureWritten, Does, Calls
    <3> QED  BY <2>9, <2>4, <2>5, <3>1 DEF Sets, UpdateDefaultWritten, UpdateWritten, ToggleWritten, DeleteWritten, EnsureWritten
  <2>10. CASE offices' = offices
    BY <2>10, <1>1
  <2> QED  BY <1>3, <1>a, <2>7, <2>8, <2>9, <2>10, StepKinds DEF StepIs, RequestOnly
<1>11. products' \in [Products -> Product]
  <2>1. CASE Propagated(r, q, u)
    BY <2>1, <1>1, <1>2, <1>7, ProductFields DEF Propagated, Renamed
  <2>2. CASE ProductDestroyed(r, q, u)
    <3>1. ASSUME NEW p \in q.todo, products' = [products EXCEPT ![p] = [products[p] EXCEPT !.isDeleted = TRUE]]
          PROVE  products' \in [Products -> Product]
      <4>1. p \in Products /\ [products[p] EXCEPT !.isDeleted = TRUE] \in Product
        BY <1>2, <1>7, ProductFields
      <4> QED  BY <3>1, <4>1, <1>1
    <3> QED  BY <2>2, <3>1, <1>1 DEF ProductDestroyed
  <2>3. CASE products' = products
    BY <2>3, <1>1
  <2> QED  BY <1>3, <1>a, <2>1, <2>2, <2>3, StepKinds DEF StepIs, Sets, Rests, UpdateWritten, ToggleWritten,
     DeleteWritten, EnsureWritten, Propagated, AffectedSynced, ProductDestroyed, CopyMarked, DeleteChecked,
     RequestOnly, OfficesOnly
<1>12. copies' \in [Products -> Product]
  <2>1. CASE AffectedSynced(r, q, u)
    <3>1. \A p \in q.todo : [q.read[p] EXCEPT !.isDeleted = FALSE] \in Product
      BY <1>2, ProductFields
    <3> QED  BY <2>1, <3>1, <1>1, <1>2 DEF AffectedSynced
  <2>2. CASE CopyMarked(r, q, u)
    BY <2>2, <1>1, <1>7, ProductFields DEF CopyMarked
  <2>3. CASE copies' = copies
    BY <2>3, <1>1
  <2> QED  BY <1>3, <1>a, <2>1, <2>2, <2>3, StepKinds DEF StepIs, Sets, Rests, UpdateWritten, ToggleWritten,
     DeleteWritten, EnsureWritten, Propagated, AffectedSynced, ProductDestroyed, CopyMarked, DeleteChecked,
     RequestOnly, OfficesOnly
<1>13. refused' \subseteq Offices /\ bypassed' \subseteq Offices
  <2>1. CASE DeleteChecked(r, q, u)
    BY <2>1, <1>1, <1>4 DEF DeleteChecked, Does, NamesOffice
  <2>2. CASE UpdateDefaultWritten(r, q, u)
    BY <2>2, <1>1, <1>4 DEF UpdateDefaultWritten
  <2>3. CASE refused' = refused /\ bypassed' = bypassed
    BY <2>3, <1>1
  <2> QED  BY <1>3, <1>a, <2>1, <2>2, <2>3, StepKinds DEF StepIs, Sets, Rests, UpdateWritten, ToggleWritten,
     DeleteWritten, EnsureWritten, Propagated, AffectedSynced, ProductDestroyed, CopyMarked, DeleteChecked,
     RequestOnly, OfficesOnly
<1> QED  BY <1>9, <1>10, <1>11, <1>12, <1>13

-----------------------------------------------------------------------------
\* What a step does to each office.

\* The office x after another step than an insert: only the office at hand is changed, but for
\* the flag.
LEMMA ClearedAre ==
    ASSUME offices \in [Offices -> Office], NEW S, offices' = Cleared(S), NEW x \in Offices
    PROVE  /\ offices'[x].status = offices[x].status /\ offices'[x].name = offices[x].name
           /\ offices'[x].isDefault <=> offices[x].isDefault /\ ~(Live(x) /\ x \notin S)
<1>1. offices[x] \in Office
  OBVIOUS
<1> QED  BY <1>1 DEF Cleared, Office

LEMMA ChangedAre ==
    ASSUME NEW y \in Office, NEW n, NEW c \in {"keep", "set", "unset"}
    PROVE  /\ Changed(y, n, c).status = y.status /\ Changed(y, n, c).name = n
           /\ Changed(y, n, c).isDefault <=> c = "set" \/ (y.isDefault /\ c # "unset")
BY DEF Changed, Office

\* The request at hand: its types, its body and its office.
LEMMA AtHand ==
    ASSUME IInv, NEW r \in Requests, requests[r].op # "none"
    PROVE  LET q == requests[r] IN
           /\ q \in Request /\ q.was \in BOOLEAN /\ q.change \in {"keep", "set", "unset"}
           /\ KeepsDefault => q.change # "unset"
           /\ q.read \in [Products -> Product] /\ q.todo \in SUBSET Products
           /\ BodyFits(q) /\ OfficeStands(q)
           /\ q.op \in NamesOffice \/ Does(q, {"updateDefault"}, {"write"}) => q.office \in Offices
           /\ offices \in [Offices -> Office]
BY DEF IInv, CommonInv, TypeOK, Request, BodyFits

LEMMA SetsAre ==
    ASSUME IInv, NEW r \in Requests, NEW q, NEW u, q = requests[r], u = requests'[r], Sets(r, q, u)
    PROVE  /\ q.office \in Offices /\ q.op # "none"
           /\ \A x \in Offices \ {q.office} : offices'[x] = offices[x]
           /\ DeleteWritten(r, q, u) => offices'[q.office].status = "deleted" /\ ~offices'[q.office].isDefault
           /\ ~DeleteWritten(r, q, u) => offices'[q.office].status = "live" /\ Live(q.office)
           /\ UpdateDefaultWritten(r, q, u) \/ UpdateWritten(r, q, u) =>
                 /\ offices'[q.office].name = q.name
                 /\ offices'[q.office].isDefault <=>
                       q.change = "set" \/ (offices[q.office].isDefault /\ q.change # "unset")
           /\ ToggleWritten(r, q, u) \/ EnsureWritten(r, q, u) =>
                 offices'[q.office].name = offices[q.office].name /\ offices'[q.office].isDefault
<1>1. q.op \in {"update", "toggle", "delete", "updateDefault"}
  BY DEF Sets, UpdateDefaultWritten, UpdateWritten, ToggleWritten, DeleteWritten, EnsureWritten, Does
<1>2. /\ q \in Request /\ q.change \in {"keep", "set", "unset"} /\ BodyFits(q) /\ OfficeStands(q)
      /\ offices \in [Offices -> Office]
  BY <1>1, AtHand
<1>3. q.office \in Offices
  BY <1>2 DEF BodyFits, Sets, UpdateDefaultWritten, UpdateWritten, ToggleWritten, DeleteWritten, EnsureWritten, Does,
     NamesOffice
<1>4. offices[q.office] \in Office
  BY <1>2, <1>3
<1>5. CASE DeleteWritten(r, q, u)
  <2>1. offices' = [offices EXCEPT ![q.office] = [offices[q.office] EXCEPT !.status = "deleted", !.isDefault = FALSE]]
    BY <1>5 DEF DeleteWritten
  <2>2. ~UpdateDefaultWritten(r, q, u) /\ ~UpdateWritten(r, q, u) /\ ~ToggleWritten(r, q, u) /\ ~EnsureWritten(r, q, u)
    BY <1>5 DEF DeleteWritten, UpdateDefaultWritten, UpdateWritten, ToggleWritten, EnsureWritten, Does
  <2> QED  BY <1>1, <1>2, <1>3, <1>4, <1>5, <2>1, <2>2 DEF Office
<1>6. CASE UpdateDefaultWritten(r, q, u) \/ UpdateWritten(r, q, u)
  <2>1. offices' = [offices EXCEPT ![q.office] = Changed(offices[q.office], q.name, q.change)]
    BY <1>6 DEF UpdateDefaultWritten, UpdateWritten
  <2>2. ~DeleteWritten(r, q, u) /\ ~ToggleWritten(r, q, u) /\ ~EnsureWritten(r, q, u)
    BY <1>6 DEF DeleteWritten, UpdateDefaultWritten, UpdateWritten, ToggleWritten, EnsureWritten, Does
  <2>3. Live(q.office)
    BY <1>6, <1>2 DEF UpdateDefaultWritten, UpdateWritten, OfficeStands, Does
  <2>4. offices'[q.office] = Changed(offices[q.office], q.name, q.change)
    BY <1>2, <1>3, <2>1
  <2>5. \A x \in Offices \ {q.office} : offices'[x] = offices[x]
    BY <1>2, <2>1
  <2> QED  BY <1>1, <1>2, <1>3, <1>4, <2>2, <2>3, <2>4, <2>5, ChangedAre DEF Live
<1>7. CASE ToggleWritten(r, q, u) \/ EnsureWritten(r, q, u)
  <2>1. offices' = [offices EXCEPT ![q.office] = [offices[q.office] EXCEPT !.isDefault = TRUE]]
    BY <1>7 DEF ToggleWritten, EnsureWritten
  <2>2. ~DeleteWritten(r, q, u) /\ ~UpdateDefaultWritten(r, q, u) /\ ~UpdateWritten(r, q, u)
    BY <1>7 DEF DeleteWritten, UpdateDefaultWritten, UpdateWritten, ToggleWritten, EnsureWritten, Does
  <2>3. Live(q.office)
    BY <1>7, <1>2 DEF ToggleWritten, EnsureWritten, OfficeStands, Does
  <2> QED  BY <1>1, <1>2, <1>3, <1>4, <2>1, <2>2, <2>3 DEF Office, Live
<1> QED  BY <1>5, <1>6, <1>7 DEF Sets

LEMMA InsertsAre ==
    ASSUME IInv, NEW r \in Requests, NEW q, NEW u, q = requests[r], u = requests'[r], Inserts(r, q, u)
    PROVE  /\ q.op # "none"
           /\ \E o \in Offices :
                 /\ offices[o].status = "unused"
                 /\ \A x \in Offices \ {o} : offices'[x] = offices[x]
                 /\ offices'[o].status = "live" /\ offices'[o].name = q.name
                 /\ offices'[o].isDefault <=> WillSet(q)
<1>1. q.op # "none"
  BY DEF Inserts, SetupInserted, UpdateDefaultInserted, CreateInserted, Does
<1>2. offices \in [Offices -> Office] /\ q.was \in BOOLEAN
  BY <1>1, AtHand
<1>3. ASSUME NEW b, Inserted(r, b)
      PROVE  \E o \in Offices :
                 /\ offices[o].status = "unused"
                 /\ \A x \in Offices \ {o} : offices'[x] = offices[x]
                 /\ offices'[o].status = "live" /\ offices'[o].name = q.name
                 /\ offices'[o].isDefault = b
  BY <1>2, <1>3 DEF Inserted
<1>4. CASE SetupInserted(r, q, u) \/ UpdateDefaultInserted(r, q, u)
  <2>1. Inserted(r, TRUE) /\ WillSet(q)
    BY <1>4 DEF SetupInserted, UpdateDefaultInserted, WillSet, Does, Inserting
  <2> QED  BY <1>1, <1>3, <2>1
<1>5. CASE CreateInserted(r, q, u)
  <2>1. Inserted(r, q.change = "set" \/ q.was) /\ (WillSet(q) <=> q.change = "set" \/ q.was)
    BY <1>5 DEF CreateInserted, WillSet, Does, Inserting
  <2> QED  BY <1>1, <1>3, <2>1
<1> QED  BY <1>4, <1>5 DEF Inserts

LEMMA ClearsAre ==
    ASSUME IInv, NEW r \in Requests, NEW q, NEW u, q = requests[r], u = requests'[r], Clears(r, q, u)
    PROVE  /\ q.op # "none"
           /\ u.op = q.op /\ u.office = q.office /\ u.name = q.name /\ u.change = q.change /\ u.was = q.was
           /\ q.op = "create" => u.at = "insert"
           /\ q.op # "create" => u.at = "write"
           /\ WillSet(u)
           /\ \A x \in Offices :
                 /\ offices'[x].status = offices[x].status /\ offices'[x].name = offices[x].name
                 /\ offices'[x].isDefault <=>
                       offices[x].isDefault /\ ~(Live(x) /\ (q.op = "update" => x # q.office))
<1>1. q.op \in {"create", "update", "toggle"} /\ q.at = "clear"
  BY DEF Clears, CreateCleared, UpdateCleared, ToggleCleared, Does
<1>2. offices \in [Offices -> Office] /\ BodyFits(q)
  BY <1>1, AtHand
<1>3. offices' = Cleared(IF q.op = "update" THEN {q.office} ELSE {})
  BY DEF Clears, CreateCleared, UpdateCleared, ToggleCleared, Does
<1>4. Calling(q, u, IF q.op = "create" THEN "insert" ELSE "write")
  BY DEF Clears, CreateCleared, UpdateCleared, ToggleCleared, Does
<1>5. q.op # "toggle" => q.change = "set"
  BY <1>1, <1>2 DEF BodyFits, Does
<1>6. WillSet(u)
  BY <1>1, <1>4, <1>5 DEF WillSet, Does, Calling, Turns
<1>7. \A x \in Offices :
         /\ offices'[x].status = offices[x].status /\ offices'[x].name = offices[x].name
         /\ offices'[x].isDefault <=> offices[x].isDefault /\ ~(Live(x) /\ (q.op = "update" => x # q.office))
  <2> DEFINE S == IF q.op = "update" THEN {q.office} ELSE {}
  <2>1. \A x \in Offices : (q.op = "update" => x # q.office) <=> x \notin S
    OBVIOUS
  <2> HIDE DEF S
  <2>2. offices' = Cleared(S)
    BY <1>3 DEF S
  <2> QED  BY <1>2, <2>1, <2>2, ClearedAre
<1> QED  BY <1>1, <1>4, <1>6, <1>7 DEF Calling, Turns

\* An office that is deleted stays so, no id is used twice, and a deletion is the end of
\* one office.
LEMMA OfficeMoves ==
    ASSUME IInv, NEW r \in Requests, Step(r), NEW x \in Offices
    PROVE  LET q == requests[r] u == requests'[r] IN
           /\ offices[x].status = "deleted" => offices'[x].status = "deleted"
           /\ offices'[x].status = "unused" => offices[x].status = "unused"
           /\ offices'[x].status = "deleted" =>
                 offices[x].status = "deleted" \/ (DeleteWritten(r, q, u) /\ x = q.office)
           /\ Live(x) => Live(x)' \/ (DeleteWritten(r, q, u) /\ x = q.office)
           /\ Live(x)' => Live(x) \/ (Inserts(r, q, u) /\ offices[x].status = "unused")
<1> DEFINE q == requests[r]
           u == requests'[r]
<1>1. StepIs(r, q, u) /\ offices \in [Offices -> Office]
  BY StepFrame DEF IInv, CommonInv, TypeOK
<1>2. q = requests[r] /\ u = requests'[r]
  OBVIOUS
<1>3. offices[x].status \in {"unused", "live", "deleted"}
  BY <1>1 DEF Office
<1> HIDE DEF q, u
<1>4. CASE offices' = offices
  BY <1>2, <1>4 DEF Live
<1>5. CASE Inserts(r, q, u)
  BY <1>2, <1>3, <1>5, InsertsAre DEF Live
<1>6. CASE Clears(r, q, u)
  BY <1>2, <1>3, <1>6, ClearsAre DEF Live
<1>7. CASE Sets(r, q, u)
  BY <1>2, <1>3, <1>7, SetsAre DEF Live
<1> QED  BY <1>1, <1>2, <1>4, <1>5, <1>6, <1>7, StepKinds DEF StepIs, RequestOnly

-----------------------------------------------------------------------------
\* Every traffic: the default office.

LEMMA LiveStays ==
    ASSUME IInv, NEW r \in Requests, Step(r), traffic = "together"
    PROVE  /\ \A x \in Offices : Live(x) => Live(x)'
           /\ LiveOffices # {} => LiveOffices' # {}
<1>1. ~DeleteWritten(r, requests[r], requests'[r])
  BY DEF DeleteWritten, Does, IInv, CommonInv, BodyFits
<1>2. \A x \in Offices : Live(x) => Live(x)'
  BY <1>1, OfficeMoves
<1> QED  BY <1>2 DEF LiveOffices

LEMMA DefaultsLiveStep == ASSUME IInv, NEW r \in Requests, Step(r) PROVE DefaultsLive'
<1> DEFINE q == requests[r]
           u == requests'[r]
<1>1. StepIs(r, q, u) /\ offices \in [Offices -> Office] /\ DefaultsLive
  BY StepFrame DEF IInv, CommonInv, TypeOK
<1>2. q = requests[r] /\ u = requests'[r]
  OBVIOUS
<1> HIDE DEF q, u
<1>3. CASE offices' = offices
  BY <1>1, <1>3 DEF DefaultsLive, Live
<1>4. CASE Inserts(r, q, u)
  BY <1>1, <1>2, <1>4, InsertsAre DEF Live, DefaultsLive
<1>5. CASE Clears(r, q, u)
  BY <1>1, <1>2, <1>5, ClearsAre DEF Live, DefaultsLive
<1>6. CASE Sets(r, q, u)
  BY <1>1, <1>2, <1>6, SetsAre DEF Live, DefaultsLive
<1> QED  BY <1>1, <1>2, <1>3, <1>4, <1>5, <1>6, StepKinds DEF StepIs, RequestOnly

LEMMA SomeDefaultStep == ASSUME IInv, NEW r \in Requests, Step(r) PROVE SomeDefault'
<1> DEFINE q == requests[r]
           u == requests'[r]
<1>1. StepIs(r, q, u) /\ offices \in [Offices -> Office] /\ SomeDefault /\ DefaultsLive
  BY StepFrame DEF IInv, CommonInv, TypeOK
<1>2. q = requests[r] /\ u = requests'[r] /\ crashed' = crashed
      /\ \A s \in Requests \ {r} : requests'[s] = requests[s]
  BY StepFrame
<1>3. SUFFICES ASSUME KeepsDefault, ~crashed, (LiveOffices # {})', (Defaults = {})', ~WillSet(u)
               PROVE  \E s \in Requests : WillSet(requests'[s])
  BY <1>2 DEF SomeDefault, WillSet, Does
<1>4. SUFFICES ASSUME Defaults = {}, LiveOffices # {} PROVE ~WillSet(q)
  <2>1. Defaults # {} \/ LiveOffices = {} => FALSE
    <3> HIDE DEF q, u
    <3>1. CASE offices' = offices
      BY <3>1, <1>3 DEF Defaults, LiveOffices, Live
    <3>2. CASE Inserts(r, q, u)
      <4>1. PICK o \in Offices :
                 /\ offices[o].status = "unused"
                 /\ \A x \in Offices \ {o} : offices'[x] = offices[x]
                 /\ offices'[o].status = "live"
                 /\ offices'[o].isDefault <=> WillSet(q)
        BY <1>2, <3>2, InsertsAre
      <4>2. ~offices'[o].isDefault
        BY <4>1, <1>3 DEF Defaults, LiveOffices, Live
      <4>3. Defaults = {}
        BY <4>1, <1>3 DEF Defaults, LiveOffices, Live
      <4>4. LiveOffices # {}
        <5>1. ~WillSet(q)
          BY <4>1, <4>2
        <5>2. CreateInserted(r, q, u) /\ q.change # "set" /\ ~q.was
          BY <5>1, <3>2 DEF Inserts, SetupInserted, UpdateDefaultInserted, CreateInserted, WillSet, Does, Inserting
        <5>3. OfficeStands(q)
          BY <1>2 DEF IInv, CommonInv
        <5> QED  BY <5>2, <5>3 DEF OfficeStands, CreateInserted, Does
      <4> QED  BY <4>3, <4>4
    <3>3. CASE Clears(r, q, u)
      BY <1>2, <1>3, <3>3, ClearsAre
    <3>4. CASE Sets(r, q, u)
      <4>1. q.office \in Offices /\ \A x \in Offices \ {q.office} : offices'[x] = offices[x]
        BY <1>2, <3>4, SetsAre
      <4>2. CASE DeleteWritten(r, q, u)
        <5>1. ~q.was
          BY <4>2, <1>3 DEF DeleteWritten, WillSet, Calling, Turns, Does
        <5>2. FlagStands(q)
          <6>1. traffic = "alone"
            BY <1>2, <4>2 DEF IInv, CommonInv, BodyFits, DeleteWritten, Does, TypeOK
          <6> QED  BY <6>1, <1>2 DEF IInv, AloneInv
        <5>3. q.office \notin Defaults
          BY <5>1, <5>2, <4>2 DEF FlagStands, DeleteWritten, Does, Working
        <5>4. offices'[q.office].status = "deleted"
          BY <1>2, <3>4, <4>2, SetsAre
        <5> QED  BY <4>1, <5>3, <5>4, <1>3 DEF Defaults, LiveOffices, Live
      <4>3. CASE ~DeleteWritten(r, q, u)
        <5>1. offices'[q.office].status = "live" /\ Live(q.office)
          BY <1>2, <3>4, <4>3, SetsAre
        <5>2. ~offices'[q.office].isDefault
          BY <4>1, <5>1, <1>3 DEF Defaults, LiveOffices, Live
        <5>3. q.change # "unset"
          BY <1>2, <1>3, <3>4, SetsAre, AtHand
        <5>4. ~offices[q.office].isDefault
          BY <1>2, <3>4, <4>3, <5>2, <5>3, SetsAre DEF Sets
        <5> QED  BY <4>1, <5>1, <5>2, <5>4, <1>3 DEF Defaults, LiveOffices, Live
      <4> QED  BY <4>2, <4>3
    <3> QED  BY <1>1, <1>2, <3>1, <3>2, <3>3, <3>4, StepKinds DEF StepIs, RequestOnly
  <2>2. Defaults = {} /\ LiveOffices # {}
    BY <2>1
  <2>3. PICK s \in Requests : WillSet(requests[s])
    BY <2>2, <1>1, <1>3 DEF SomeDefault
  <2>4. s # r
    BY <2>2, <2>3
  <2> QED  BY <2>3, <2>4, <1>2
<1> HIDE DEF q, u
<1>5. SUFFICES ASSUME WillSet(q) PROVE FALSE
  OBVIOUS
<1>6. CASE Looks(r, q, u) \/ Rests(r, q, u)
  <2>1. EnsureLooked(r, q, u)
    BY <1>5, <1>6 DEF Looks, Rests, SetupLooked, TenantLooked, UpdateDefaultLooked, CsvLooked, CreateLooked, UpdateLooked,
       AffectedRead, ToggleLooked, DeleteLooked, Propagated, AffectedSynced, ProductDestroyed,
       CopyMarked, DeleteChecked, WillSet, Does, Inserting
  <2>2. ~Live(q.office)
    BY <1>2, <2>1 DEF EnsureLooked, IInv, CommonInv, OfficeStands, Does
  <2>3. ~(LiveOffices \subseteq {q.office})
    BY <1>4, <2>2 DEF LiveOffices
  <2>4. PICK o \in LiveOffices : Turns(q, u, q.op, "promote", o, q.was, q.read, q.todo)
    BY <2>1, <2>3, <1>4 DEF EnsureLooked
  <2>5. WillSet(u)
    BY <2>1, <2>4 DEF EnsureLooked, Turns, WillSet, Does
  <2> QED  BY <2>5, <1>3
<1>7. CASE Inserts(r, q, u)
  BY <1>2, <1>3, <1>5, <1>7, InsertsAre DEF Defaults, LiveOffices, Live
<1>8. CASE Clears(r, q, u)
  BY <1>2, <1>3, <1>8, ClearsAre
<1>9. CASE Sets(r, q, u)
  <2>1. ~UpdateDefaultWritten(r, q, u) /\ ~DeleteWritten(r, q, u) /\ (UpdateWritten(r, q, u) => q.change = "set")
    BY <1>5 DEF UpdateDefaultWritten, DeleteWritten, UpdateWritten, WillSet, Does, Inserting
  <2>2. q.office \in Offices /\ offices'[q.office].status = "live" /\ offices'[q.office].isDefault
    BY <1>2, <1>9, <2>1, SetsAre DEF Sets
  <2> QED  BY <2>2, <1>3 DEF Defaults, LiveOffices, Live
<1> QED  BY <1>1, <1>6, <1>7, <1>8, <1>9 DEF StepIs

\* What an idle request says holds in every state.
LEMMA IdleNext ==
    /\ BodyFits(Idle)' /\ OfficeStands(Idle)' /\ FlagStands(Idle)' /\ HandStands(Idle)'
    /\ NameStands(Idle)' /\ CopyStands(Idle)'
<1>1. Idle.op = "none" /\ Idle.office = None /\ Idle.change = "keep"
  BY DEF Idle
<1>2. \A ops, ats : "none" \notin ops => ~Does(Idle, ops, ats)
  BY <1>1 DEF Does
<1>3. ~WillSet(Idle)
  BY IdleFits
<1>4. "none" \notin NamesOffice
  BY DEF NamesOffice
<1>5. Idle' = Idle
  BY DEF Idle, Nowhere
<1> HIDE DEF Idle
<1> QED
  BY <1>1, <1>2, <1>3, <1>4, <1>5 DEF BodyFits, OfficeStands, FlagStands, HandStands, NameStands, CopyStands, Inserting

LEMMA BodyStep ==
    ASSUME IInv, NEW r \in Requests, Step(r), NEW s \in Requests PROVE BodyFits(requests[s])'
<1> DEFINE q == requests[r]
           u == requests'[r]
<1>1. /\ StepIs(r, q, u) /\ q # Idle /\ traffic' = traffic
      /\ \A x \in Requests \ {r} : requests'[x] = requests[x]
  BY StepFrame
<1>2. BodyFits(q) /\ BodyFits(requests[s])
  BY DEF IInv, CommonInv
<1>3. CASE s # r
  BY <1>1, <1>2, <1>3 DEF BodyFits, Does
<1>4. SUFFICES ASSUME s = r, u # Idle PROVE BodyFits(u)
  <2>1. BodyFits(u) => BodyFits(requests[r])'
    BY <1>1 DEF BodyFits, Does
  <2> QED  BY <1>3, <2>1, IdleNext
<1>5. q = requests[r] /\ u = requests'[r]
  OBVIOUS
<1>6. q.op # "none"
  BY <1>1, <1>2 DEF BodyFits
<1>7. q \in Request /\ offices \in [Offices -> Office]
  BY <1>5, <1>6, AtHand
<1> HIDE DEF q, u
<1>8. CASE Looks(r, q, u)
  <2>1. CASE Calling(q, u, "insert") \/ (Calling(q, u, "clear") /\ q.op = "toggle")
    BY <2>1, <1>2, <1>6 DEF BodyFits, Calling, Turns, Does, NamesOffice
  <2>2. CASE TenantLooked(r, q, u) \/ CsvLooked(r, q, u)
    BY <2>2, <1>2, <1>4, <1>6, <1>7 DEF TenantLooked, CsvLooked, BodyFits, Turns, Does, NamesOffice
  <2>3. CASE UpdateDefaultLooked(r, q, u)
    <3>1. ASSUME NEW o \in Defaults, Turns(q, u, q.op, "write", o, q.was, q.read, q.todo) PROVE BodyFits(u)
      BY <2>3, <3>1, <1>2, <1>6 DEF UpdateDefaultLooked, Defaults, LiveOffices, BodyFits, Turns, Does, NamesOffice
    <3> QED  BY <2>1, <2>3, <3>1, <1>4 DEF UpdateDefaultLooked
  <2>4. CASE CreateLooked(r, q, u) \/ UpdateLooked(r, q, u)
    BY <2>4, <1>2, <1>4, <1>6, <1>7 DEF CreateLooked, UpdateLooked, BodyFits, Turns, Does, NamesOffice
  <2>5. CASE AffectedRead(r, q, u) \/ DeleteLooked(r, q, u)
    BY <2>5, <1>2, <1>4, <1>6, <1>7 DEF AffectedRead, DeleteLooked, BodyFits, Turns, Does, NamesOffice
  <2>6. CASE EnsureLooked(r, q, u)
    BY <2>6, <1>2, <1>4, <1>6, <1>7 DEF EnsureLooked, LiveOffices, BodyFits, Turns, Does, NamesOffice
  <2>7. CASE SetupLooked(r, q, u) \/ ToggleLooked(r, q, u)
    BY <2>7, <2>1, <1>4 DEF SetupLooked, ToggleLooked, Does
  <2> QED  BY <1>8, <2>2, <2>3, <2>4, <2>5, <2>6, <2>7 DEF Looks
<1>9. CASE Inserts(r, q, u)
  BY <1>4, <1>5, <1>9, StepKinds
<1>10. CASE Clears(r, q, u)
  <2>1. q.op \in {"create", "update", "toggle"}
    BY <1>10 DEF Clears, CreateCleared, UpdateCleared, ToggleCleared, Does
  <2> QED  BY <1>2, <1>5, <2>1, <1>10, ClearsAre DEF BodyFits, Does, NamesOffice
<1>11. CASE Sets(r, q, u)
  <2>1. u.op = q.op /\ u.office = q.office /\ u.change = q.change /\ u.at \in {"propagate", "ensure"}
    BY <1>4, <1>11 DEF Sets, UpdateDefaultWritten, UpdateWritten, ToggleWritten, DeleteWritten, EnsureWritten, Calling, Turns
  <2> QED  BY <2>1, <1>2, <1>6 DEF BodyFits, Does
<1>12. CASE Rests(r, q, u)
  <2>1. u.op = q.op /\ u.office = q.office /\ u.change = q.change /\ u.at # "clear" /\ q.op \in {"update", "delete"}
    BY <1>4, <1>12 DEF Rests, Propagated, AffectedSynced, ProductDestroyed, CopyMarked, DeleteChecked, Calling, Turns, Does
  <2> QED  BY <2>1, <1>2, <1>6 DEF BodyFits, Does, NamesOffice
<1> QED  BY <1>1, <1>8, <1>9, <1>10, <1>11, <1>12 DEF StepIs

LEMMA OfficeStep ==
    ASSUME IInv, NEW r \in Requests, Step(r), NEW s \in Requests PROVE OfficeStands(requests[s])'
<1> DEFINE q == requests[r]
           u == requests'[r]
<1>1. /\ StepIs(r, q, u) /\ q # Idle /\ traffic' = traffic /\ traffic \in {"alone", "together"}
      /\ \A x \in Requests \ {r} : requests'[x] = requests[x]
      /\ traffic = "alone" => \A x \in Requests \ {r} : requests'[x] = Idle
  BY StepFrame DEF IInv, CommonInv, TypeOK
<1>2. BodyFits(q) /\ OfficeStands(q) /\ BodyFits(requests[s]) /\ OfficeStands(requests[s])
  BY DEF IInv, CommonInv
<1>3. CASE s # r
  <2>1. CASE traffic = "alone"
    BY <1>1, <1>3, <2>1, IdleNext
  <2>2. CASE traffic = "together"
    <3>1. requests[s].op # "delete" /\ requests'[s] = requests[s]
      BY <1>1, <1>2, <1>3, <2>2 DEF BodyFits
    <3>2. requests[s].office \in Offices \/ ~Does(requests[s], {"update", "toggle", "updateDefault"}, {"clear", "write"})
             \/ Does(requests[s], {"updateDefault"}, {"clear"})
      BY <1>2 DEF BodyFits, Does, NamesOffice
    <3> QED  BY <3>1, <3>2, <1>2, <2>2, LiveStays DEF OfficeStands, Does
  <2> QED  BY <1>1, <2>1, <2>2
<1>4. SUFFICES ASSUME s = r, u # Idle PROVE OfficeStands(requests[r])'
  BY <1>3, IdleNext
<1>5. q = requests[r] /\ u = requests'[r]
  OBVIOUS
<1>6. q.op # "none"
  BY <1>1, <1>2 DEF BodyFits
<1>7. q \in Request /\ offices \in [Offices -> Office]
  BY <1>5, <1>6, AtHand
<1>a. ASSUME u.op \notin {"update", "toggle", "updateDefault", "delete", "create"} \/ u.at \notin {"insert", "clear", "write", "promote", "ensure"}
      PROVE  OfficeStands(requests[r])'
  BY <1>a, <1>5 DEF OfficeStands, Does
<1> HIDE DEF q, u
<1>8. CASE Looks(r, q, u)
  <2>1. offices' = offices
    BY <1>5, <1>8, StepKinds DEF RequestOnly
  <2>2. SUFFICES OfficeStands(u)
    BY <1>5, <2>1 DEF OfficeStands, Does, LiveOffices, Live
  <2>3. CASE SetupLooked(r, q, u) \/ ToggleLooked(r, q, u)
    BY <2>3, <1>2, <1>4, <1>6 DEF SetupLooked, ToggleLooked, OfficeStands, Calling, Turns, Does
  <2>4. CASE TenantLooked(r, q, u) \/ CsvLooked(r, q, u) \/ AffectedRead(r, q, u) \/ DeleteLooked(r, q, u)
    BY <2>4, <1>4 DEF TenantLooked, CsvLooked, AffectedRead, DeleteLooked, OfficeStands, Turns, Does
  <2>5. CASE UpdateDefaultLooked(r, q, u)
    BY <2>5, <1>4 DEF UpdateDefaultLooked, Defaults, LiveOffices, OfficeStands, Calling, Turns, Does
  <2>6. CASE CreateLooked(r, q, u) \/ UpdateLooked(r, q, u)
    BY <2>6, <1>4 DEF CreateLooked, UpdateLooked, OfficeStands, Turns, Does
  <2>7. CASE EnsureLooked(r, q, u)
    BY <2>7, <1>4 DEF EnsureLooked, LiveOffices, OfficeStands, Turns, Does
  <2> QED  BY <1>8, <2>3, <2>4, <2>5, <2>6, <2>7 DEF Looks
<1>9. CASE Inserts(r, q, u)
  BY <1>4, <1>5, <1>9, StepKinds
<1>10. CASE Clears(r, q, u)
  <2>1. q.op \in {"create", "update", "toggle"} /\ q.at = "clear"
    BY <1>10 DEF Clears, CreateCleared, UpdateCleared, ToggleCleared, Does
  <2>2. q.op # "create" => q.office \in Offices /\ Live(q.office)
    BY <2>1, <1>2 DEF BodyFits, OfficeStands, NamesOffice, Does
  <2>3. q.op = "create" => q.change = "set"
    BY <2>1, <1>2 DEF BodyFits, Does
  <2>4. /\ u.op = q.op /\ u.office = q.office /\ u.change = q.change
        /\ q.op = "create" => u.at = "insert"
        /\ q.op # "create" => u.at = "write"
        /\ \A x \in Offices : offices'[x].status = offices[x].status
    BY <1>5, <1>10, ClearsAre
  <2> QED  BY <1>5, <2>1, <2>2, <2>3, <2>4 DEF OfficeStands, Does, Live
<1>11. CASE Sets(r, q, u)
  <2>1. \/ u.at = "propagate"
        \/ DeleteWritten(r, q, u) /\ u.at = "ensure" /\ u.op = "delete" /\ u.office = q.office
    BY <1>4, <1>11 DEF Sets, UpdateDefaultWritten, UpdateWritten, ToggleWritten, DeleteWritten, EnsureWritten, Calling, Turns, Does
  <2>2. CASE DeleteWritten(r, q, u) /\ u.at = "ensure" /\ u.op = "delete" /\ u.office = q.office
    <3>1. offices'[q.office].status = "deleted"
      BY <1>5, <1>11, <2>2, SetsAre
    <3> QED  BY <1>5, <2>2, <3>1 DEF OfficeStands, Does, Live
  <2> QED  BY <1>a, <2>1, <2>2
<1>12. CASE Rests(r, q, u)
  <2>1. u.op \in {"update", "delete"} /\ u.at \in {"affected", "sync", "check", "mark", "destroy", "write"}
        /\ (u.at = "write" => u.op = "delete")
    BY <1>4, <1>12 DEF Rests, Propagated, AffectedSynced, ProductDestroyed, CopyMarked, DeleteChecked, Calling, Turns, Does
  <2> QED  BY <1>5, <2>1 DEF OfficeStands, Does
<1> QED  BY <1>1, <1>8, <1>9, <1>10, <1>11, <1>12 DEF StepIs

LEMMA CommonStep == ASSUME IInv, NEW r \in Requests, Step(r) PROVE CommonInv'
<1>1. TypeOK' /\ DefaultsLive' /\ SomeDefault'
  BY TypeStep, DefaultsLiveStep, SomeDefaultStep
<1>2. (crashed => traffic = "alone")'
  BY StepFrame DEF IInv, CommonInv
<1>3. \A s \in Requests : BodyFits(requests[s])' /\ OfficeStands(requests[s])'
  BY BodyStep, OfficeStep
<1> QED  BY <1>1, <1>2, <1>3 DEF CommonInv

-----------------------------------------------------------------------------
\* One request at a time: the default office, and what is in an office.

LEMMA FlagsAtHand ==
    ASSUME IInv, traffic = "alone", NEW r \in Requests
    PROVE  FlagStands(requests[r]) /\ HandStands(requests[r]) /\ OneDefault /\ Empty /\ DefaultsLive
BY DEF IInv, AloneInv, CommonInv

\* The default offices after a step are some of those before, or the one at hand.
LEMMA DefaultsMove ==
    ASSUME IInv, traffic = "alone", NEW r \in Requests, Step(r), ~Inserts(r, requests[r], requests'[r])
    PROVE  Defaults' \subseteq Defaults \/ Defaults' \subseteq {requests[r].office}
<1> DEFINE q == requests[r]
           u == requests'[r]
<1>1. StepIs(r, q, u) /\ offices \in [Offices -> Office] /\ ~Inserts(r, q, u)
  BY StepFrame DEF IInv, CommonInv, TypeOK
<1>2. q = requests[r] /\ u = requests'[r] /\ FlagStands(q) /\ OneDefault /\ DefaultsLive
  BY FlagsAtHand
<1>3. SUFFICES Defaults' \subseteq Defaults \/ Defaults' \subseteq {q.office}
  OBVIOUS
<1> HIDE DEF q, u
<1>4. CASE offices' = offices
  BY <1>4 DEF Defaults, LiveOffices, Live
<1>5. CASE Clears(r, q, u)
  BY <1>2, <1>5, ClearsAre DEF Defaults, LiveOffices, Live
<1>6. CASE Sets(r, q, u)
  <2>1. q.office \in Offices /\ \A x \in Offices \ {q.office} : offices'[x] = offices[x]
    BY <1>2, <1>6, SetsAre
  <2>2. CASE DeleteWritten(r, q, u)
    <3>1. offices'[q.office].status = "deleted"
      BY <1>2, <1>6, <2>2, SetsAre
    <3> QED  BY <2>1, <3>1 DEF Defaults, LiveOffices, Live
  <2>3. CASE UpdateDefaultWritten(r, q, u)
    <3>1. q.office \in Defaults
      BY <1>2, <2>3 DEF FlagStands, UpdateDefaultWritten
    <3> QED  BY <1>2, <2>1, <3>1 DEF OneDefault, Defaults, LiveOffices, Live
  <2>4. CASE UpdateWritten(r, q, u)
    <3>1. CASE q.change = "set"
      <4>1. WillSet(q)
        BY <2>4, <3>1 DEF UpdateWritten, WillSet
      <4>2. Defaults \subseteq {q.office}
        BY <1>2, <4>1 DEF FlagStands
      <4> QED  BY <2>1, <4>2 DEF Defaults, LiveOffices, Live
    <3>2. CASE q.change # "set"
      <4>1. ~DeleteWritten(r, q, u)
        BY <2>4 DEF UpdateWritten, DeleteWritten, Does
      <4>2. /\ offices'[q.office].isDefault => offices[q.office].isDefault
            /\ Live(q.office)
        BY <1>2, <1>6, <2>4, <3>2, <4>1, SetsAre
      <4> QED  BY <2>1, <4>2 DEF Defaults, LiveOffices, Live
    <3> QED  BY <3>1, <3>2
  <2>5. CASE ToggleWritten(r, q, u) \/ EnsureWritten(r, q, u)
    <3>1. WillSet(q) /\ q.op # "update"
      BY <2>5 DEF ToggleWritten, EnsureWritten, WillSet, Does
    <3>2. Defaults = {}
      BY <1>2, <3>1 DEF FlagStands
    <3> QED  BY <2>1, <3>2 DEF Defaults, LiveOffices, Live
  <2> QED  BY <1>6, <2>2, <2>3, <2>4, <2>5 DEF Sets
<1> QED  BY <1>1, <1>2, <1>4, <1>5, <1>6, StepKinds DEF StepIs, RequestOnly

LEMMA OneDefaultStep ==
    ASSUME IInv, traffic = "alone", NEW r \in Requests, Step(r) PROVE OneDefault'
<1> DEFINE q == requests[r]
           u == requests'[r]
<1>1. q = requests[r] /\ u = requests'[r] /\ FlagStands(q) /\ OneDefault
  BY FlagsAtHand
<1>2. ~Inserts(r, q, u) => Defaults' \subseteq Defaults \/ Defaults' \subseteq {q.office}
  BY DefaultsMove
<1> HIDE DEF q, u
<1>3. CASE Inserts(r, q, u)
  <2>1. PICK o \in Offices :
           /\ \A x \in Offices \ {o} : offices'[x] = offices[x]
           /\ offices'[o].isDefault <=> WillSet(q)
    BY <1>1, <1>3, InsertsAre
  <2>2. q.op # "update"
    BY <1>3 DEF Inserts, SetupInserted, UpdateDefaultInserted, CreateInserted, Does
  <2>3. WillSet(q) => Defaults = {}
    BY <1>1, <2>2 DEF FlagStands
  <2>4. CASE WillSet(q)
    <3>1. \A x \in Defaults' : x = o
      BY <2>1, <2>3, <2>4 DEF Defaults, LiveOffices, Live
    <3> QED  BY <3>1 DEF OneDefault
  <2>5. CASE ~WillSet(q)
    <3>1. Defaults' \subseteq Defaults
      BY <2>1, <2>5 DEF Defaults, LiveOffices, Live
    <3> QED  BY <1>1, <3>1 DEF OneDefault
  <2> QED  BY <2>4, <2>5
<1>4. CASE ~Inserts(r, q, u)
  BY <1>1, <1>2, <1>4 DEF OneDefault
<1> QED  BY <1>3, <1>4

LEMMA FlagStep ==
    ASSUME IInv, traffic = "alone", NEW r \in Requests, Step(r) PROVE FlagStands(requests[r])'
<1> DEFINE q == requests[r]
           u == requests'[r]
<1>1. StepIs(r, q, u) /\ offices \in [Offices -> Office] /\ OfficeStands(q) /\ BodyFits(q)
  BY StepFrame DEF IInv, CommonInv, TypeOK
<1>2. q = requests[r] /\ u = requests'[r] /\ FlagStands(q) /\ OneDefault /\ DefaultsLive
  BY FlagsAtHand
<1>3. SUFFICES ASSUME u # Idle PROVE FlagStands(requests[r])'
  BY IdleNext
<1>a. ASSUME ~WillSet(u), ~Does(u, {"updateDefault"}, {"write"}), ~Does(u, {"delete"}, Working)
      PROVE  FlagStands(requests[r])'
  BY <1>a DEF FlagStands, WillSet, Does, Working
<1>b. ASSUME offices' = offices, FlagStands(u) PROVE FlagStands(requests[r])'
  BY <1>b DEF FlagStands, Defaults, LiveOffices, Live, WillSet, Does
<1> HIDE DEF q, u
<1>4. CASE Looks(r, q, u)
  <2>1. offices' = offices
    BY <1>2, <1>4, StepKinds DEF RequestOnly
  <2>2. SUFFICES FlagStands(u)
    BY <1>b, <2>1
  <2>3. CASE SetupLooked(r, q, u) \/ ToggleLooked(r, q, u)
    BY <2>3, <1>3 DEF SetupLooked, ToggleLooked, FlagStands, WillSet, Calling, Turns, Does, Inserting, Working
  <2>4. CASE TenantLooked(r, q, u) \/ CsvLooked(r, q, u) \/ AffectedRead(r, q, u)
    BY <2>4, <1>3 DEF TenantLooked, CsvLooked, AffectedRead, FlagStands, WillSet, Turns, Does, Inserting, Working
  <2>5. CASE UpdateDefaultLooked(r, q, u)
    BY <2>5, <1>3 DEF UpdateDefaultLooked, FlagStands, WillSet, Calling, Turns, Does, Inserting, Working
  <2>6. CASE CreateLooked(r, q, u) \/ UpdateLooked(r, q, u)
    BY <2>6, <1>3 DEF CreateLooked, UpdateLooked, FlagStands, WillSet, Turns, Does, Inserting, Working, Defaults
  <2>7. CASE DeleteLooked(r, q, u)
    <3>1. q.office \in Offices
      BY <1>1, <2>7 DEF DeleteLooked, BodyFits, NamesOffice, Does
    <3> QED  BY <2>7, <3>1, <1>3 DEF DeleteLooked, FlagStands, WillSet, Turns, Does, Inserting, Working, Defaults, LiveOffices
  <2>8. CASE EnsureLooked(r, q, u)
    <3>1. Defaults = {}
      BY <2>8, <1>2 DEF EnsureLooked, FlagStands, WillSet, Does
    <3> QED  BY <2>8, <3>1, <1>3 DEF EnsureLooked, FlagStands, Turns, Does, Working
  <2> QED  BY <1>4, <2>3, <2>4, <2>5, <2>6, <2>7, <2>8 DEF Looks
<1>5. CASE Inserts(r, q, u)
  BY <1>2, <1>3, <1>5, StepKinds
<1>6. CASE Clears(r, q, u)
  <2>1. q.op \in {"create", "update", "toggle"}
    BY <1>6 DEF Clears, CreateCleared, UpdateCleared, ToggleCleared, Does
  <2>2. /\ u.op = q.op /\ u.office = q.office
        /\ \A x \in Offices :
              /\ offices'[x].status = offices[x].status
              /\ offices'[x].isDefault <=> offices[x].isDefault /\ ~(Live(x) /\ (q.op = "update" => x # q.office))
    BY <1>2, <1>6, ClearsAre
  <2>3. Defaults' = {} \/ (u.op = "update" /\ Defaults' = {u.office})
    <3>1. q.op # "update" => Defaults' = {}
      BY <2>2 DEF Defaults, LiveOffices, Live
    <3>2. q.op = "update" => Defaults' = {} \/ Defaults' = {q.office}
      BY <2>2 DEF Defaults, LiveOffices, Live
    <3> QED  BY <3>1, <3>2, <2>2
  <2> QED  BY <1>2, <2>1, <2>2, <2>3 DEF FlagStands, Does
<1>7. CASE Sets(r, q, u)
  <2>1. \/ u.op = "update" /\ u.at = "propagate"
        \/ DeleteWritten(r, q, u) /\ u.at = "ensure" /\ u.op = "delete" /\ q.was
    BY <1>3, <1>7 DEF Sets, UpdateDefaultWritten, UpdateWritten, ToggleWritten, DeleteWritten, EnsureWritten, Calling, Turns, Does
  <2>2. CASE u.op = "update" /\ u.at = "propagate"
    BY <2>2, <1>a DEF WillSet, Does, Inserting
  <2>3. CASE DeleteWritten(r, q, u) /\ u.at = "ensure" /\ u.op = "delete" /\ q.was
    <3>1. q.office \in Defaults
      BY <1>2, <2>3 DEF FlagStands, DeleteWritten, Does, Working
    <3>2. /\ q.office \in Offices /\ \A x \in Offices \ {q.office} : offices'[x] = offices[x]
          /\ offices'[q.office].status = "deleted"
      BY <1>2, <1>7, <2>3, SetsAre
    <3>3. Defaults' = {}
      BY <1>2, <3>1, <3>2 DEF OneDefault, Defaults, LiveOffices, Live
    <3> QED  BY <1>2, <2>3, <3>3 DEF FlagStands, Does, Working
  <2> QED  BY <2>1, <2>2, <2>3
<1>8. CASE Rests(r, q, u)
  <2>1. offices' = offices
    BY <1>2, <1>8, StepKinds
  <2>2. /\ u.op = q.op /\ u.office = q.office /\ u.was = q.was
        /\ \/ u.op = "update" /\ u.at \in {"affected", "sync"}
           \/ u.op = "delete" /\ u.at \in Working /\ q.at \in Working
    BY <1>3, <1>8 DEF Rests, Propagated, AffectedSynced, ProductDestroyed, CopyMarked, DeleteChecked, Calling, Turns, Does, Working
  <2>3. FlagStands(u)
    BY <1>2, <2>2 DEF FlagStands, WillSet, Does, Working, Inserting
  <2> QED  BY <1>b, <2>1, <2>3
<1> QED  BY <1>1, <1>4, <1>5, <1>6, <1>7, <1>8 DEF StepIs

-----------------------------------------------------------------------------
\* What a step does to the products.

LEMMA DestroyedIs ==
    ASSUME IInv, NEW r \in Requests, NEW q, NEW u, q = requests[r], u = requests'[r], ProductDestroyed(r, q, u)
    PROVE  \/ q.todo = {} /\ products' = products /\ u.at = "check" /\ u.todo = q.todo /\ u.read = q.read
           \/ \E p \in q.todo :
                 /\ p \in Products /\ u.at = "mark" /\ u.todo = q.todo \ {p}
                 /\ \A x \in Products \ {p} : products'[x] = products[x] /\ u.read[x] = q.read[x]
                 /\ products'[p].office = products[p].office /\ products'[p].isDeleted
                 /\ u.read[p] = products'[p]
<1>1. q.op # "none"
  BY DEF ProductDestroyed, Does
<1>2. q.todo \in SUBSET Products /\ q.read \in [Products -> Product] /\ products \in [Products -> Product]
  BY <1>1, AtHand DEF IInv, CommonInv, TypeOK
<1>3. CASE q.todo = {} /\ Calling(q, u, "check") /\ UNCHANGED products
  BY <1>3 DEF Calling, Turns
<1>4. ASSUME NEW p \in q.todo,
             products' = [products EXCEPT ![p] = [products[p] EXCEPT !.isDeleted = TRUE]],
             Turns(q, u, q.op, "mark", q.office, q.was, [q.read EXCEPT ![p] = products'[p]], q.todo \ {p})
      PROVE  /\ p \in Products /\ u.at = "mark" /\ u.todo = q.todo \ {p}
             /\ \A x \in Products \ {p} : products'[x] = products[x] /\ u.read[x] = q.read[x]
             /\ products'[p].office = products[p].office /\ products'[p].isDeleted
             /\ u.read[p] = products'[p]
  <2>1. p \in Products /\ products[p] \in Product
    BY <1>2
  <2>2. u.at = "mark" /\ u.todo = q.todo \ {p} /\ u.read = [q.read EXCEPT ![p] = products'[p]]
    BY <1>4 DEF Turns
  <2>3. products'[p] = [products[p] EXCEPT !.isDeleted = TRUE]
    BY <1>2, <1>4, <2>1
  <2>4. products'[p].office = products[p].office /\ products'[p].isDeleted
    BY <2>1, <2>3 DEF Product
  <2>5. \A x \in Products \ {p} : products'[x] = products[x] /\ u.read[x] = q.read[x]
    BY <1>2, <1>4, <2>2
  <2> QED  BY <1>2, <2>1, <2>2, <2>4, <2>5
<1> QED  BY <1>3, <1>4 DEF ProductDestroyed

LEMMA PropagatedIs ==
    ASSUME IInv, NEW r \in Requests, NEW q, NEW u, q = requests[r], u = requests'[r], Propagated(r, q, u)
    PROVE  \A p \in Products :
              /\ products'[p].office = products[p].office /\ products'[p].isDeleted = products[p].isDeleted
              /\ products[p].office = q.office => products'[p].officeName = q.name
              /\ products[p].office # q.office => products'[p] = products[p]
<1>1. SUFFICES ASSUME NEW p \in Products
      PROVE  /\ products'[p].office = products[p].office /\ products'[p].isDeleted = products[p].isDeleted
             /\ products[p].office = q.office => products'[p].officeName = q.name
             /\ products[p].office # q.office => products'[p] = products[p]
  OBVIOUS
<1>2. products[p] \in Product
  BY DEF IInv, CommonInv, TypeOK
<1>3. products'[p] = IF products[p].office = q.office THEN [products[p] EXCEPT !.officeName = q.name] ELSE products[p]
  BY DEF Propagated, Renamed
<1> QED  BY <1>2, <1>3 DEF Product

\* A product stays in its office, and what is deleted stays so.
LEMMA ProductsMove ==
    ASSUME IInv, NEW r \in Requests, Step(r), NEW p \in Products
    PROVE  LET q == requests[r] u == requests'[r] IN
           /\ products'[p].office = products[p].office
           /\ products[p].isDeleted => products'[p].isDeleted
           /\ products'[p].isDeleted => products[p].isDeleted \/ (ProductDestroyed(r, q, u) /\ p \in q.todo)
           /\ ~ProductDestroyed(r, q, u) /\ ~Propagated(r, q, u) => products' = products
<1> DEFINE q == requests[r]
           u == requests'[r]
<1>1. StepIs(r, q, u)
  BY StepFrame
<1>2. q = requests[r] /\ u = requests'[r]
  OBVIOUS
<1> HIDE DEF q, u
<1>3. CASE products' = products
  BY <1>2, <1>3
<1>4. CASE Propagated(r, q, u)
  BY <1>2, <1>4, PropagatedIs
<1>5. CASE ProductDestroyed(r, q, u)
  BY <1>2, <1>5, DestroyedIs
<1> QED  BY <1>1, <1>2, <1>3, <1>4, <1>5, StepKinds DEF StepIs, Rests, RequestOnly, OfficesOnly, AffectedSynced,
         CopyMarked, DeleteChecked

LEMMA InMoves ==
    ASSUME IInv, NEW r \in Requests, Step(r), NEW o \in Offices
    PROVE  /\ In(o)' \subseteq In(o)
           /\ ~ProductDestroyed(r, requests[r], requests'[r]) => In(o)' = In(o)
BY ProductsMove DEF In

LEMMA EmptyStep ==
    ASSUME IInv, traffic = "alone", NEW r \in Requests, Step(r) PROVE Empty'
<1> DEFINE q == requests[r]
           u == requests'[r]
<1>1. q = requests[r] /\ u = requests'[r] /\ HandStands(q) /\ Empty
  BY FlagsAtHand
<1>2. SUFFICES ASSUME NEW o \in Offices
               PROVE  /\ offices'[o].status = "deleted" => In(o)' = {}
                      /\ offices'[o].status = "unused" => \A p \in Products : products'[p].office # o
  BY DEF Empty
<1>3. offices'[o].status = "unused" => \A p \in Products : products'[p].office # o
  BY <1>1, OfficeMoves, ProductsMove DEF Empty
<1>4. DeleteWritten(r, q, u) => In(q.office) = {}
  BY <1>1 DEF DeleteWritten, HandStands, Does
<1>5. offices'[o].status = "deleted" => In(o)' = {}
  BY <1>1, <1>4, OfficeMoves, InMoves DEF Empty
<1> QED  BY <1>3, <1>5

LEMMA HandStep ==
    ASSUME IInv, traffic = "alone", NEW r \in Requests, Step(r) PROVE HandStands(requests[r])'
<1> DEFINE q == requests[r]
           u == requests'[r]
<1>1. StepIs(r, q, u) /\ BodyFits(q)
  BY StepFrame DEF IInv, CommonInv
<1>2. q = requests[r] /\ u = requests'[r] /\ HandStands(q)
  BY FlagsAtHand
<1>3. SUFFICES ASSUME u.op = "delete", u.at \in {"destroy", "mark", "check", "write"} PROVE HandStands(requests[r])'
  BY DEF HandStands, Does
<1>4. u # Idle
  BY <1>3 DEF Idle
<1> HIDE DEF q, u
<1>5. DeleteLooked(r, q, u) \/ ProductDestroyed(r, q, u) \/ CopyMarked(r, q, u) \/ DeleteChecked(r, q, u)
  <2>1. ~Inserts(r, q, u) /\ ~Clears(r, q, u)
    <3>1. Clears(r, q, u) => q.op \in {"create", "update", "toggle"} /\ u.op = q.op
      BY DEF Clears, CreateCleared, UpdateCleared, ToggleCleared, Does, Calling, Turns
    <3> QED  BY <1>2, <1>3, <1>4, <3>1, StepKinds
  <2>2. ~Sets(r, q, u)
    BY <1>3, <1>4 DEF Sets, UpdateDefaultWritten, UpdateWritten, ToggleWritten, DeleteWritten, EnsureWritten, Calling, Turns, Does
  <2>3. Looks(r, q, u) => DeleteLooked(r, q, u)
    BY <1>3, <1>4 DEF Looks, SetupLooked, TenantLooked, UpdateDefaultLooked, CsvLooked, CreateLooked, UpdateLooked,
       AffectedRead, ToggleLooked, EnsureLooked, Calling, Turns, Does
  <2>4. Rests(r, q, u) => ProductDestroyed(r, q, u) \/ CopyMarked(r, q, u) \/ DeleteChecked(r, q, u)
    BY <1>3, <1>4 DEF Rests, Propagated, AffectedSynced, Calling, Turns, Does
  <2> QED  BY <1>1, <2>1, <2>2, <2>3, <2>4 DEF StepIs
<1>6. q.op = "delete" /\ u.office = q.office /\ q.office \in Offices
  BY <1>1, <1>4, <1>5 DEF DeleteLooked, ProductDestroyed, CopyMarked, DeleteChecked, Calling, Turns, Does, BodyFits, NamesOffice
<1>7. PICK o \in Offices : o = q.office
  BY <1>6
<1>8. SUFFICES /\ u.at \in {"destroy", "mark"} => u.todo = In(o)' /\ u.todo \cap Recoverable = {}
               /\ u.at \in {"check", "write"} => In(o)' = {}
  <2>1. requests'[r].office = o /\ requests'[r].at = u.at /\ requests'[r].todo = u.todo
    BY <1>2, <1>6, <1>7
  <2>2. In(requests[r].office)' = In(o)'
    BY <2>1 DEF In
  <2> QED  BY <1>3, <1>8, <2>1, <2>2 DEF HandStands, Does
<1>9. ~ProductDestroyed(r, q, u) => In(o)' = In(o)
  BY <1>2, InMoves
<1>10. CASE DeleteLooked(r, q, u)
  <2>1. ~ProductDestroyed(r, q, u)
    BY <1>10 DEF DeleteLooked, ProductDestroyed, Does
  <2> QED  BY <1>4, <1>7, <1>9, <1>10, <2>1 DEF DeleteLooked, Turns, Blocks
<1>11. CASE ProductDestroyed(r, q, u)
  <2>1. q.todo = In(o) /\ q.todo \cap Recoverable = {}
    BY <1>2, <1>7, <1>11 DEF ProductDestroyed, HandStands, Does
  <2>2. CASE q.todo = {} /\ products' = products /\ u.at = "check" /\ u.todo = q.todo
    <3>1. In(o)' = In(o)
      BY <2>2 DEF In
    <3> QED  BY <2>1, <2>2, <3>1
  <2>3. ASSUME NEW p \in q.todo, p \in Products, u.at = "mark", u.todo = q.todo \ {p},
               \A x \in Products \ {p} : products'[x] = products[x], products'[p].isDeleted
        PROVE  u.at = "mark" /\ u.todo = In(o)' /\ u.todo \cap Recoverable = {}
    BY <2>1, <2>3 DEF In
  <2> QED  BY <1>2, <1>11, <2>2, <2>3, DestroyedIs
<1>12. CASE CopyMarked(r, q, u)
  <2>1. ~ProductDestroyed(r, q, u)
    BY <1>12 DEF CopyMarked, ProductDestroyed, Does
  <2> QED  BY <1>2, <1>7, <1>9, <1>12, <2>1 DEF CopyMarked, HandStands, Does, Calling, Turns
<1>13. CASE DeleteChecked(r, q, u)
  <2>1. ~ProductDestroyed(r, q, u)
    BY <1>13 DEF DeleteChecked, ProductDestroyed, Does
  <2> QED  BY <1>2, <1>4, <1>7, <1>9, <1>13, <2>1 DEF DeleteChecked, HandStands, Does, Calling, Turns
<1> QED  BY <1>5, <1>10, <1>11, <1>12, <1>13

LEMMA AloneStep == ASSUME IInv, NEW r \in Requests, Step(r) PROVE AloneInv'
<1>1. traffic' = traffic
  BY StepFrame
<1>2. SUFFICES ASSUME traffic = "alone"
               PROVE  /\ \A x, s \in Requests : (Busy(x) /\ Busy(s))' => x = s
                      /\ OneDefault' /\ Empty'
                      /\ \A s \in Requests : FlagStands(requests[s])' /\ HandStands(requests[s])'
  BY <1>1 DEF AloneInv
<1>3. \A s \in Requests \ {r} : requests'[s] = Idle
  BY StepFrame, <1>2
<1>4. \A x, s \in Requests : (Busy(x) /\ Busy(s))' => x = s
  BY <1>3 DEF Busy, Idle, Nowhere
<1>5. ASSUME NEW s \in Requests PROVE FlagStands(requests[s])' /\ HandStands(requests[s])'
  <2>1. CASE s = r
    BY <1>2, <2>1, FlagStep, HandStep
  <2>2. CASE s # r
    BY <1>3, <2>2, IdleNext
  <2> QED  BY <2>1, <2>2
<1> QED  BY <1>2, <1>4, <1>5, OneDefaultStep, EmptyStep

-----------------------------------------------------------------------------
\* As long as no request has died: names, destroyed products, and copies.

LEMMA WholeAtHand ==
    ASSUME IInv, traffic = "alone", ~crashed, NEW r \in Requests, Step(r)
    PROVE  LET q == requests[r] IN
           /\ NamesDiffer /\ NameStands(q) /\ CopyStands(q)
           /\ \A p \in Products : products[p].isDeleted =>
                 /\ p \notin Recoverable /\ products[p].office \in Offices
                 /\ \/ offices[products[p].office].status = "deleted"
                    \/ products[p].office \in refused
                    \/ Does(q, {"delete"}, Working) /\ q.office = products[p].office
           /\ \A o \in LiveOffices \ bypassed :
                 \/ \A p \in In(o) : products[p].officeName = offices[o].name
                 \/ Does(q, {"update"}, {"propagate"}) /\ q.office = o
           /\ \A p \in Products : Agrees(p) \/ Owes(q, p)
<1>1. \A s \in Requests : s # r => requests[s] = Idle
  BY StepFrame
<1>2. \A ops, ats : "none" \notin ops => ~Does(Idle, ops, ats)
  BY DEF Does, Idle
<1>3. /\ NamesDiffer
      /\ \A p \in Products : products[p].isDeleted => Destroyed(p)
      /\ \A o \in LiveOffices \ bypassed : Named(o)
      /\ \A p \in Products : Agrees(p) \/ \E s \in Requests : Owes(requests[s], p)
      /\ NameStands(requests[r]) /\ CopyStands(requests[r])
  BY DEF IInv, WholeInv
<1>4. ASSUME NEW p \in Products, products[p].isDeleted
      PROVE  /\ p \notin Recoverable /\ products[p].office \in Offices
             /\ \/ offices[products[p].office].status = "deleted"
                \/ products[p].office \in refused
                \/ Does(requests[r], {"delete"}, Working) /\ requests[r].office = products[p].office
  <2>1. Destroyed(p)
    BY <1>3, <1>4
  <2>2. ASSUME NEW s \in Requests, Does(requests[s], {"delete"}, Working) PROVE s = r
    BY <1>1, <1>2, <2>2
  <2> QED  BY <2>1, <2>2 DEF Destroyed
<1>5. ASSUME NEW o \in LiveOffices \ bypassed
      PROVE  \/ \A p \in In(o) : products[p].officeName = offices[o].name
             \/ Does(requests[r], {"update"}, {"propagate"}) /\ requests[r].office = o
  <2>1. ASSUME NEW s \in Requests, Does(requests[s], {"update"}, {"propagate"}) PROVE s = r
    BY <1>1, <1>2, <2>1
  <2> QED  BY <1>3, <2>1 DEF Named
<1>6. ASSUME NEW p \in Products PROVE Agrees(p) \/ Owes(requests[r], p)
  <2>1. ~Owes(Idle, p)
    BY IdleFits
  <2> QED  BY <1>1, <1>3, <2>1
<1> QED  BY <1>3, <1>4, <1>5, <1>6

LEMMA NamesStep ==
    ASSUME IInv, traffic = "alone", ~crashed, NEW r \in Requests, Step(r) PROVE NamesDiffer'
<1> DEFINE q == requests[r]
           u == requests'[r]
<1>1. StepIs(r, q, u)
  BY StepFrame
<1>2. q = requests[r] /\ u = requests'[r] /\ NamesDiffer /\ NameStands(q)
  BY WholeAtHand
<1>a. SUFFICES ASSUME KeepsDefault PROVE NamesDiffer'
  BY DEF NamesDiffer
<1> HIDE DEF q, u
<1>3. CASE offices' = offices
  BY <1>2, <1>3 DEF NamesDiffer, LiveOffices, Live
<1>4. CASE Inserts(r, q, u)
  <2>1. PICK o \in Offices :
           /\ \A x \in Offices \ {o} : offices'[x] = offices[x]
           /\ offices'[o].name = q.name
    BY <1>2, <1>4, InsertsAre
  <2>2. LiveOffices = {} \/ ~NameTaken(q.name, {})
    BY <1>2, <1>4, <1>a DEF Inserts, SetupInserted, UpdateDefaultInserted, CreateInserted, NameStands, Does, Inserting
  <2>3. \A x \in LiveOffices : offices[x].name # q.name
    BY <2>2 DEF NameTaken
  <2> QED  BY <1>2, <2>1, <2>3 DEF NamesDiffer, LiveOffices, Live
<1>5. CASE Clears(r, q, u)
  <2>1. \A x \in Offices : offices'[x].status = offices[x].status /\ offices'[x].name = offices[x].name
    BY <1>2, <1>5, ClearsAre
  <2> QED  BY <1>2, <2>1 DEF NamesDiffer, LiveOffices, Live
<1>6. CASE Sets(r, q, u)
  <2>1. /\ q.office \in Offices /\ \A x \in Offices \ {q.office} : offices'[x] = offices[x]
        /\ DeleteWritten(r, q, u) => offices'[q.office].status = "deleted"
        /\ ~DeleteWritten(r, q, u) => Live(q.office)
    BY <1>2, <1>6, SetsAre
  <2>2. CASE DeleteWritten(r, q, u)
    BY <1>2, <2>1, <2>2 DEF NamesDiffer, LiveOffices, Live
  <2>3. CASE UpdateDefaultWritten(r, q, u) \/ UpdateWritten(r, q, u)
    <3>1. offices'[q.office].name = q.name
      BY <1>2, <1>6, <2>3, SetsAre
    <3>2. q.name = offices[q.office].name \/ ~NameTaken(q.name, {q.office})
      BY <1>2, <2>3 DEF UpdateDefaultWritten, UpdateWritten, NameStands, Does
    <3>3. Live(q.office)
      BY <2>1, <2>3 DEF DeleteWritten, UpdateDefaultWritten, UpdateWritten, Does
    <3>4. \A x \in LiveOffices \ {q.office} : offices[x].name # q.name
      BY <1>2, <1>a, <2>1, <3>2, <3>3 DEF NamesDiffer, NameTaken, LiveOffices
    <3> QED  BY <1>2, <2>1, <3>1, <3>4 DEF NamesDiffer, LiveOffices, Live
  <2>4. CASE ToggleWritten(r, q, u) \/ EnsureWritten(r, q, u)
    <3>1. offices'[q.office].name = offices[q.office].name
      BY <1>2, <1>6, <2>4, SetsAre
    <3>2. ~DeleteWritten(r, q, u)
      BY <2>4 DEF DeleteWritten, ToggleWritten, EnsureWritten, Does
    <3> QED  BY <1>2, <2>1, <3>1, <3>2 DEF NamesDiffer, LiveOffices, Live
  <2> QED  BY <1>6, <2>2, <2>3, <2>4 DEF Sets
<1> QED  BY <1>1, <1>2, <1>3, <1>4, <1>5, <1>6, StepKinds DEF StepIs, RequestOnly

LEMMA NameStandStep ==
    ASSUME IInv, traffic = "alone", ~crashed, NEW r \in Requests, Step(r) PROVE NameStands(requests[r])'
<1> DEFINE q == requests[r]
           u == requests'[r]
<1>1. /\ StepIs(r, q, u) /\ SomeDefault /\ \A s \in Requests : s # r => requests[s] = Idle
      /\ BodyFits(q) /\ offices \in [Offices -> Office]
  BY StepFrame DEF IInv, CommonInv, TypeOK
<1>2. q = requests[r] /\ u = requests'[r] /\ NameStands(q)
  BY WholeAtHand
<1>3. SUFFICES ASSUME u # Idle PROVE NameStands(requests[r])'
  BY IdleNext
<1>a. ASSUME u.op \notin {"setup", "updateDefault", "create", "update"} \/ u.at \in {"start", "affected", "sync"}
      PROVE  NameStands(requests[r])'
  BY <1>a DEF NameStands, Does, Inserting
<1>b. ASSUME offices' = offices, NameStands(u) PROVE NameStands(requests[r])'
  BY <1>b DEF NameStands, NameTaken, LiveOffices, Live
<1>4. ASSUME KeepsDefault, Defaults = {}, ~WillSet(q) PROVE LiveOffices = {}
  BY <1>1, <1>4, IdleFits DEF SomeDefault
<1> HIDE DEF q, u
<1>5. CASE Looks(r, q, u)
  <2>1. offices' = offices
    BY <1>2, <1>5, StepKinds DEF RequestOnly
  <2>2. CASE SetupLooked(r, q, u)
    <3>1. Defaults = {} /\ ~WillSet(q) /\ u.op = "setup" /\ u.at = "insert"
      BY <1>3, <2>2 DEF SetupLooked, Calling, Turns, WillSet, Does, Inserting
    <3> QED  BY <1>4, <1>b, <2>1, <3>1 DEF NameStands, Does, Inserting
  <2>3. CASE UpdateDefaultLooked(r, q, u)
    <3>1. ~WillSet(q) /\ q.op = "updateDefault"
      BY <2>3 DEF UpdateDefaultLooked, WillSet, Does, Inserting
    <3>2. CASE Defaults = {} /\ Calling(q, u, "insert")
      BY <1>4, <1>b, <2>1, <3>1, <3>2 DEF NameStands, Does, Inserting, Calling, Turns
    <3>3. ASSUME NEW o \in Defaults, NameTaken(q.name, {o}) => q.name = offices[o].name,
                 Turns(q, u, q.op, "write", o, q.was, q.read, q.todo)
          PROVE  NameStands(u)
      BY <3>1, <3>3 DEF NameStands, Does, Inserting, Turns
    <3> QED  BY <1>3, <1>b, <2>1, <2>3, <3>2, <3>3 DEF UpdateDefaultLooked
  <2>4. CASE CreateLooked(r, q, u)
    BY <1>3, <1>b, <2>1, <2>4 DEF CreateLooked, NameStands, Does, Inserting, Turns
  <2>5. CASE UpdateLooked(r, q, u)
    BY <1>3, <1>b, <2>1, <2>5 DEF UpdateLooked, NameStands, Does, Inserting, Turns
  <2>6. CASE \/ TenantLooked(r, q, u) \/ CsvLooked(r, q, u) \/ AffectedRead(r, q, u) \/ ToggleLooked(r, q, u)
             \/ DeleteLooked(r, q, u) \/ EnsureLooked(r, q, u)
    BY <1>3, <1>a, <2>6 DEF TenantLooked, CsvLooked, AffectedRead, ToggleLooked, DeleteLooked, EnsureLooked, Does,
       Calling, Turns
  <2> QED  BY <1>5, <2>2, <2>3, <2>4, <2>5, <2>6 DEF Looks
<1>6. CASE Inserts(r, q, u)
  BY <1>2, <1>3, <1>6, StepKinds
<1>7. CASE Clears(r, q, u)
  <2>1. q.op \in {"create", "update", "toggle"} /\ q.at = "clear" /\ (q.op = "update" => q.office \in Offices)
    BY <1>1, <1>7 DEF Clears, CreateCleared, UpdateCleared, ToggleCleared, Does, BodyFits, NamesOffice
  <2>2. /\ u.op = q.op /\ u.office = q.office /\ u.name = q.name /\ u.was = q.was
        /\ q.op = "create" => u.at = "insert"
        /\ q.op # "create" => u.at = "write"
        /\ \A x \in Offices : offices'[x].status = offices[x].status /\ offices'[x].name = offices[x].name
    BY <1>2, <1>7, ClearsAre
  <2>3. CASE q.op = "create"
    <3>1. ~NameTaken(q.name, {})
      BY <1>2, <2>1, <2>3 DEF NameStands, Does
    <3>2. u.op = "create" /\ u.at = "insert" /\ ~NameTaken(u.name, {})
      BY <2>2, <2>3, <3>1
    <3>3. ~NameTaken(requests[r].name, {})'
      BY <1>2, <2>2, <3>2 DEF NameTaken, LiveOffices, Live
    <3> QED  BY <1>2, <3>2, <3>3 DEF NameStands, Does, Inserting
  <2>4. CASE q.op = "update"
    <3>1. IF q.was THEN ~NameTaken(q.name, {q.office}) ELSE q.name = offices[q.office].name
      BY <1>2, <2>1, <2>4 DEF NameStands, Does
    <3>2. u.op = "update" /\ u.at = "write"
      BY <2>2, <2>4
    <3>3. IF u.was THEN ~NameTaken(requests[r].name, {requests[r].office})' ELSE u.name = offices'[u.office].name
      BY <1>2, <2>1, <2>2, <2>4, <3>1 DEF NameTaken, LiveOffices, Live
    <3> QED  BY <1>2, <3>2, <3>3 DEF NameStands, Does, Inserting
  <2>5. CASE q.op = "toggle"
    BY <1>a, <2>2, <2>5
  <2> QED  BY <2>1, <2>3, <2>4, <2>5
<1>8. CASE Sets(r, q, u)
  <2>1. \/ u.op = "delete"
        \/ UpdateWritten(r, q, u) /\ u.op = "update" /\ u.at = "propagate" /\ u.name = q.name /\ u.office = q.office
    BY <1>3, <1>8 DEF Sets, UpdateDefaultWritten, UpdateWritten, ToggleWritten, DeleteWritten, EnsureWritten,
       Calling, Turns, Does
  <2>2. CASE UpdateWritten(r, q, u) /\ u.op = "update" /\ u.at = "propagate" /\ u.name = q.name /\ u.office = q.office
    <3>1. offices'[q.office].name = q.name
      BY <1>2, <1>8, <2>2, SetsAre
    <3> QED  BY <1>2, <2>2, <3>1 DEF NameStands, Does, Inserting
  <2> QED  BY <1>a, <2>1, <2>2
<1>9. CASE Rests(r, q, u)
  <2>1. u.op = "delete" \/ u.at \in {"affected", "sync"}
    BY <1>3, <1>9 DEF Rests, Propagated, AffectedSynced, ProductDestroyed, CopyMarked, DeleteChecked, Calling, Turns, Does
  <2> QED  BY <1>a, <2>1
<1> QED  BY <1>1, <1>5, <1>6, <1>7, <1>8, <1>9 DEF StepIs

LEMMA DestroyedStep ==
    ASSUME IInv, traffic = "alone", ~crashed, NEW r \in Requests, Step(r), NEW p \in Products, products'[p].isDeleted
    PROVE  Destroyed(p)'
<1> DEFINE q == requests[r]
           u == requests'[r]
<1>1. StepIs(r, q, u) /\ BodyFits(q) /\ q # Idle /\ HandStands(q)
  BY StepFrame, FlagsAtHand DEF IInv, CommonInv
<1>2. /\ q = requests[r] /\ u = requests'[r]
      /\ products'[p].office = products[p].office
      /\ products[p].isDeleted \/ (ProductDestroyed(r, q, u) /\ p \in q.todo)
  BY ProductsMove
<1>3. /\ refused \subseteq refused'
      /\ \A x \in Offices : offices[x].status = "deleted" => offices'[x].status = "deleted"
  <2>1. \A x \in Offices : offices[x].status = "deleted" => offices'[x].status = "deleted"
    BY OfficeMoves
  <2> HIDE DEF q, u
  <2>2. refused \subseteq refused'
    BY <1>1, <1>2, StepKinds DEF StepIs, RequestOnly, OfficesOnly, Rests, Propagated, AffectedSynced,
       ProductDestroyed, CopyMarked, DeleteChecked
  <2> QED  BY <2>1, <2>2
<1>4. products[p].isDeleted =>
         /\ p \notin Recoverable /\ products[p].office \in Offices
         /\ \/ offices[products[p].office].status = "deleted"
            \/ products[p].office \in refused
            \/ Does(q, {"delete"}, Working) /\ q.office = products[p].office
  BY WholeAtHand
<1>5. SUFFICES /\ p \notin Recoverable /\ products[p].office \in Offices
               /\ \/ offices'[products[p].office].status = "deleted"
                  \/ products[p].office \in refused'
                  \/ Does(u, {"delete"}, Working) /\ u.office = products[p].office
  BY <1>2 DEF Destroyed
<1> HIDE DEF q, u
<1>6. CASE ProductDestroyed(r, q, u)
  <2>1. q.op = "delete" /\ q.at = "destroy" /\ q.office \in Offices
    BY <1>1, <1>6 DEF ProductDestroyed, Does, BodyFits, NamesOffice
  <2>2. u.op = "delete" /\ u.at \in Working /\ u.office = q.office
    BY <1>6, <2>1 DEF ProductDestroyed, Calling, Turns, Working
  <2>3. p \in q.todo => p \notin Recoverable /\ products[p].office = q.office
    BY <1>1, <2>1 DEF HandStands, Does, In
  <2> QED  BY <1>2, <1>3, <1>4, <2>1, <2>2, <2>3 DEF Does
<1>7. CASE products[p].isDeleted /\ ~(Does(q, {"delete"}, Working) /\ q.office = products[p].office)
  BY <1>3, <1>4, <1>7
<1>8. CASE ~ProductDestroyed(r, q, u) /\ products[p].isDeleted /\ Does(q, {"delete"}, Working) /\ q.office = products[p].office
  <2>1. q.office \in Offices
    BY <1>4, <1>8
  <2>2. CopyMarked(r, q, u) \/ DeleteChecked(r, q, u) \/ DeleteWritten(r, q, u)
    BY <1>1, <1>8 DEF StepIs, Looks, Inserts, Clears, Sets, Rests, SetupLooked, TenantLooked, UpdateDefaultLooked,
       CsvLooked, CreateLooked, UpdateLooked, AffectedRead, ToggleLooked, DeleteLooked, EnsureLooked, SetupInserted,
       UpdateDefaultInserted, CreateInserted, CreateCleared, UpdateCleared, ToggleCleared, UpdateDefaultWritten,
       UpdateWritten, ToggleWritten, EnsureWritten, Propagated, AffectedSynced, Does, Working
  <2>3. CASE DeleteWritten(r, q, u)
    <3>1. offices'[q.office].status = "deleted"
      BY <1>2, <2>3, SetsAre DEF Sets
    <3> QED  BY <1>4, <1>8, <3>1
  <2>4. CASE CopyMarked(r, q, u) \/ DeleteChecked(r, q, u)
    BY <1>4, <1>8, <2>4 DEF CopyMarked, DeleteChecked, Calling, Turns, Does, Working
  <2> QED  BY <2>2, <2>3, <2>4
<1> QED  BY <1>2, <1>6, <1>7, <1>8

\* The name of an office that is not new, and who changes it.
LEMMA NameMoves ==
    ASSUME IInv, NEW r \in Requests, Step(r), NEW o \in Offices, Live(o), Live(o)', o \notin bypassed'
    PROVE  LET q == requests[r] u == requests'[r] IN
           \/ offices'[o].name = offices[o].name
           \/ UpdateWritten(r, q, u) /\ q.office = o /\ offices'[o].name = q.name
<1> DEFINE q == requests[r]
           u == requests'[r]
<1>1. StepIs(r, q, u)
  BY StepFrame
<1>2. q = requests[r] /\ u = requests'[r]
  OBVIOUS
<1> HIDE DEF q, u
<1>3. CASE offices' = offices
  BY <1>2, <1>3
<1>4. CASE Inserts(r, q, u)
  BY <1>2, <1>4, InsertsAre DEF Live
<1>5. CASE Clears(r, q, u)
  BY <1>2, <1>5, ClearsAre
<1>6. CASE Sets(r, q, u)
  <2>1. \A x \in Offices \ {q.office} : offices'[x] = offices[x]
    BY <1>2, <1>6, SetsAre
  <2>2. CASE o # q.office
    BY <1>2, <2>1, <2>2
  <2>3. CASE o = q.office /\ DeleteWritten(r, q, u)
    BY <1>2, <1>6, <2>3, SetsAre DEF Live
  <2>4. CASE o = q.office /\ UpdateDefaultWritten(r, q, u)
    <3>1. offices'[o].name = q.name
      BY <1>2, <1>6, <2>4, SetsAre
    <3>2. q.name = offices[o].name
      BY <2>4 DEF UpdateDefaultWritten
    <3> QED  BY <1>2, <3>1, <3>2
  <2>5. CASE o = q.office /\ UpdateWritten(r, q, u)
    BY <1>2, <1>6, <2>5, SetsAre
  <2>6. CASE o = q.office /\ (ToggleWritten(r, q, u) \/ EnsureWritten(r, q, u))
    BY <1>2, <1>6, <2>6, SetsAre
  <2> QED  BY <1>6, <2>2, <2>3, <2>4, <2>5, <2>6 DEF Sets
<1> QED  BY <1>1, <1>2, <1>3, <1>4, <1>5, <1>6, StepKinds DEF StepIs, RequestOnly

LEMMA NamedStep ==
    ASSUME IInv, traffic = "alone", ~crashed, NEW r \in Requests, Step(r),
           NEW o \in Offices, Live(o)', o \notin bypassed'
    PROVE  Named(o)'
<1> DEFINE q == requests[r]
           u == requests'[r]
<1>1. /\ StepIs(r, q, u) /\ q = requests[r] /\ u = requests'[r]
      /\ Empty /\ NameStands(q)
  BY StepFrame, FlagsAtHand, WholeAtHand
<1>2. /\ In(o)' \subseteq In(o)
      /\ Live(o) \/ offices[o].status = "unused"
      /\ \A p \in Products :
            /\ products'[p].office = products[p].office
            /\ ~ProductDestroyed(r, q, u) /\ ~Propagated(r, q, u) => products' = products
  BY InMoves, OfficeMoves, ProductsMove
<1>3. CASE ~Live(o)
  <2>1. In(o) = {}
    BY <1>1, <1>2, <1>3 DEF Empty, In
  <2> QED  BY <1>2, <2>1 DEF Named
<1>4. SUFFICES ASSUME Live(o) PROVE Named(o)'
  BY <1>3
<1>5. o \notin bypassed
  <2> HIDE DEF q, u
  <2> QED  BY <1>1, StepKinds DEF StepIs, RequestOnly, OfficesOnly, Sets, UpdateDefaultWritten, UpdateWritten,
           ToggleWritten, DeleteWritten, EnsureWritten
<1>6. \/ \A p \in In(o) : products[p].officeName = offices[o].name
      \/ Does(q, {"update"}, {"propagate"}) /\ q.office = o
  BY <1>4, <1>5, WholeAtHand DEF LiveOffices
<1>7. \/ offices'[o].name = offices[o].name
      \/ UpdateWritten(r, q, u) /\ q.office = o /\ offices'[o].name = q.name
  BY <1>4, NameMoves
<1> HIDE DEF q, u
<1>8. CASE UpdateWritten(r, q, u) /\ q.office = o /\ offices'[o].name = q.name
  <2>1. CASE q.was
    <3>1. Does(u, {"update"}, {"propagate"}) /\ u.office = o
      BY <1>8, <2>1 DEF UpdateWritten, Calling, Turns, Does
    <3> QED  BY <1>1, <3>1 DEF Named
  <2>2. CASE ~q.was
    <3>1. q.name = offices[o].name /\ \A p \in In(o) : products[p].officeName = offices[o].name
      BY <1>1, <1>6, <1>8, <2>2 DEF UpdateWritten, NameStands, Does
    <3>2. products' = products
      BY <1>8 DEF UpdateWritten, OfficesOnly
    <3> QED  BY <1>2, <1>8, <3>1, <3>2 DEF Named
  <2> QED  BY <2>1, <2>2
<1>9. CASE offices'[o].name = offices[o].name
  <2>1. CASE Propagated(r, q, u)
    <3>1. \A p \in Products :
             /\ products[p].office = q.office => products'[p].officeName = q.name
             /\ products[p].office # q.office => products'[p] = products[p]
      BY <1>1, <2>1, PropagatedIs
    <3>2. q.name = offices[q.office].name
      BY <1>1, <2>1 DEF Propagated, NameStands, Does
    <3> QED  BY <1>2, <1>6, <1>9, <3>1, <3>2 DEF Named, In
  <2>2. CASE ~Propagated(r, q, u)
    <3>1. ~Does(q, {"update"}, {"propagate"})
      BY <1>1, <2>2 DEF StepIs, Looks, Inserts, Clears, Sets, Rests, SetupLooked, TenantLooked,
         UpdateDefaultLooked, CsvLooked, CreateLooked, UpdateLooked, AffectedRead, ToggleLooked, DeleteLooked,
         EnsureLooked, SetupInserted, UpdateDefaultInserted, CreateInserted, CreateCleared, UpdateCleared,
         ToggleCleared, UpdateDefaultWritten, UpdateWritten, ToggleWritten, DeleteWritten, EnsureWritten,
         AffectedSynced, ProductDestroyed, CopyMarked, DeleteChecked, Does
    <3>2. \A p \in In(o)' : products'[p] = products[p]
      <4>1. CASE ProductDestroyed(r, q, u)
        <5>1. \/ products' = products
              \/ \E p \in Products :
                    (\A x \in Products \ {p} : products'[x] = products[x]) /\ products'[p].isDeleted
          BY <1>1, <4>1, DestroyedIs
        <5> QED  BY <5>1 DEF In
      <4>2. CASE ~ProductDestroyed(r, q, u)
        BY <1>2, <2>2, <4>2 DEF In
      <4> QED  BY <4>1, <4>2
    <3> QED  BY <1>2, <1>6, <1>9, <3>1, <3>2 DEF Named
  <2> QED  BY <2>1, <2>2
<1> QED  BY <1>7, <1>8, <1>9

\* Who writes copies, and what.
LEMMA CopiesMove ==
    ASSUME IInv, NEW r \in Requests, Step(r), NEW q, NEW u, q = requests[r], u = requests'[r], StepIs(r, q, u),
           ~AffectedSynced(r, q, u), ~CopyMarked(r, q, u)
    PROVE  copies' = copies
BY StepKinds DEF StepIs, RequestOnly, OfficesOnly, Sets, UpdateDefaultWritten, UpdateWritten, ToggleWritten,
   DeleteWritten, EnsureWritten, Rests, Propagated, ProductDestroyed, DeleteChecked

LEMMA SyncedIs ==
    ASSUME IInv, NEW r \in Requests, NEW q, NEW u, q = requests[r], u = requests'[r], CopyStands(q),
           AffectedSynced(r, q, u)
    PROVE  \/ q.todo = {} /\ copies' = copies
           \/ \E x \in q.todo :
                 /\ x \in Products /\ copies'[x] = products[x] /\ ~products[x].isDeleted
                 /\ \A p \in Products \ {x} : copies'[p] = copies[p]
                 /\ u.op = "update" /\ u.at = "sync" /\ u.todo = q.todo \ {x} /\ u.read = q.read /\ u.office = q.office
<1>1. /\ q.op # "none" /\ q.op = "update"
      /\ copies \in [Products -> Product] /\ \A p \in Products : products[p] \in Product
  BY DEF AffectedSynced, Does, IInv, CommonInv, TypeOK
<1>2. q.todo \in SUBSET Products
  BY <1>1, AtHand
<1>3. \A p \in q.todo : p \in In(q.office) /\ q.read[p] = products[p]
  BY DEF CopyStands, AffectedSynced, Does
<1>4. ASSUME NEW x \in q.todo, copies' = [copies EXCEPT ![x] = [q.read[x] EXCEPT !.isDeleted = FALSE]],
             Turns(q, u, q.op, "sync", q.office, q.was, q.read, q.todo \ {x})
      PROVE  /\ x \in Products /\ copies'[x] = products[x] /\ ~products[x].isDeleted
             /\ \A p \in Products \ {x} : copies'[p] = copies[p]
             /\ u.op = "update" /\ u.at = "sync" /\ u.todo = q.todo \ {x} /\ u.read = q.read /\ u.office = q.office
  <2>1. x \in Products /\ q.read[x] = products[x] /\ ~products[x].isDeleted
    BY <1>2, <1>3 DEF In
  <2>2. [products[x] EXCEPT !.isDeleted = FALSE] = products[x]
    BY <1>1, <2>1 DEF Product
  <2>3. copies'[x] = products[x]
    BY <1>1, <1>4, <2>1, <2>2
  <2>4. \A p \in Products \ {x} : copies'[p] = copies[p]
    BY <1>1, <1>4, <2>1
  <2> QED  BY <1>1, <1>4, <2>1, <2>3, <2>4 DEF Turns
<1> QED  BY <1>4 DEF AffectedSynced

LEMMA MarkedIs ==
    ASSUME IInv, NEW r \in Requests, NEW q, NEW u, q = requests[r], u = requests'[r], CopyStands(q),
           CopyMarked(r, q, u)
    PROVE  \E x \in Products :
              /\ products[x].isDeleted /\ ~copies[x].isDeleted /\ copies'[x].isDeleted = products[x].isDeleted
              /\ \A p \in Products \ {x} : copies'[p] = copies[p]
<1>1. copies \in [Products -> Product] /\ products \in [Products -> Product] /\ q.op = "delete"
  BY DEF CopyMarked, Does, IInv, CommonInv, TypeOK
<1>2. PICK x \in Products :
         /\ q.read[x].isDeleted /\ ~copies[x].isDeleted
         /\ copies' = [copies EXCEPT ![x] = [copies[x] EXCEPT !.isDeleted = TRUE]]
  BY DEF CopyMarked
<1>3. products[x].isDeleted
  BY <1>1, <1>2 DEF CopyStands
<1>4. copies[x] \in Product /\ products[x] \in Product
  BY <1>1
<1>5. copies'[x].isDeleted = products[x].isDeleted
  BY <1>1, <1>2, <1>3, <1>4 DEF Product
<1>6. \A p \in Products \ {x} : copies'[p] = copies[p]
  BY <1>1, <1>2
<1> QED  BY <1>2, <1>3, <1>5, <1>6

LEMMA CopiesStep ==
    ASSUME IInv, traffic = "alone", ~crashed, NEW r \in Requests, Step(r), NEW p \in Products
    PROVE  (Agrees(p) \/ Owes(requests[r], p))'
<1> DEFINE q == requests[r]
           u == requests'[r]
<1>1. /\ StepIs(r, q, u) /\ q = requests[r] /\ u = requests'[r]
      /\ CopyStands(q)
      /\ Agrees(p) \/ Owes(q, p)
      /\ products'[p].office = products[p].office
      /\ ~ProductDestroyed(r, q, u) /\ ~Propagated(r, q, u) => products' = products
  BY StepFrame, WholeAtHand, ProductsMove
<1>2. ~AffectedSynced(r, q, u) /\ ~CopyMarked(r, q, u) => copies' = copies
  BY <1>1, CopiesMove
<1>3. CASE AffectedSynced(r, q, u)
  <2> HIDE DEF q, u
  <2>1. q.op = "update" /\ q.at = "sync" /\ products' = products
    BY <1>3 DEF AffectedSynced, Does
  <2>2. CASE q.todo = {} /\ copies' = copies
    BY <1>1, <2>1, <2>2 DEF Agrees, Owes, Does
  <2>3. ASSUME NEW x \in q.todo, copies'[x] = products[x], ~products[x].isDeleted,
               \A y \in Products \ {x} : copies'[y] = copies[y],
               u.op = "update", u.at = "sync", u.todo = q.todo \ {x}
        PROVE  (Agrees(p) \/ Owes(requests[r], p))'
    <3>1. CASE p = x
      BY <2>1, <2>3, <3>1 DEF Agrees
    <3>2. CASE p # x /\ Agrees(p)
      BY <2>1, <2>3, <3>2 DEF Agrees
    <3>3. CASE p # x /\ Owes(q, p)
      BY <1>1, <2>1, <2>3, <3>3 DEF Owes, Does
    <3> QED  BY <1>1, <3>1, <3>2, <3>3
  <2> QED  BY <1>1, <1>3, <2>2, <2>3, SyncedIs
<1>4. CASE CopyMarked(r, q, u)
  <2> HIDE DEF q, u
  <2>1. q.op = "delete" /\ q.at = "mark" /\ products' = products
    BY <1>4 DEF CopyMarked, Does
  <2>2. PICK x \in Products :
              /\ products[x].isDeleted /\ ~copies[x].isDeleted /\ copies'[x].isDeleted = products[x].isDeleted
              /\ \A y \in Products \ {x} : copies'[y] = copies[y]
    BY <1>1, <1>4, MarkedIs
  <2>3. p = x \/ Agrees(p)
    BY <1>1, <2>1, <2>2 DEF CopyStands, Does, Agrees
  <2> QED  BY <2>1, <2>2, <2>3 DEF Agrees
<1>5. CASE AffectedRead(r, q, u)
  <2> HIDE DEF q, u
  <2>1. copies' = copies /\ products' = products
    BY <1>5 DEF AffectedRead, RequestOnly
  <2>2. q.at = "affected" /\ u.op = "update" /\ u.at = "sync" /\ u.todo = In(q.office)
    BY <1>5 DEF AffectedRead, Turns, Does
  <2> QED  BY <1>1, <2>1, <2>2 DEF Agrees, Owes, Does
<1>6. CASE Propagated(r, q, u)
  <2> HIDE DEF q, u
  <2>1. copies' = copies /\ q.at = "propagate" /\ u.op = "update" /\ u.at = "affected" /\ u.office = q.office
    BY <1>6 DEF Propagated, Calling, Turns, Does
  <2>2. /\ products'[p].isDeleted = products[p].isDeleted
        /\ products[p].office # q.office => products'[p] = products[p]
    BY <1>1, <1>6, PropagatedIs
  <2>3. Agrees(p)
    BY <1>1, <2>1 DEF Owes, Does
  <2> QED  BY <1>1, <2>1, <2>2, <2>3 DEF Agrees, Owes, Does, In
<1>7. CASE ProductDestroyed(r, q, u)
  <2> HIDE DEF q, u
  <2>1. copies' = copies /\ q.op = "delete" /\ q.at = "destroy"
    BY <1>7 DEF ProductDestroyed, Does
  <2>2. Agrees(p)
    BY <1>1, <2>1 DEF Owes, Does
  <2>3. CASE products' = products
    BY <2>1, <2>2, <2>3 DEF Agrees
  <2>4. ASSUME NEW x \in Products, u.at = "mark", products'[x].isDeleted,
               \A y \in Products \ {x} : products'[y] = products[y]
        PROVE  (Agrees(p) \/ Owes(requests[r], p))'
    <3>1. u.op = "delete"
      BY <1>7, <2>1 DEF ProductDestroyed, Calling, Turns
    <3> QED  BY <1>1, <2>1, <2>2, <2>4, <3>1 DEF Agrees, Owes, Does
  <2> QED  BY <1>1, <1>7, <2>3, <2>4, DestroyedIs
<1>8. CASE ~(\/ AffectedSynced(r, q, u) \/ CopyMarked(r, q, u) \/ AffectedRead(r, q, u) \/ Propagated(r, q, u)
             \/ ProductDestroyed(r, q, u))
  <2> HIDE DEF q, u
  <2>1. ~Does(q, {"update"}, {"affected", "sync"}) /\ ~Does(q, {"delete"}, {"mark"})
    BY <1>1, <1>8 DEF StepIs, Looks, Inserts, Clears, Sets, Rests, SetupLooked, TenantLooked, UpdateDefaultLooked,
       CsvLooked, CreateLooked, UpdateLooked, ToggleLooked, DeleteLooked, EnsureLooked, SetupInserted,
       UpdateDefaultInserted, CreateInserted, CreateCleared, UpdateCleared, ToggleCleared, UpdateDefaultWritten,
       UpdateWritten, ToggleWritten, DeleteWritten, EnsureWritten, DeleteChecked, Does
  <2> QED  BY <1>1, <1>2, <1>8, <2>1 DEF Agrees, Owes, Does
<1> QED  BY <1>3, <1>4, <1>5, <1>6, <1>7, <1>8

LEMMA CopyStandStep ==
    ASSUME IInv, traffic = "alone", ~crashed, NEW r \in Requests, Step(r) PROVE CopyStands(requests[r])'
<1> DEFINE q == requests[r]
           u == requests'[r]
<1>1. /\ StepIs(r, q, u) /\ q = requests[r] /\ u = requests'[r]
      /\ CopyStands(q)
      /\ \A p \in Products : Agrees(p) \/ Owes(q, p)
      /\ \A p \in Products : products[p].isDeleted => products'[p].isDeleted
      /\ \A p \in Products : products'[p].office = products[p].office
      /\ ~ProductDestroyed(r, q, u) /\ ~Propagated(r, q, u) => products' = products
  <2>1. /\ StepIs(r, q, u) /\ CopyStands(q)
        /\ \A p \in Products : Agrees(p) \/ Owes(q, p)
    BY StepFrame, WholeAtHand
  <2>2. /\ \A p \in Products : products[p].isDeleted => products'[p].isDeleted
        /\ \A p \in Products : products'[p].office = products[p].office
    BY ProductsMove
  <2>3. ~ProductDestroyed(r, q, u) /\ ~Propagated(r, q, u) => products' = products
    <3> HIDE DEF q, u
    <3> QED  BY <2>1, StepKinds DEF q, u, StepIs, RequestOnly, OfficesOnly, Sets, Rests, AffectedSynced, CopyMarked,
             DeleteChecked
  <2> QED  BY <2>1, <2>2, <2>3
<1>2. SUFFICES ASSUME u # Idle PROVE CopyStands(requests[r])'
  BY IdleNext
<1> HIDE DEF q, u
<1>3. CASE AffectedRead(r, q, u)
  <2>1. products' = products /\ u.op = "update" /\ u.read = products /\ u.todo = In(q.office) /\ u.office = q.office
    BY <1>3 DEF AffectedRead, Turns, RequestOnly, Does
  <2> QED  BY <1>1, <2>1 DEF CopyStands, Does, In
<1>4. CASE AffectedSynced(r, q, u)
  <2>1. products' = products /\ Does(q, {"update"}, {"sync"})
    BY <1>4 DEF AffectedSynced
  <2>2. u.op = "update" /\ u.read = q.read /\ u.office = q.office /\ u.todo \subseteq q.todo
    BY <1>2, <1>4 DEF AffectedSynced, Turns, Does
  <2>3. \A p \in u.todo : p \in In(q.office) /\ q.read[p] = products[p]
    BY <1>1, <2>1, <2>2 DEF CopyStands
  <2> QED  BY <1>1, <2>1, <2>2, <2>3 DEF CopyStands, Does, In
<1>5. CASE u.op = "update" /\ ~AffectedRead(r, q, u) /\ ~AffectedSynced(r, q, u)
  <2>1. u.at # "sync"
    BY <1>1, <1>2, <1>5, StepKinds DEF StepIs, Looks, Clears, Sets, Rests, SetupLooked, TenantLooked,
       UpdateDefaultLooked, CsvLooked, CreateLooked, UpdateLooked, ToggleLooked, DeleteLooked, EnsureLooked,
       CreateCleared, UpdateCleared, ToggleCleared, UpdateDefaultWritten, UpdateWritten, ToggleWritten, DeleteWritten,
       EnsureWritten, Propagated, ProductDestroyed, CopyMarked, DeleteChecked, Calling, Turns, Does
  <2> QED  BY <1>1, <1>5, <2>1 DEF CopyStands, Does
<1>6. CASE ProductDestroyed(r, q, u)
  <2>1. q.op = "delete" /\ q.at = "destroy" /\ u.op = "delete" /\ copies' = copies
    BY <1>6 DEF ProductDestroyed, Calling, Turns, Does
  <2>2. \A p \in Products : Agrees(p) /\ (q.read[p].isDeleted => products[p].isDeleted)
    BY <1>1, <2>1 DEF Owes, Does, CopyStands
  <2>3. CASE products' = products /\ u.at = "check" /\ u.read = q.read
    BY <1>1, <2>1, <2>2, <2>3 DEF CopyStands, Does
  <2>4. ASSUME NEW x \in Products, u.at = "mark", products'[x].isDeleted, u.read[x] = products'[x],
               \A y \in Products \ {x} : products'[y] = products[y] /\ u.read[y] = q.read[y]
        PROVE  CopyStands(requests[r])'
    <3>1. \A y \in Products : ~Agrees(y)' => y = x
      BY <2>1, <2>2, <2>4 DEF Agrees
    <3>2. \A y \in Products : u.read[y].isDeleted => products'[y].isDeleted
      BY <2>2, <2>4
    <3> QED  BY <1>1, <2>1, <2>4, <3>1, <3>2 DEF CopyStands, Does
  <2> QED  BY <1>1, <1>6, <2>3, <2>4, DestroyedIs
<1>7. CASE u.op = "delete" /\ ~ProductDestroyed(r, q, u)
  <2>1. u.at # "mark" /\ u.read = q.read /\ q.op = "delete"
    BY <1>1, <1>2, <1>7, StepKinds DEF StepIs, Looks, Clears, Sets, Rests, SetupLooked, TenantLooked,
       UpdateDefaultLooked, CsvLooked, CreateLooked, UpdateLooked, AffectedRead, ToggleLooked, DeleteLooked,
       EnsureLooked, CreateCleared, UpdateCleared, ToggleCleared, UpdateDefaultWritten, UpdateWritten, ToggleWritten,
       DeleteWritten, EnsureWritten, Propagated, AffectedSynced, CopyMarked, DeleteChecked, Calling, Turns, Does
  <2> QED  BY <1>1, <1>7, <2>1 DEF CopyStands, Does
<1>8. CASE u.op \notin {"update", "delete"}
  BY <1>1, <1>8 DEF CopyStands, Does
<1> QED  BY <1>3, <1>4, <1>5, <1>6, <1>7, <1>8

LEMMA WholeStep == ASSUME IInv, NEW r \in Requests, Step(r) PROVE WholeInv'
<1>1. traffic' = traffic /\ crashed' = crashed
  BY StepFrame
<1>2. SUFFICES ASSUME traffic = "alone", ~crashed
               PROVE  /\ NamesDiffer'
                      /\ \A p \in Products : products'[p].isDeleted => Destroyed(p)'
                      /\ \A o \in (LiveOffices \ bypassed)' : Named(o)'
                      /\ \A p \in Products : (Agrees(p) \/ \E s \in Requests : Owes(requests[s], p))'
                      /\ \A s \in Requests : NameStands(requests[s])' /\ CopyStands(requests[s])'
  BY <1>1 DEF WholeInv
<1>3. \A s \in Requests \ {r} : requests'[s] = Idle
  BY StepFrame, <1>2
<1>4. ASSUME NEW s \in Requests PROVE NameStands(requests[s])' /\ CopyStands(requests[s])'
  <2>1. CASE s = r
    BY <1>2, <2>1, NameStandStep, CopyStandStep
  <2>2. CASE s # r
    BY <1>3, <2>2, IdleNext
  <2> QED  BY <2>1, <2>2
<1>5. \A p \in Products : (Agrees(p) \/ \E s \in Requests : Owes(requests[s], p))'
  BY <1>2, CopiesStep
<1>6. \A p \in Products : products'[p].isDeleted => Destroyed(p)'
  BY <1>2, DestroyedStep
<1>7. \A o \in (LiveOffices \ bypassed)' : Named(o)'
  BY <1>2, NamedStep DEF LiveOffices
<1> QED  BY <1>2, <1>4, <1>5, <1>6, <1>7, NamesStep

-----------------------------------------------------------------------------
\* The other steps: a request arrives or dies, and the rest of the platform.

LEMMA WholeWhenQuiet ==
    ASSUME IInv, traffic = "alone", ~crashed, Quiet
    PROVE  /\ \A p \in Products : products[p].isDeleted =>
                 /\ p \notin Recoverable /\ products[p].office \in Offices
                 /\ offices[products[p].office].status = "deleted" \/ products[p].office \in refused
           /\ \A o \in LiveOffices \ bypassed : \A p \in In(o) : products[p].officeName = offices[o].name
           /\ \A p \in Products : Agrees(p)
<1>1. \A r \in Requests : requests[r] = Idle
  BY DEF Quiet, Busy
<1>2. \A ops, ats : "none" \notin ops => ~Does(Idle, ops, ats)
  BY DEF Does, Idle
<1>3. \A p \in Products : ~Owes(Idle, p)
  BY IdleFits
<1>4. /\ \A p \in Products : products[p].isDeleted => Destroyed(p)
      /\ \A o \in LiveOffices \ bypassed : Named(o)
      /\ \A p \in Products : Agrees(p) \/ \E s \in Requests : Owes(requests[s], p)
  BY DEF IInv, WholeInv
<1>5. \A r \in Requests : ~Does(requests[r], {"delete"}, Working) /\ ~Does(requests[r], {"update"}, {"propagate"})
  BY <1>1, <1>2
<1> QED  BY <1>1, <1>3, <1>4, <1>5 DEF Destroyed, Named

LEMMA StoresStay ==
    ASSUME IInv, UNCHANGED <<offices, products, copies>>
    PROVE  /\ DefaultsLive'
           /\ (Defaults' = Defaults) /\ (LiveOffices' = LiveOffices)
           /\ \A o \in Offices : In(o)' = In(o)
           /\ traffic = "alone" => OneDefault' /\ Empty'
           /\ traffic = "alone" /\ ~crashed => NamesDiffer'
           /\ \A p \in Products : Agrees(p)' <=> Agrees(p)
<1>1. DefaultsLive /\ (traffic = "alone" => OneDefault /\ Empty) /\ (traffic = "alone" /\ ~crashed => NamesDiffer)
  BY DEF IInv, CommonInv, AloneInv, WholeInv
<1>2. DefaultsLive' /\ Defaults' = Defaults /\ LiveOffices' = LiveOffices
  BY <1>1 DEF DefaultsLive, Defaults, LiveOffices, Live
<1>3. (OneDefault => OneDefault') /\ (NamesDiffer => NamesDiffer')
  BY <1>2 DEF OneDefault, NamesDiffer
<1>4. (\A o \in Offices : In(o)' = In(o)) /\ (Empty => Empty')
  BY DEF Empty, In
<1>5. \A p \in Products : Agrees(p)' <=> Agrees(p)
  BY DEF Agrees
<1> QED  BY <1>1, <1>2, <1>3, <1>4, <1>5

\* A request that has just arrived, as the controllers let it in.
ArrivedAs(u) ==
    /\ u \in Request /\ u.op \in OperationKinds /\ u.at = "start" /\ BodyFits(u)
    /\ \A p \in Products : ~u.read[p].isDeleted

LEMMA ArriveFrame ==
    ASSUME IInv, NEW r \in Requests, Arrive(r)
    PROVE  /\ requests[r] = Idle /\ ArrivedAs(requests'[r])
           /\ requests' \in [Requests -> Request]
           /\ \A s \in Requests \ {r} : requests'[s] = requests[s]
           /\ traffic = "alone" => \A s \in Requests \ {r} : requests[s] = Idle
           /\ UNCHANGED <<offices, products, copies, shipping, onTheWay, crashed, refused, bypassed, traffic>>
<1>1. requests \in [Requests -> Request] /\ requests[r] = Idle
  BY DEF IInv, CommonInv, TypeOK, Arrive, Busy
<1>2. PICK op \in Operations, o \in LiveOffices \cup {None}, n \in Names \cup {None}, c \in DefaultChanges \cup {"keep"} :
          /\ (o # None) = (op \in NamesOffice)
          /\ (n # None) = (op \in NamesName)
          /\ c # "keep" => op \in SaysDefault
          /\ traffic = "together" => op # "delete" /\ c # "unset"
          /\ requests' = [requests EXCEPT ![r] =
                 [Idle EXCEPT !.op = op, !.office = o, !.name = n, !.change = c]]
  BY DEF Arrive
<1>3. op \in OperationKinds /\ o \in Offices \cup {None} /\ c \in {"keep", "set", "unset"}
      /\ (KeepsDefault => c # "unset")
  BY ConstantsAssumption DEF LiveOffices, KeepsDefault
<1> DEFINE u == [Idle EXCEPT !.op = op, !.office = o, !.name = n, !.change = c]
<1>4. u \in Request
  BY <1>3, IdleFits DEF Request
<1>5. u.op = op /\ u.office = o /\ u.change = c /\ u.at = "start" /\ u.read = Nowhere
  BY DEF Idle
<1>6. \A p \in Products : ~u.read[p].isDeleted
  BY <1>5 DEF Nowhere
<1>7. "none" \notin OperationKinds
  BY DEF OperationKinds
<1>8. BodyFits(u)
  <2> HIDE DEF u
  <2>1. op \in NamesOffice => o \in Offices
    BY <1>2, <1>3
  <2> QED  BY <1>2, <1>3, <1>5, <1>7, <2>1, ConstantsAssumption DEF BodyFits, Does, IInv, CommonInv, TypeOK
<1> HIDE DEF u
<1>9. requests' = [requests EXCEPT ![r] = u]
  BY <1>2 DEF u
<1>10. ArrivedAs(requests'[r])
  BY <1>1, <1>3, <1>4, <1>5, <1>6, <1>8, <1>9 DEF ArrivedAs
<1>11. traffic = "alone" => \A s \in Requests : requests[s] = Idle
  BY DEF Arrive, Quiet, Busy
<1> QED  BY <1>1, <1>4, <1>9, <1>10, <1>11 DEF Arrive, UnchangedData, UnchangedWorld

LEMMA ArrivedStands ==
    ASSUME NEW u, ArrivedAs(u)
    PROVE  /\ OfficeStands(u) /\ FlagStands(u) /\ HandStands(u) /\ NameStands(u) /\ CopyStands(u) /\ ~WillSet(u)
           /\ \A ops, ats : "start" \notin ats => ~Does(u, ops, ats)
<1>1. \A ops, ats : "start" \notin ats => ~Does(u, ops, ats)
  BY DEF ArrivedAs, Does
<1>2. ~WillSet(u)
  BY <1>1 DEF WillSet
<1>3. OfficeStands(u) /\ HandStands(u) /\ NameStands(u) /\ CopyStands(u)
  BY <1>1 DEF OfficeStands, HandStands, NameStands, CopyStands, ArrivedAs
<1>4. FlagStands(u)
  BY <1>1, <1>2 DEF FlagStands, Working
<1> QED  BY <1>1, <1>2, <1>3, <1>4

LEMMA ArriveStep == ASSUME IInv, NEW r \in Requests, Arrive(r) PROVE IInv'
<1> DEFINE u == requests'[r]
<1>1. /\ requests[r] = Idle /\ ArrivedAs(u)
      /\ requests' \in [Requests -> Request]
      /\ \A s \in Requests \ {r} : requests'[s] = requests[s]
      /\ traffic = "alone" => \A s \in Requests \ {r} : requests[s] = Idle
      /\ UNCHANGED <<offices, products, copies, shipping, onTheWay, crashed, refused, bypassed, traffic>>
  BY ArriveFrame
<1>2. /\ DefaultsLive'
      /\ (Defaults' = Defaults) /\ (LiveOffices' = LiveOffices)
      /\ \A o \in Offices : In(o)' = In(o)
      /\ traffic = "alone" => OneDefault' /\ Empty'
      /\ traffic = "alone" /\ ~crashed => NamesDiffer'
      /\ \A p \in Products : Agrees(p)' <=> Agrees(p)
  BY <1>1, StoresStay
<1>3. CommonInv'
  <2>1. TypeOK'
    BY <1>1 DEF IInv, CommonInv, TypeOK
  <2>2. SomeDefault'
    <3>1. ~WillSet(requests[r])
      BY <1>1, IdleFits
    <3>2. ASSUME KeepsDefault, ~crashed, LiveOffices # {}, Defaults = {} PROVE \E s \in Requests : WillSet(requests'[s])
      <4>1. PICK s \in Requests : WillSet(requests[s])
        BY <3>2 DEF IInv, CommonInv, SomeDefault
      <4> QED  BY <1>1, <3>1, <4>1
    <3> QED  BY <1>1, <1>2, <3>2 DEF SomeDefault
  <2>3. (crashed => traffic = "alone")'
    BY <1>1 DEF IInv, CommonInv
  <2>4. ASSUME NEW s \in Requests PROVE BodyFits(requests[s])' /\ OfficeStands(requests[s])'
    <3>1. CASE s = r
      <4>1. OfficeStands(u) /\ BodyFits(u)
        BY <1>1, ArrivedStands DEF ArrivedAs
      <4> QED  BY <1>1, <1>2, <3>1, <4>1 DEF BodyFits, OfficeStands, Live
    <3>2. CASE s # r
      <4>1. BodyFits(requests[s]) /\ OfficeStands(requests[s])
        BY DEF IInv, CommonInv
      <4> QED  BY <1>1, <1>2, <3>2, <4>1 DEF BodyFits, OfficeStands, Live
    <3> QED  BY <3>1, <3>2
  <2> QED  BY <1>2, <2>1, <2>2, <2>3, <2>4 DEF CommonInv
<1>4. traffic = "alone" => \A s \in Requests \ {r} : requests'[s] = Idle
  BY <1>1
<1>5. AloneInv'
  <2>1. SUFFICES ASSUME traffic = "alone"
                 PROVE  /\ \A x, s \in Requests : (Busy(x) /\ Busy(s))' => x = s
                        /\ OneDefault' /\ Empty'
                        /\ \A s \in Requests : FlagStands(requests[s])' /\ HandStands(requests[s])'
    BY <1>1 DEF AloneInv
  <2>2. \A x, s \in Requests : (Busy(x) /\ Busy(s))' => x = s
    BY <1>4, <2>1 DEF Busy, Idle, Nowhere
  <2>3. FlagStands(requests[r])' /\ HandStands(requests[r])'
    BY <1>1 DEF FlagStands, HandStands, WillSet, Does, Working, Inserting, ArrivedAs
  <2>4. ASSUME NEW s \in Requests PROVE FlagStands(requests[s])' /\ HandStands(requests[s])'
    BY <1>1, <1>4, <2>1, <2>3, IdleNext
  <2> QED  BY <1>2, <2>1, <2>2, <2>4
<1>6. WholeInv'
  <2>1. SUFFICES ASSUME traffic = "alone", ~crashed
                 PROVE  /\ NamesDiffer'
                        /\ \A p \in Products : products'[p].isDeleted => Destroyed(p)'
                        /\ \A o \in (LiveOffices \ bypassed)' : Named(o)'
                        /\ \A p \in Products : Agrees(p)'
                        /\ \A s \in Requests : NameStands(requests[s])' /\ CopyStands(requests[s])'
    BY <1>1 DEF WholeInv
  <2>2. Quiet
    BY <1>1, <2>1 DEF Quiet, Busy
  <2>3. /\ \A p \in Products : products[p].isDeleted =>
                 /\ p \notin Recoverable /\ products[p].office \in Offices
                 /\ offices[products[p].office].status = "deleted" \/ products[p].office \in refused
        /\ \A o \in LiveOffices \ bypassed : \A p \in In(o) : products[p].officeName = offices[o].name
        /\ \A p \in Products : Agrees(p)
    BY <2>1, <2>2, WholeWhenQuiet
  <2>4. \A p \in Products : products'[p].isDeleted => Destroyed(p)'
    BY <1>1, <2>3 DEF Destroyed
  <2>5. \A o \in (LiveOffices \ bypassed)' : Named(o)'
    BY <1>1, <1>2, <2>3 DEF Named, LiveOffices, Live, In
  <2>6. NameStands(requests[r])' /\ CopyStands(requests[r])'
    BY <1>1, ArrivedStands DEF NameStands, CopyStands, Does, ArrivedAs, Inserting
  <2>7. ASSUME NEW s \in Requests PROVE NameStands(requests[s])' /\ CopyStands(requests[s])'
    BY <1>1, <1>4, <2>1, <2>6, IdleNext
  <2> QED  BY <1>2, <2>1, <2>3, <2>4, <2>5, <2>7
<1> QED  BY <1>3, <1>5, <1>6 DEF IInv

\* After a crash no request is in flight.
LEMMA CrashStep == ASSUME IInv, NEW r \in Requests, Crash(r) PROVE IInv'
<1>1. /\ traffic = "alone" /\ crashed' = TRUE
      /\ UNCHANGED <<offices, products, copies, shipping, onTheWay, refused, bypassed, traffic>>
      /\ requests \in [Requests -> Request] /\ requests' = [requests EXCEPT ![r] = Idle] /\ Busy(r)
  BY DEF Crash, Finish, UnchangedData, IInv, CommonInv, TypeOK
<1>2. \A s \in Requests : requests'[s] = Idle
  BY <1>1 DEF IInv, AloneInv, Busy
<1>3. DefaultsLive' /\ OneDefault' /\ Empty'
  BY <1>1, StoresStay
<1>4. TypeOK'
  BY <1>1, IdleFits DEF IInv, CommonInv, TypeOK
<1>5. CommonInv'
  BY <1>1, <1>2, <1>3, <1>4, IdleNext DEF CommonInv, SomeDefault
<1>6. AloneInv'
  BY <1>2, <1>3, IdleNext DEF AloneInv, Busy, Idle, Nowhere
<1>7. WholeInv'
  BY <1>1 DEF WholeInv
<1> QED  BY <1>5, <1>6, <1>7 DEF IInv

\* Nothing but the shipments changes.
LEMMA ShipmentsStep ==
    ASSUME IInv, UNCHANGED <<offices, products, copies, requests, crashed, refused, bypassed, traffic>>,
           shipping' \subseteq Offices, onTheWay' \subseteq shipping'
    PROVE  IInv'
<1>1. TypeOK'
  BY DEF IInv, CommonInv, TypeOK
<1>2. /\ DefaultsLive' /\ (Defaults' = Defaults) /\ (LiveOffices' = LiveOffices)
      /\ \A o \in Offices : In(o)' = In(o)
      /\ traffic = "alone" => OneDefault' /\ Empty'
      /\ traffic = "alone" /\ ~crashed => NamesDiffer'
      /\ \A p \in Products : Agrees(p)' <=> Agrees(p)
  BY StoresStay
<1>3. \A r \in Requests :
         /\ BodyFits(requests[r]) => BodyFits(requests[r])'
         /\ OfficeStands(requests[r]) => OfficeStands(requests[r])'
         /\ FlagStands(requests[r]) => FlagStands(requests[r])'
         /\ WillSet(requests[r]) <=> WillSet(requests[r])'
  BY DEF BodyFits, OfficeStands, FlagStands, WillSet, Does, LiveOffices, Live, Defaults
<1>4. \A r \in Requests : HandStands(requests[r]) => HandStands(requests[r])'
  BY DEF HandStands, Does, In
<1>5. \A r \in Requests : NameStands(requests[r]) => NameStands(requests[r])'
  BY DEF NameStands, NameTaken, Does, LiveOffices, Live, Inserting
<1>6. \A r \in Requests : CopyStands(requests[r]) => CopyStands(requests[r])'
  BY DEF CopyStands, Agrees, Does, In
<1>7. CommonInv'
  BY <1>1, <1>2, <1>3 DEF IInv, CommonInv, SomeDefault
<1>8. AloneInv'
  BY <1>2, <1>3, <1>4 DEF IInv, AloneInv, Busy, Idle, Nowhere
<1>9. \A p \in Products : (Destroyed(p) => Destroyed(p)') /\ \A r \in Requests : Owes(requests[r], p) => Owes(requests[r], p)'
  BY DEF Destroyed, Owes, Does, In, Working
<1>10. \A o \in Offices : Named(o) => Named(o)'
  BY DEF Named, Does, In
<1>11. WholeInv'
  BY <1>2, <1>5, <1>6, <1>9, <1>10 DEF IInv, WholeInv, LiveOffices
<1> QED  BY <1>7, <1>8, <1>11 DEF IInv

LEMMA ArrivesStep == ASSUME IInv, ProductArrives PROVE IInv'
<1>1. /\ traffic = "alone" /\ Quiet
      /\ UNCHANGED <<offices, requests, shipping, onTheWay, crashed, refused, bypassed, traffic>>
      /\ \A r \in Requests : requests[r] = Idle /\ requests'[r] = Idle
  BY DEF ProductArrives, Undisturbed, UnchangedWorld, Quiet, Busy
<1>2. /\ TypeOK /\ offices \in [Offices -> Office]
      /\ products \in [Products -> Product] /\ copies \in [Products -> Product]
  BY DEF IInv, CommonInv, TypeOK
<1>3. PICK p \in Products, o \in LiveOffices :
         /\ products[p].office = None /\ ~products[p].isDeleted
         /\ products' = [products EXCEPT ![p].office = o, ![p].officeName = offices[o].name]
         /\ copies' = [copies EXCEPT ![p] = products'[p]]
  BY DEF ProductArrives
<1>4. o \in Offices /\ Live(o) /\ products[p] \in Product /\ offices[o].name \in Names \cup {None}
  BY <1>2 DEF LiveOffices, Office
<1>5. /\ products'[p] = [products[p] EXCEPT !.office = o, !.officeName = offices[o].name]
      /\ copies'[p] = products'[p]
      /\ \A x \in Products \ {p} : products'[x] = products[x] /\ copies'[x] = copies[x]
  BY <1>2, <1>3
<1>6. /\ products'[p] \in Product /\ products'[p].office = o /\ products'[p].officeName = offices[o].name
      /\ ~products'[p].isDeleted
  <2>1. products'[p] \in Product
    BY <1>4, <1>5 DEF Product
  <2>2. products'[p].office = o /\ products'[p].officeName = offices[o].name
    BY <1>4, <1>5 DEF Product
  <2>3. products'[p].isDeleted = products[p].isDeleted
    BY <1>4, <1>5 DEF Product
  <2> QED  BY <1>3, <2>1, <2>2, <2>3
<1>7. products' \in [Products -> Product] /\ copies' \in [Products -> Product]
  BY <1>2, <1>3, <1>5, <1>6
<1>8. DefaultsLive' /\ Defaults' = Defaults /\ LiveOffices' = LiveOffices
  BY <1>1 DEF IInv, CommonInv, DefaultsLive, Defaults, LiveOffices, Live
<1>9. CommonInv'
  <2>1. TypeOK'
    BY <1>1, <1>2, <1>7 DEF TypeOK
  <2>2. SomeDefault'
    BY <1>1, <1>8 DEF IInv, CommonInv, SomeDefault, WillSet, Does
  <2> QED  BY <1>1, <1>8, <2>1, <2>2, IdleNext DEF IInv, CommonInv
<1>10. AloneInv'
  <2>1. Empty'
    <3>1. SUFFICES ASSUME NEW x \in Offices
                   PROVE  /\ offices'[x].status = "deleted" => In(x)' = {}
                          /\ offices'[x].status = "unused" => \A y \in Products : products'[y].office # x
      BY DEF Empty
    <3>2. CASE x = o
      BY <1>1, <1>4, <3>2 DEF Live
    <3>3. CASE x # o
      <4>1. /\ offices[x].status = "deleted" => In(x) = {}
            /\ offices[x].status = "unused" => \A y \in Products : products[y].office # x
        BY <1>1 DEF IInv, AloneInv, Empty
      <4>2. In(x)' \subseteq In(x)
        BY <1>5, <1>6, <3>3 DEF In
      <4> QED  BY <1>1, <1>5, <1>6, <3>3, <4>1, <4>2
    <3> QED  BY <3>2, <3>3
  <2>2. OneDefault'
    BY <1>1, <1>8 DEF IInv, AloneInv, OneDefault
  <2> QED  BY <1>1, <2>1, <2>2, IdleNext DEF AloneInv, Busy
<1>11. WholeInv'
  <2>1. SUFFICES ASSUME ~crashed
                 PROVE  /\ NamesDiffer'
                        /\ \A x \in Products : products'[x].isDeleted => Destroyed(x)'
                        /\ \A y \in (LiveOffices \ bypassed)' : Named(y)'
                        /\ \A x \in Products : Agrees(x)'
                        /\ \A s \in Requests : NameStands(requests[s])' /\ CopyStands(requests[s])'
    BY <1>1 DEF WholeInv
  <2>2. NamesDiffer /\ \A x \in Products : products[x].isDeleted => Destroyed(x)
    BY <1>1, <2>1 DEF IInv, WholeInv
  <2>3. /\ \A y \in LiveOffices \ bypassed : \A x \in In(y) : products[x].officeName = offices[y].name
        /\ \A x \in Products : Agrees(x)
    BY <1>1, <2>1, WholeWhenQuiet
  <2>4. NamesDiffer'
    BY <1>1, <1>8, <2>2 DEF NamesDiffer
  <2>5. ASSUME NEW x \in Products, products'[x].isDeleted PROVE Destroyed(x)'
    <3>1. x # p
      BY <1>6, <2>5
    <3>2. products'[x] = products[x] /\ Destroyed(x)
      BY <1>5, <2>2, <2>5, <3>1
    <3> QED  BY <1>1, <3>2 DEF Destroyed
  <2>6. ASSUME NEW y \in Offices, y \in LiveOffices \ bypassed PROVE \A x \in In(y)' : products'[x].officeName = offices'[y].name
    <3>1. ASSUME NEW x \in In(y)', x # p PROVE products'[x].officeName = offices'[y].name
      <4>1. x \in Products /\ products'[x] = products[x]
        BY <1>5, <3>1 DEF In
      <4>2. x \in In(y)
        BY <3>1, <4>1 DEF In
      <4> QED  BY <1>1, <2>3, <2>6, <4>1, <4>2
    <3>2. p \in In(y)' => y = o
      BY <1>6 DEF In
    <3> QED  BY <1>1, <1>6, <3>1, <3>2
  <2>7. \A x \in Products : Agrees(x)'
    BY <1>5, <2>3 DEF Agrees
  <2>8. \A y \in (LiveOffices \ bypassed)' : Named(y)'
    BY <1>1, <1>8, <2>6 DEF Named, LiveOffices
  <2> QED  BY <1>1, <2>4, <2>5, <2>7, <2>8, IdleNext
<1> QED  BY <1>9, <1>10, <1>11 DEF IInv

LEMMA InitInv == Init => IInv
<1> SUFFICES ASSUME Init PROVE IInv
  OBVIOUS
<1>1. /\ \A r \in Requests : requests[r] = Idle
      /\ \A o \in Offices : offices[o].status = "unused" /\ ~offices[o].isDefault
      /\ products = Nowhere /\ copies = Nowhere /\ crashed = FALSE
  BY DEF Init
<1>2. /\ \A p \in Products : products[p].office = None /\ ~products[p].isDeleted /\ Agrees(p)
      /\ LiveOffices = {} /\ Defaults = {}
  BY <1>1 DEF Nowhere, Agrees, LiveOffices, Defaults, Live
<1>3. TypeOK
  <2>1. Nowhere \in [Products -> Product]
    BY DEF Nowhere, Product
  <2>2. offices \in [Offices -> Office]
    BY DEF Init, Office
  <2>3. requests \in [Requests -> Request]
    BY IdleFits DEF Init
  <2> QED  BY <2>1, <2>2, <2>3, ConstantsAssumption DEF Init, TypeOK
<1>4. CommonInv
  BY <1>1, <1>2, <1>3, IdleFits DEF CommonInv, DefaultsLive, SomeDefault
<1>5. AloneInv
  BY <1>1, <1>2, NoneIsNoOffice, IdleFits DEF AloneInv, Busy, OneDefault, Empty, FlagStands
<1>6. WholeInv
  BY <1>1, <1>2, IdleFits DEF WholeInv, NamesDiffer
<1> QED  BY <1>4, <1>5, <1>6 DEF IInv

LEMMA NextInv == ASSUME IInv, [Next]_vars PROVE IInv'
<1>1. /\ shipping \subseteq Offices /\ onTheWay \subseteq shipping
      /\ LiveOffices \subseteq Offices
  BY DEF IInv, CommonInv, TypeOK, LiveOffices
<1>2. CASE UNCHANGED vars
  BY <1>1, <1>2, ShipmentsStep DEF vars
<1>3. ASSUME NEW r \in Requests, Arrive(r) PROVE IInv'
  BY <1>3, ArriveStep
<1>4. ASSUME NEW r \in Requests, Step(r) PROVE IInv'
  BY <1>4, CommonStep, AloneStep, WholeStep DEF IInv
<1>5. ASSUME NEW r \in Requests, Crash(r) PROVE IInv'
  BY <1>5, CrashStep
<1>6. CASE ProductArrives
  BY <1>6, ArrivesStep
<1>7. CASE ShipmentStarts
  BY <1>1, <1>7, ShipmentsStep DEF ShipmentStarts, UnchangedData
<1>8. CASE ShipmentEnds
  BY <1>1, <1>8, ShipmentsStep DEF ShipmentEnds, UnchangedData
<1> QED  BY <1>2, <1>3, <1>4, <1>5, <1>6, <1>7, <1>8 DEF Next

LEMMA InvAlways == Spec => []IInv
<1>1. IInv /\ [Next]_vars => IInv'
  BY NextInv
<1> QED  BY <1>1, InitInv, PTL DEF Spec

-----------------------------------------------------------------------------
\* The theorems.

\* As long as no PATCH takes the flag from the default office: there is at most one
\* default office and it is live, one is there whenever the requests have ended and
\* none has died, also after requests that overlapped, and names differ. This is what
\* createOffice, updateOffice, the toggle and the deletion reach in steps that each
\* clear or set a flag.
THEOREM OfficesAlwaysFit == KeepsDefault => (Spec => []OfficesFit)
<1> SUFFICES ASSUME KeepsDefault PROVE Spec => []OfficesFit
  OBVIOUS
<1>1. KeepsDefault /\ IInv => OfficesFit
  <2> SUFFICES ASSUME KeepsDefault, IInv PROVE OfficesFit
    OBVIOUS
  <2>1. TypeOK /\ DefaultsLive /\ SomeDefault
    BY DEF IInv, CommonInv
  <2>2. OneLiveDefault
    <3>1. traffic = "alone" => OneDefault
      BY DEF IInv, AloneInv
    <3> QED  BY <2>1, <3>1 DEF OneLiveDefault, OneDefault, DefaultsLive, Defaults, LiveOffices
  <2>3. DefaultWhenSettled
    BY <2>1, IdleFits DEF DefaultWhenSettled, SomeDefault, Quiet, Busy
  <2>4. UniqueNames
    BY DEF IInv, WholeInv, NamesDiffer, UniqueNames
  <2> QED  BY <2>1, <2>2, <2>3, <2>4 DEF OfficesFit
<1> QED  BY <1>1, InvAlways, PTL

\* The deletion of an office, which destroys its products one by one before it asks
\* for active shipments, leaves none of them in a deleted office, wherever it dies,
\* and destroys none that must be given back, or without its office or a refusal.
THEOREM DeletionsAlwaysWhole == Spec => []DeletionsWhole
<1>1. IInv => DeletionsWhole
  <2> SUFFICES ASSUME IInv PROVE DeletionsWhole
    OBVIOUS
  <2>1. NobodyLeftBehind
    BY DEF IInv, AloneInv, Empty, NobodyLeftBehind
  <2>2. DestroyedWithOffice
    BY WholeWhenQuiet DEF DestroyedWithOffice
  <2> QED  BY <2>1, <2>2 DEF DeletionsWhole
<1> QED  BY <1>1, InvAlways, PTL

\* Once the requests have ended, a product says the present name of its office, unless
\* the route of the default office changed it, and the copy in the global collection
\* says what the product says.
THEOREM OfficesAlwaysAgree == Spec => []OfficesAgree
<1>1. IInv => OfficesAgree
  <2> SUFFICES ASSUME IInv PROVE OfficesAgree
    OBVIOUS
  <2>1. CopiesAgree
    BY WholeWhenQuiet DEF CopiesAgree, Agrees
  <2>2. NamesArrive
    BY WholeWhenQuiet DEF NamesArrive
  <2> QED  BY <2>1, <2>2 DEF OfficesAgree
<1> QED  BY <1>1, InvAlways, PTL

=============================================================================
