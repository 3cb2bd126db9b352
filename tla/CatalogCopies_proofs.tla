----------------------- MODULE CatalogCopies_proofs ------------------------
(***************************************************************************)
(* The copies that Catalog keeps of its products in the global collection. *)
(* They are written beside the transactions, so they may be ahead of a     *)
(* commit or behind it. When requests come one after the other, and unless *)
(* one failed half-way, they agree with the collections in the end.        *)
(***************************************************************************)
EXTENDS Catalog_proofs

-----------------------------------------------------------------------------
\* The copies: the inductive invariant.

\* The copy k says of the product p what the collections v say; it is the first one, which
\* nobody has written, as long as the product is nowhere.
Unwritten(k) == k.source = "none" /\ k.holder = None /\ k.serial = None /\ ~k.gone
Agrees(v, k, p) ==
    /\ IF Homes(v, p) = {} THEN Unwritten(k) ELSE k.source # "none"
    /\ Stored(v, p) =>
          /\ k.gone = v.pool[p].gone /\ k.serial = v.pool[p].serial
          /\ v.pool[p].email = None => k.source = "products"
          /\ k.holder # None => v.pool[p].gone
    /\ \A m \in Holders(v, p) :
          /\ k.gone = v.people[m].has[p].gone /\ k.serial = v.people[m].has[p].serial
          /\ k.holder \in {m, Invented}
          /\ k.holder = m => k.source = "members"

\* The collections once the request q has committed.
Outcome(v, q) ==
    [pool   |-> [p \in Products |-> IF p \in q.writes THEN q.view.pool[p] ELSE v.pool[p]],
     people |-> [m \in Members |-> IF m \in q.writes THEN q.view.people[m] ELSE v.people[m]]]

\* What q makes of the copy k of p.
CopyBy(q, k, p) ==
    LET inPool == Stored(q.view, p)
        m      == CHOOSE x \in Holders(q.view, p) : TRUE
        item   == IF inPool THEN q.view.pool[p] ELSE q.view.people[m].has[p]
        source == CASE q.op = "join"   -> "products"
                    [] q.op = "import" -> IF item.email # None THEN "members" ELSE "products"
                    [] OTHER           -> IF inPool THEN "products" ELSE "members"
        holder == IF inPool THEN None ELSE IF q.op = "join" THEN Invented ELSE m
    IN  Copied(k, source, holder, item, q.op = "edit" /\ q.serial = None)

\* Between its mark and its end a deletion has the copy say what the pool will.
HalfMarked(q, k) ==
    /\ q.view.pool[q.item] # Absent /\ q.view.pool[q.item].gone /\ q.view.pool[q.item].serial = None
    /\ k.source # "none"
    /\ q.at = "detach" => k.gone /\ k.serial = None /\ k.source = "products" /\ q.item \in q.copied

\* The copy of p agrees with what q commits, or will when q has written it; and if q is
\* aborted, it agrees with what there is, unless q has written it.
CopyFits(v, q, k, p) ==
    /\ p \notin q.sync /\ ~(HalfDeleted(q) /\ p = q.item) => Agrees(Outcome(v, q), k, p)
    /\ p \notin q.sync \cup q.copied => Agrees(v, k, p)
    /\ p \in q.sync => Agrees(Outcome(v, q), CopyBy(q, k, p), p)
    /\ HalfDeleted(q) /\ p = q.item => HalfMarked(q, k)

\* Nobody wrote what a request has seen, and what it imports for a member has an email.
Certain(q) == q.dirty = {} /\ (q.op = "import" /\ q.member # None => q.email # None)

CopyInv ==
    Alone /\ ~failed =>
        /\ \A r \in Requests : Busy(r) =>
              /\ Certain(requests[r])
              /\ \A p \in Products \ (undone \cup astray) : CopyFits(View, requests[r], copies[p], p)
        /\ Quiet => \A p \in Products \ (undone \cup astray) : Agrees(View, copies[p], p)

-----------------------------------------------------------------------------
\* What a copy agrees with.

\* The product p is in the same places, with the same serial number and as deleted as before.
Alike(v, w, p) ==
    /\ w.pool[p] = v.pool[p]
    /\ \A m \in Members :
          /\ w.people[m].has[p] = Absent <=> v.people[m].has[p] = Absent
          /\ w.people[m].has[p].gone = v.people[m].has[p].gone
          /\ w.people[m].has[p].serial = v.people[m].has[p].serial

LEMMA AlikeAgrees ==
    ASSUME NEW v, NEW w, NEW p \in Products, NEW k, Agrees(v, k, p), Alike(v, w, p)
    PROVE  Agrees(w, k, p)
<1>1. Holders(w, p) = Holders(v, p) /\ Homes(w, p) = Homes(v, p) /\ (Stored(w, p) <=> Stored(v, p))
  BY DEF Alike, Holders, Homes, Stored
<1>2. \A m \in Holders(v, p) : m \in Members
  BY DEF Holders
<1> QED  BY <1>1, <1>2 DEF Agrees, Alike

LEMMA SameAlike ==
    ASSUME NEW v, NEW w, NEW p \in Products,
           w.pool[p] = v.pool[p], \A m \in Members : w.people[m].has[p] = v.people[m].has[p]
    PROVE  Alike(v, w, p) /\ Alike(w, v, p)
BY DEF Alike

LEMMA AlikeBack ==
    ASSUME NEW u, NEW v, NEW w, NEW p, Alike(u, v, p), Alike(v, w, p) PROVE Alike(u, w, p)
BY DEF Alike

\* A commit of q makes w of v.
LEMMA OutcomeIs ==
    ASSUME NEW v, NEW q, NEW w, Committed(v, q, w), NEW p \in Products
    PROVE  Alike(Outcome(v, q), w, p) /\ Alike(w, Outcome(v, q), p)
<1> DEFINE o == Outcome(v, q)
<1>1. o.pool[p] = w.pool[p]
  BY DocsDiffer DEF Outcome, Committed, Same
<1>2. \A m \in Members : o.people[m] = w.people[m]
  BY DocsDiffer DEF Outcome, Committed, Same
<1> HIDE DEF o
<1>3. Alike(o, w, p) /\ Alike(w, o, p)
  BY <1>1, <1>2, SameAlike
<1> QED  BY <1>3 DEF o

LEMMA NothingCommitted == ASSUME NEW v, NEW q, q.writes = {} PROVE Committed(v, q, v)
BY DEF Committed, Same

\* A transaction that is alone sees what it will commit.
LEMMA TransactionCommits ==
    ASSUME NEW v, NEW q, SnapshotValid(v, q), InTransaction(q), q.dirty = {}
    PROVE  Committed(v, q, q.view)
<1>1. \A d \in Docs \ q.writes : Same(q.view, v, d)
  BY DEF SnapshotValid
<1> QED  BY <1>1 DEF Committed, Same

\* In it, a product has one home.
LEMMA OneInView ==
    ASSUME NEW v \in ViewType, NEW q \in Request, NEW strays, RequestSound(v, q, strays), OneHomeEach(v, strays),
           Committed(v, q, q.view), NEW p \in Products \ strays, ~(HalfDeleted(q) /\ p = q.item)
    PROVE  \A d, e \in Homes(q.view, p) : d = e
<1>1. /\ \A d, e \in After(q, p) : d = e
      /\ After(q, p) # {} => Before(v, q, p) # {} \/ (p \in q.writes /\ Homes(v, p) = {})
      /\ \A d, e \in Homes(v, p) : d = e
  BY DEF RequestSound, OneAfter, OneHomeEach
<1>2. q.view \in ViewType
  BY RequestFields
<1>3. Homes(q.view, p) \ q.writes = Homes(v, p) \ q.writes
  BY <1>2, CommittedHomes
<1> QED  BY <1>1, <1>3 DEF After, Before

\* The serial numbers that v tells of p.
Tells(v, p, s) ==
    \/ Stored(v, p) /\ v.pool[p].serial = s
    \/ \E m \in Holders(v, p) : v.people[m].has[p].serial = s

\* What syncProduct makes of a copy agrees, if the serial number is told to it or not there
\* before, and if an import gives no product to a member without saying under which email.
LEMMA CopyAgrees ==
    ASSUME NEW w \in ViewType, NEW q \in Request, q.view = w, NEW k, NEW p \in Products,
           \A d, e \in Homes(w, p) : d = e, Homes(w, p) # {},
           \A s : Tells(w, p, s) => IF q.op = "edit" /\ q.serial = None THEN s = None ELSE s # None \/ k.serial = None,
           q.op = "import" => \A m \in Holders(w, p) : w.people[m].has[p].email # None
    PROVE  Agrees(w, CopyBy(q, k, p), p)
<1> DEFINE c == CopyBy(q, k, p)
           cleared == q.op = "edit" /\ q.serial = None
<1>1. CASE Stored(w, p)
  <2> DEFINE i == w.pool[p]
             source == IF q.op = "join" \/ (q.op = "import" /\ i.email = None) \/ q.op # "import"
                       THEN "products" ELSE "members"
  <2>1. Holders(w, p) = {}
    BY <1>1, HomesAre, DocsDiffer DEF Holders
  <2>2. c = Copied(k, source, None, i, cleared)
    BY <1>1 DEF CopyBy
  <2>3. Tells(w, p, i.serial)
    BY <1>1 DEF Tells
  <2> HIDE DEF cleared
  <2>4. c.source = source /\ c.holder = None /\ c.gone = i.gone /\ c.serial = i.serial
    <3>1. IF cleared THEN i.serial = None ELSE i.serial # None \/ k.serial = None
      BY <2>3 DEF cleared
    <3> QED  BY <2>2, <3>1 DEF Copied
  <2> HIDE DEF c
  <2>5. c.source # "none" /\ (i.email = None => c.source = "products")
    BY <2>4
  <2>6. Agrees(w, c, p)
    BY <2>1, <2>4, <2>5 DEF Agrees
  <2> QED  BY <2>6 DEF c
<1>2. CASE ~Stored(w, p)
  <2> DEFINE m == CHOOSE x \in Holders(w, p) : TRUE
             i == w.people[m].has[p]
             source == CASE q.op = "join"   -> "products"
                         [] q.op = "import" -> IF i.email # None THEN "members" ELSE "products"
                         [] OTHER           -> "members"
             holder == IF q.op = "join" THEN Invented ELSE m
  <2>1. Holders(w, p) # {}
    BY <1>2, HomesAre
  <2>2. m \in Holders(w, p) /\ Holders(w, p) = {m}
    BY <2>1, HomesAre DEF Holders
  <2>3. c = Copied(k, source, holder, i, cleared)
    BY <1>2 DEF CopyBy
  <2> HIDE DEF m, cleared
  <2>4. Tells(w, p, i.serial)
    BY <2>2 DEF Tells
  <2>5. c.source = source /\ c.holder = holder /\ c.gone = i.gone /\ c.serial = i.serial
    <3>1. IF cleared THEN i.serial = None ELSE i.serial # None \/ k.serial = None
      BY <2>4 DEF cleared
    <3> QED  BY <2>3, <3>1 DEF Copied
  <2> HIDE DEF c
  <2>6. c.source # "none" /\ c.holder \in {m, Invented} /\ (c.holder = m => c.source = "members")
    <3>1. m # Invented
      BY <2>2, ConstantsAssumption DEF Holders
    <3>2. q.op = "import" => i.email # None
      BY <2>2
    <3> QED  BY <2>5, <3>1, <3>2
  <2>7. Agrees(w, c, p)
    <3>1. Homes(w, p) # {}
      OBVIOUS
    <3> HIDE DEF i, source, holder
    <3>2. \A n \in Holders(w, p) : n = m
      BY <2>2
    <3> QED  BY <1>2, <2>5, <2>6, <3>1, <3>2 DEF Agrees, i
  <2> QED  BY <2>7 DEF c
<1> QED  BY <1>1, <1>2

-----------------------------------------------------------------------------
\* A step of the one request in flight, as long as nothing has failed.

CopiesFit(v, q, ks, lost) ==
    Certain(q) /\ \A p \in Products \ lost : CopyFits(v, q, ks[p], p)

LEMMA CopyKnown ==
    ASSUME IInv, CopyInv, Alone, ~failed, NEW r \in Requests, Busy(r)
    PROVE  /\ \A s \in Requests \ {r} : requests[s] = Idle
           /\ CopiesFit(View, requests[r], copies, undone \cup astray)
           /\ requests[r] \in Request /\ requests[r].view \in ViewType /\ View \in ViewType
           /\ RequestSound(View, requests[r], astray) /\ OneHomeEach(View, astray)
           /\ View.pool = pool /\ View.people = people
<1>1. \A s \in Requests \ {r} : requests[s] = Idle
  BY DEF IInv, Solitude, Busy
<1>2. CopiesFit(View, requests[r], copies, undone \cup astray)
  BY DEF CopyInv, CopiesFit
<1> QED  BY <1>1, <1>2, Known, RequestFields, GhostTypes DEF IInv

LEMMA IdleCopies ==
    ASSUME NEW v, NEW k, NEW p, CopyFits(v, Idle, k, p) PROVE Agrees(v, k, p)
BY DEF CopyFits, Idle

LEMMA StepCopies ==
    ASSUME NEW r \in Requests, NEW q2, NEW w, View' = w,
           requests'[r] = q2, \A s \in Requests \ {r} : requests'[s] = Idle,
           CopiesFit(w, q2, copies', undone' \cup astray')
    PROVE  CopyInv'
<1>1. \A s \in Requests : requests'[s] # Idle => s = r
  OBVIOUS
<1>2. (\A s \in Requests : requests'[s] = Idle) =>
          \A p \in Products \ (undone' \cup astray') : Agrees(w, copies'[p], p)
  BY IdleCopies DEF CopiesFit
<1> QED  BY <1>1, <1>2 DEF CopyInv, CopiesFit, Busy, Quiet

\* The request that has neither written anything nor something to copy.
LEMMA RestCopies ==
    ASSUME IInv, CopyInv, Alone, ~failed, NEW r \in Requests, Busy(r),
           requests[r].writes = {}, requests[r].sync = {}, NEW p \in Products \ (undone \cup astray)
    PROVE  Agrees(View, copies[p], p)
<1> DEFINE q == requests[r]
<1>1. CopyFits(View, q, copies[p], p) /\ RequestSound(View, q, astray)
  BY CopyKnown DEF CopiesFit
<1>2. ~HalfDeleted(q)
  BY <1>1 DEF RequestSound, OneWritten
<1>3. Agrees(Outcome(View, q), copies[p], p)
  BY <1>1, <1>2 DEF CopyFits
<1> QED  BY <1>3, NothingCommitted, OutcomeIs, AlikeAgrees

LEMMA RestFits ==
    ASSUME NEW v, NEW q, NEW ks, NEW lost, q.writes = {}, q.sync = {}, Certain(q), ~HalfDeleted(q),
           \A p \in Products \ lost : Agrees(v, ks[p], p)
    PROVE  CopiesFit(v, q, ks, lost)
<1> SUFFICES ASSUME NEW p \in Products \ lost PROVE CopyFits(v, q, ks[p], p)
  BY DEF CopiesFit
<1>1. Agrees(Outcome(v, q), ks[p], p)
  BY NothingCommitted, OutcomeIs, AlikeAgrees
<1> QED  BY <1>1 DEF CopyFits

LEMMA IdleRests == Idle.writes = {} /\ Idle.sync = {} /\ Certain(Idle) /\ ~HalfDeleted(Idle) /\ Idle.copied = {}
BY DEF Idle, HalfDeleted, Certain

\* Nothing is written.
LEMMA LookCopies ==
    ASSUME IInv, CopyInv, Alone, ~failed, NEW r \in Requests, Busy(r), NEW q2, Continue(r, q2),
           UnchangedStores, undone' = undone, astray' = astray,
           requests[r].writes = {}, requests[r].sync = {},
           q2.writes = {}, q2.sync = {}, Certain(q2), ~HalfDeleted(q2)
    PROVE  CopyInv'
<1>1. View' = View /\ copies' = copies
  BY DEF View, UnchangedStores
<1>2. requests'[r] = q2 /\ \A s \in Requests \ {r} : requests'[s] = Idle
  BY CopyKnown, GhostTypes DEF Continue
<1>3. CopiesFit(View, q2, copies, undone \cup astray)
  BY RestCopies, RestFits
<1> QED  BY <1>1, <1>2, <1>3, StepCopies

LEMMA FinishCopies ==
    ASSUME IInv, CopyInv, Alone, ~failed, NEW r \in Requests, Busy(r), Finish(r),
           UnchangedStores, undone' = undone, astray' = astray,
           requests[r].writes = {}, requests[r].sync = {}
    PROVE  CopyInv'
BY LookCopies, IdleRests DEF Finish

\* A transaction is aborted: the copies that it has not written are as before.
LEMMA AbortCopies ==
    ASSUME IInv, CopyInv, Alone, ~failed, NEW r \in Requests, Busy(r), Abort(r), Stores, Ghosts,
           requests[r].sync = {}
    PROVE  CopyInv'
<1> DEFINE q == requests[r]
<1>1. View' = View /\ copies' = copies /\ astray' = astray /\ undone' = undone \cup q.copied
  BY DEF View, Stores, Ghosts, Abort
<1>2. requests'[r] = Idle /\ \A s \in Requests \ {r} : requests'[s] = Idle
  BY CopyKnown, GhostTypes DEF Abort, Finish, Continue
<1>3. \A p \in Products \ (undone' \cup astray') : Agrees(View, copies[p], p)
  BY <1>1, CopyKnown DEF CopiesFit, CopyFits
<1>4. CopiesFit(View, Idle, copies, undone' \cup astray')
  BY <1>3, IdleRests, RestFits
<1> QED  BY <1>1, <1>2, <1>4, StepCopies

-----------------------------------------------------------------------------
\* A transaction writes.

LEMMA WroteCopied ==
    ASSUME NEW q \in Request, NEW docs, NEW w, NEW a, NEW sync
    PROVE  Wrote(q, docs, w, a, sync).copied = q.copied /\ Wrote(q, docs, w, a, sync).serial = q.serial
BY DEF Wrote, Request

LEMMA WriteCopies ==
    ASSUME IInv, IInv', CopyInv, Alone, ~failed, NEW r \in Requests, InTransaction(requests[r]),
           ~HalfDeleted(requests[r]), requests[r].sync = {},
           NEW docs, NEW w \in ViewType, NEW at \in {"sync", "commit"}, NEW S \in SUBSET Products,
           at = "sync" \/ S = {},
           Write(r, docs, w, at, S), Stores, Ghosts,
           \A d \in Docs \ docs : Same(w, requests[r].view, d),
           \A x \in Products \ S : Alike(requests[r].view, w, x),
           \A x \in S : \A s : Tells(w, x, s) => Tells(requests[r].view, x, s)
    PROVE  CopyInv'
<1> DEFINE q == requests[r]
           v == q.view
           q2 == Wrote(q, docs, w, at, S)
           lost == undone \cup astray
<1>1. View' = View /\ copies' = copies /\ astray' = astray
  BY DEF View, Stores, Ghosts
<1>2. q.op \in Transactions /\ Busy(r)
  BY Known DEF InTransaction, Transactions, Moving, Joining
<1>3. /\ CopiesFit(View, q, copies, lost) /\ q \in Request /\ v \in ViewType /\ View \in ViewType
      /\ RequestSound(View, q, astray) /\ OneHomeEach(View, astray)
  BY <1>2, CopyKnown
<1>4. CASE Conflict(r, docs)
  <2>1. Abort(r)
    BY <1>4 DEF Write
  <2> QED  BY <1>2, <2>1, AbortCopies
<1>5. CASE ~Conflict(r, docs)
  <2>1. requests'[r] = q2 /\ (\A s \in Requests \ {r} : requests'[s] = Idle) /\ undone' = undone
    BY <1>2, <1>5, CopyKnown, GhostTypes DEF Write, Wrote, Continue
  <2>2. /\ q2.op = q.op /\ q2.at = at /\ q2.item = q.item /\ q2.view = w /\ q2.dirty = q.dirty
        /\ q2.writes = q.writes \cup docs /\ q2.sync = S /\ q2.copied = q.copied /\ q2.serial = q.serial
    BY <1>3, WroteFields, WroteCopied
  <2>3. q2 \in Request /\ RequestSound(View, q2, astray)
    <3>1. \A s \in Requests : requests'[s] \in Request /\ RequestSound(View, requests'[s], astray')
      BY <1>1 DEF IInv, TypeOK
    <3> QED  BY <1>1, <2>1, <3>1
  <2> HIDE DEF q2
  <2>4. Committed(View, q, v)
    BY <1>3, TransactionCommits DEF CopiesFit, Certain, RequestSound
  <2>5. Committed(View, q2, w)
    BY <2>2, <2>4 DEF Committed, Same
  <2>6. ~HalfDeleted(q2) /\ q2.op \notin {"import", "edit"}
    BY <1>2, <2>2 DEF HalfDeleted, Transactions, Moving, Joining
  <2>7. \A p \in Products \ lost : Agrees(v, copies[p], p)
    BY <1>3, <2>4, OutcomeIs, AlikeAgrees DEF CopiesFit, CopyFits
  <2>8. ASSUME NEW p \in Products \ lost, p \notin S PROVE CopyFits(View, q2, copies[p], p)
    <3>1. Agrees(w, copies[p], p)
      BY <2>7, <2>8, AlikeAgrees
    <3>2. Agrees(Outcome(View, q2), copies[p], p)
      BY <2>5, <3>1, OutcomeIs, AlikeAgrees
    <3>3. p \notin q.copied => Agrees(View, copies[p], p)
      BY <1>3, <2>8 DEF CopiesFit, CopyFits
    <3> QED  BY <2>2, <2>6, <2>8, <3>2, <3>3 DEF CopyFits
  <2>9. ASSUME NEW p \in Products \ lost, p \in S PROVE CopyFits(View, q2, copies[p], p)
    <3>1. \A d, e \in Homes(w, p) : d = e
      BY <1>3, <2>2, <2>3, <2>5, <2>6, OneInView
    <3>2. Homes(w, p) # {}
      BY <2>2, <2>3, <2>9 DEF RequestSound, Synced
    <3>3. \A s : Tells(w, p, s) => s # None \/ copies[p].serial = None
      <4>1. \A s : Tells(v, p, s) => copies[p].serial = s
        BY <2>7 DEF Tells, Agrees
      <4> QED  BY <2>9, <4>1
    <3>4. Agrees(w, CopyBy(q2, copies[p], p), p)
      BY <2>2, <2>3, <2>6, <3>1, <3>2, <3>3, CopyAgrees
    <3>5. Agrees(Outcome(View, q2), CopyBy(q2, copies[p], p), p)
      BY <2>5, <3>4, OutcomeIs, AlikeAgrees
    <3> QED  BY <2>2, <2>6, <2>9, <3>5 DEF CopyFits
  <2>10. CopiesFit(View, q2, copies, lost)
    BY <1>3, <2>2, <2>6, <2>8, <2>9 DEF CopiesFit, Certain
  <2> QED  BY <1>1, <2>1, <2>10, StepCopies
<1> QED  BY <1>4, <1>5

-----------------------------------------------------------------------------
\* Requests that arrive, look and begin.

LEMMA ArriveCopies ==
    ASSUME IInv, CopyInv, Alone, ~failed, NEW r \in Requests, Arrive(r) PROVE CopyInv'
<1>1. PICK op \in Operations[traffic] : \E q \in Bodies(op) : Continue(r, q)
  BY DEF Arrive
<1>2. PICK q \in Bodies(op) : Continue(r, q)
  BY <1>1
<1>3. traffic \in Traffic /\ op \in OperationKinds
  BY ConstantsAssumption DEF IInv, TypeOK
<1>4. /\ q.op = op /\ q.at = "start" /\ q.writes = {} /\ q.sync = {}
      /\ op \notin {"offboard", "readdress", "dismiss"} => q.member = None
  BY <1>3, BodyFields
<1>5. q.dirty = {}
  <2>1. PICK p \in BodyItems(op), t \in BodyTodos(op), m \in BodyMembers(op),
             e \in BodyEmails(op), s \in BodySerials(op), k \in BodyTypings(op) :
               q = Body(op, p, t, m, e, s, k)
    BY DEF Bodies
  <2> QED  BY <2>1 DEF Body, Idle
<1>6. \A s \in Requests : requests[s] = Idle
  BY DEF Arrive, Quiet, Busy
<1>7. requests'[r] = q /\ \A s \in Requests \ {r} : requests'[s] = Idle
  BY <1>2, <1>6, GhostTypes DEF Continue
<1>8. View' = View /\ copies' = copies /\ undone' = undone /\ astray' = astray
  BY DEF Arrive, UnchangedStores, UnchangedGhosts, View
<1>9. \A p \in Products \ (undone \cup astray) : Agrees(View, copies[p], p)
  BY <1>6 DEF CopyInv, Quiet, Busy
<1>10. Certain(q) /\ ~HalfDeleted(q)
  BY <1>4, <1>5 DEF Certain, HalfDeleted
<1>11. CopiesFit(View, q, copies, undone \cup astray)
  BY <1>4, <1>9, <1>10, RestFits
<1> QED  BY <1>7, <1>8, <1>11, StepCopies

\* A step that keeps what a request is certain of.
LEMMA GoesOnCopies ==
    ASSUME IInv, CopyInv, Alone, ~failed, NEW r \in Requests, Busy(r), NEW q2, Continue(r, q2),
           UnchangedStores, UnchangedGhosts, requests[r].at \in {"start", "insert", "write", "attach", "dismiss"},
           q2.writes = {}, q2.sync = {}, q2.dirty = {} \/ q2.dirty = requests[r].dirty,
           q2.op = "import" => requests[r].op = "import" /\ q2.email = requests[r].email
                               /\ (q2.member = None \/ q2.email # None),
           q2.at \in {"start", "insert", "write", "work", "dismiss"}
    PROVE  CopyInv'
<1>1. requests[r].writes = {} /\ requests[r].sync = {}
  BY CopyKnown DEF RequestSound, Phases
<1>2. Certain(requests[r])
  BY CopyKnown DEF CopiesFit
<1>3. Certain(q2) /\ ~HalfDeleted(q2)
  BY <1>2 DEF Certain, HalfDeleted
<1> QED  BY <1>1, <1>3, LookCopies DEF UnchangedGhosts

LEMMA EndsCopies ==
    ASSUME IInv, CopyInv, Alone, ~failed, NEW r \in Requests, Busy(r), Finish(r),
           UnchangedStores, UnchangedGhosts, requests[r].at \in {"start", "insert", "write", "attach", "dismiss"}
    PROVE  CopyInv'
<1>1. requests[r].writes = {} /\ requests[r].sync = {}
  BY CopyKnown DEF RequestSound, Phases
<1> QED  BY <1>1, FinishCopies DEF UnchangedGhosts

LEMMA BeginCopies ==
    ASSUME IInv, CopyInv, Alone, ~failed, NEW r \in Requests, Begin(r) PROVE CopyInv'
<1> DEFINE q == requests[r]
<1>1. /\ q.op \in Transactions /\ q.at = "start" /\ UnchangedStores /\ UnchangedGhosts
  BY DEF Begin, At
<1>2. PICK at \in {"work", "dismiss"} : Continue(r, [q EXCEPT !.view = View, !.dirty = {}, !.at = at])
  BY DEF Begin, At
<1> DEFINE q2 == [q EXCEPT !.view = View, !.dirty = {}, !.at = at]
<1>3. Busy(r) /\ q.op # "import"
  BY <1>1, Known DEF Transactions, Moving, Joining
<1>4. q \in Request /\ q.writes = {} /\ q.sync = {}
  BY <1>1, <1>3, CopyKnown DEF RequestSound, Phases
<1>5. q2.op = q.op /\ q2.at = at /\ q2.writes = {} /\ q2.sync = {} /\ q2.dirty = {}
  BY <1>4 DEF Request
<1>6. Continue(r, q2)
  BY <1>2
<1> HIDE DEF q2
<1> QED  BY <1>1, <1>3, <1>5, <1>6, GoesOnCopies

LEMMA CreateLookCopies ==
    ASSUME IInv, CopyInv, Alone, ~failed, NEW r \in Requests, CreateLook(r) \/ ImportLook(r) PROVE CopyInv'
<1> DEFINE q == requests[r]
<1>1. q.op \in {"create", "import"} /\ q.at = "start" /\ UnchangedStores /\ UnchangedGhosts
  BY DEF CreateLook, ImportLook, At
<1>2. Busy(r)
  BY <1>1, Known
<1>3. q \in Request /\ q.writes = {} /\ q.sync = {}
  BY <1>1, <1>2, CopyKnown DEF RequestSound, Phases
<1>4. Finish(r) \/ Owned(r)
  BY DEF CreateLook, ImportLook
<1>5. CASE Finish(r)
  BY <1>1, <1>2, <1>5, EndsCopies
<1>6. CASE Owned(r)
  <2>1. PICK m : Continue(r, [q EXCEPT !.at = "insert", !.member = IF q.email = None THEN None ELSE m])
    BY <1>6 DEF Owned
  <2> DEFINE n == IF q.email = None THEN None ELSE m
             q2 == [q EXCEPT !.at = "insert", !.member = n]
  <2>2. /\ q2.op = q.op /\ q2.at = "insert" /\ q2.writes = {} /\ q2.sync = {} /\ q2.dirty = q.dirty
        /\ q2.email = q.email /\ q2.member = n
    BY <1>3 DEF Request
  <2>3. Continue(r, q2) /\ (n = None \/ q.email # None)
    BY <2>1
  <2> HIDE DEF q2, n
  <2> QED  BY <1>1, <1>2, <2>2, <2>3, GoesOnCopies
<1> QED  BY <1>4, <1>5, <1>6

LEMMA StockLookCopies ==
    ASSUME IInv, CopyInv, Alone, ~failed, NEW r \in Requests, StockLook(r) \/ SupplyLook(r) PROVE CopyInv'
<1> DEFINE q == requests[r]
           q2 == [q EXCEPT !.at = "insert"]
<1>1. q.op \in {"stock", "supply"} /\ q.at = "start" /\ UnchangedStores /\ UnchangedGhosts
  BY DEF StockLook, SupplyLook, At
<1>2. Busy(r)
  BY <1>1, Known
<1>3. q \in Request /\ q.writes = {} /\ q.sync = {}
  BY <1>1, <1>2, CopyKnown DEF RequestSound, Phases
<1>4. Finish(r) \/ Continue(r, q2)
  BY DEF StockLook, SupplyLook
<1>5. q2.op = q.op /\ q2.at = "insert" /\ q2.writes = {} /\ q2.sync = {} /\ q2.dirty = q.dirty
  BY <1>3 DEF Request
<1> HIDE DEF q2
<1> QED  BY <1>1, <1>2, <1>4, <1>5, EndsCopies, GoesOnCopies

LEMMA EditLookCopies ==
    ASSUME IInv, CopyInv, Alone, ~failed, NEW r \in Requests, EditLook(r) PROVE CopyInv'
<1> DEFINE q == requests[r]
<1>1. q.op = "edit" /\ q.at = "start" /\ UnchangedStores /\ UnchangedGhosts
  BY DEF EditLook, At
<1>2. Busy(r)
  BY <1>1, Known
<1>3. q \in Request /\ q.writes = {} /\ q.sync = {}
  BY <1>1, <1>2, CopyKnown DEF RequestSound, Phases
<1>4. Finish(r) \/ \E m : Continue(r, [q EXCEPT !.at = "write", !.member = m, !.dirty = {}])
  BY DEF EditLook
<1>5. ASSUME NEW m, Continue(r, [q EXCEPT !.at = "write", !.member = m, !.dirty = {}]) PROVE CopyInv'
  <2> DEFINE q2 == [q EXCEPT !.at = "write", !.member = m, !.dirty = {}]
  <2>1. q2.op = q.op /\ q2.at = "write" /\ q2.writes = {} /\ q2.sync = {} /\ q2.dirty = {}
    BY <1>3 DEF Request
  <2>2. Continue(r, q2)
    BY <1>5
  <2> HIDE DEF q2
  <2> QED  BY <1>1, <1>2, <2>1, <2>2, GoesOnCopies
<1> QED  BY <1>1, <1>2, <1>4, <1>5, EndsCopies

LEMMA DismissLookCopies ==
    ASSUME IInv, CopyInv, Alone, ~failed, NEW r \in Requests, DismissLook(r) PROVE CopyInv'
<1> DEFINE q == requests[r]
           q2 == [q EXCEPT !.op = "dismiss", !.at = "write", !.view = NoView]
<1>1. q.op \in {"dismiss", "offboard"} /\ q.at \in {"start", "dismiss"} /\ UnchangedStores /\ UnchangedGhosts
  BY DEF DismissLook, At
<1>2. Busy(r)
  BY <1>1, Known
<1>3. q \in Request /\ q.writes = {} /\ q.sync = {}
  BY <1>1, <1>2, CopyKnown DEF RequestSound, Phases
<1>4. Finish(r) \/ Continue(r, q2)
  BY DEF DismissLook
<1>5. q2.op = "dismiss" /\ q2.at = "write" /\ q2.writes = {} /\ q2.sync = {} /\ q2.dirty = q.dirty
  BY <1>3 DEF Request
<1> HIDE DEF q2
<1> QED  BY <1>1, <1>2, <1>4, <1>5, EndsCopies, GoesOnCopies

\* After a failure nothing is said.
LEMMA FailCopies == ASSUME NEW r \in Requests, Fail(r) PROVE CopyInv'
BY DEF Fail, CopyInv

-----------------------------------------------------------------------------
\* A copy is written, a transaction commits.

LEMMA SyncedCopy == ASSUME NEW q, NEW p PROVE SyncedBy(q, p) = CopyBy(q, copies[p], p)
BY DEF SyncedBy, CopyBy

LEMMA SameCopy ==
    ASSUME NEW q, NEW q2, NEW k, NEW p, q2.op = q.op, q2.view = q.view, q2.serial = q.serial
    PROVE  CopyBy(q2, k, p) = CopyBy(q, k, p)
BY DEF CopyBy

LEMMA SyncCopies ==
    ASSUME IInv, CopyInv, Alone, ~failed, NEW r \in Requests, Sync(r) PROVE CopyInv'
<1> DEFINE q == requests[r]
           lost == undone \cup astray
<1>1. PICK p \in q.sync :
          /\ copies' = [copies EXCEPT ![p] = SyncedBy(q, p)]
          /\ IF q.sync # {p} THEN Continue(r, [q EXCEPT !.sync = @ \ {p}, !.copied = @ \cup {p}])
             ELSE IF q.writes = {} THEN Finish(r)
             ELSE Continue(r, [q EXCEPT !.sync = {}, !.copied = @ \cup {p},
                                  !.at = IF q.op = "bulk" /\ q.todo # {} THEN "work" ELSE "commit"])
  BY DEF Sync
<1>2. q.at = "sync" /\ View' = View /\ undone' = undone /\ astray' = astray
  BY DEF Sync, UnchangedGhosts, View
<1>3. Busy(r) /\ ~HalfDeleted(q)
  BY <1>2 DEF Busy, Idle, HalfDeleted
<1>4. /\ CopiesFit(View, q, copies, lost) /\ q \in Request
      /\ \A s \in Requests \ {r} : requests[s] = Idle
  BY <1>3, CopyKnown
<1>5. /\ copies'[p] = CopyBy(q, copies[p], p) /\ p \in Products
      /\ \A x \in Products \ {p} : copies'[x] = copies[x]
  BY <1>1, <1>4, SyncedCopy, GhostTypes, RequestFields
<1>6. \A x \in Products \ lost : x \notin q.sync \ {p} => Agrees(Outcome(View, q), copies'[x], x)
  BY <1>3, <1>4, <1>5 DEF CopiesFit, CopyFits
<1>7. ASSUME NEW q2, Continue(r, q2), q2.op = q.op, q2.view = q.view, q2.serial = q.serial, q2.writes = q.writes,
             q2.dirty = q.dirty, q2.member = q.member, q2.email = q.email,
             q2.sync = q.sync \ {p}, q2.copied = q.copied \cup {p}, ~HalfDeleted(q2)
      PROVE  CopyInv'
  <2>1. requests'[r] = q2 /\ \A s \in Requests \ {r} : requests'[s] = Idle
    BY <1>4, <1>7, GhostTypes DEF Continue
  <2>2. Outcome(View, q2) = Outcome(View, q)
    BY <1>7 DEF Outcome
  <2>3. ASSUME NEW x \in Products \ lost PROVE CopyFits(View, q2, copies'[x], x)
    <3>1. x \notin q2.sync => Agrees(Outcome(View, q2), copies'[x], x)
      BY <1>6, <1>7, <2>2
    <3>2. x \notin q2.sync \cup q2.copied => Agrees(View, copies'[x], x)
      BY <1>4, <1>5, <1>7 DEF CopiesFit, CopyFits
    <3>3. x \in q2.sync => Agrees(Outcome(View, q2), CopyBy(q2, copies'[x], x), x)
      BY <1>4, <1>5, <1>7, <2>2, SameCopy DEF CopiesFit, CopyFits
    <3> QED  BY <1>7, <3>1, <3>2, <3>3 DEF CopyFits
  <2>4. CopiesFit(View, q2, copies', lost)
    BY <1>4, <1>7, <2>3 DEF CopiesFit, Certain
  <2> QED  BY <1>2, <2>1, <2>4, StepCopies
<1>8. CASE q.sync # {p}
  <2> DEFINE q2 == [q EXCEPT !.sync = @ \ {p}, !.copied = @ \cup {p}]
  <2>1. /\ q2.at = q.at /\ q2.op = q.op /\ q2.view = q.view /\ q2.serial = q.serial /\ q2.writes = q.writes
        /\ q2.dirty = q.dirty /\ q2.member = q.member /\ q2.email = q.email
        /\ q2.sync = q.sync \ {p} /\ q2.copied = q.copied \cup {p}
    BY <1>4 DEF Request
  <2>2. Continue(r, q2)
    BY <1>1, <1>8
  <2> HIDE DEF q2
  <2>3. ~HalfDeleted(q2)
    BY <1>2, <2>1 DEF HalfDeleted
  <2> QED  BY <1>7, <2>1, <2>2, <2>3
<1>9. CASE q.sync = {p} /\ q.writes = {}
  <2>1. Finish(r)
    BY <1>1, <1>9
  <2>2. requests'[r] = Idle /\ \A s \in Requests \ {r} : requests'[s] = Idle
    BY <1>4, <2>1, GhostTypes DEF Finish, Continue
  <2>3. \A x \in Products \ lost : Agrees(View, copies'[x], x)
    BY <1>6, <1>9, NothingCommitted, OutcomeIs, AlikeAgrees
  <2>4. CopiesFit(View, Idle, copies', lost)
    BY <2>3, IdleRests, RestFits
  <2> QED  BY <1>2, <2>2, <2>4, StepCopies
<1>10. CASE q.sync = {p} /\ q.writes # {}
  <2> DEFINE a == IF q.op = "bulk" /\ q.todo # {} THEN "work" ELSE "commit"
             q2 == [q EXCEPT !.sync = {}, !.copied = @ \cup {p}, !.at = a]
  <2>1. /\ q2.at = a /\ q2.op = q.op /\ q2.view = q.view /\ q2.serial = q.serial /\ q2.writes = q.writes
        /\ q2.dirty = q.dirty /\ q2.member = q.member /\ q2.email = q.email
        /\ q2.sync = {} /\ q2.copied = q.copied \cup {p}
    BY <1>4 DEF Request
  <2>2. Continue(r, q2) /\ a \in {"work", "commit"}
    BY <1>1, <1>10
  <2> HIDE DEF q2, a
  <2>3. ~HalfDeleted(q2)
    BY <2>1, <2>2 DEF HalfDeleted
  <2> QED  BY <1>7, <1>10, <2>1, <2>2, <2>3
<1> QED  BY <1>8, <1>9, <1>10

LEMMA CommitCopied ==
    ASSUME NEW q \in Request, q.at \in {"commit", "inserted"}, NEW q2, q2 = AfterCommit(q)
    PROVE  \/ q2 = Idle /\ q.op \notin {"import", "supply"}
           \/ /\ q2.op = q.op /\ q2.writes = {} /\ q2.sync = q.sync /\ q2.at \in {"sync", "start", "attach"}
              /\ q2.serial = q.serial /\ q2.dirty = q.dirty /\ q2.member = q.member /\ q2.email = q.email
              /\ q.op \in {"import", "supply"} => q2.view = q.view
<1>1. CASE q.op \in {"import", "supply"}
  <2>1. q2 = [q EXCEPT !.at = "sync", !.writes = {}]
    BY <1>1 DEF AfterCommit
  <2> QED  BY <1>1, <2>1 DEF Request
<1>2. CASE q.op = "offboard"
  <2>1. q2 = [q EXCEPT !.at = "start", !.writes = {}, !.copied = {}, !.view = NoView]
    BY <1>2 DEF AfterCommit
  <2> QED  BY <1>2, <2>1 DEF Request
<1>3. CASE q.op = "enrol" /\ q.at = "inserted"
  <2>1. q2 = [q EXCEPT !.at = "attach", !.writes = {}, !.view = NoView]
    BY <1>3 DEF AfterCommit
  <2> QED  BY <1>3, <2>1 DEF Request
<1>4. CASE q.op \notin {"import", "supply", "offboard"} /\ ~(q.op = "enrol" /\ q.at = "inserted")
  BY <1>4 DEF AfterCommit
<1> QED  BY <1>1, <1>2, <1>3, <1>4

LEMMA CommitCopies ==
    ASSUME IInv, CopyInv, Alone, ~failed, NEW r \in Requests, Commit(r) PROVE CopyInv'
<1> DEFINE q == requests[r]
           q2 == AfterCommit(q)
           w == View'
           lost == undone \cup astray
           left == undone' \cup astray'
<1>1. q.at \in {"commit", "inserted"} /\ copies' = copies /\ undone' = undone
  BY DEF Commit
<1>2. Busy(r) /\ ~HalfDeleted(q)
  BY <1>1 DEF Busy, Idle, HalfDeleted
<1>3. /\ CopiesFit(View, q, copies, lost) /\ q \in Request /\ RequestSound(View, q, astray)
      /\ \A s \in Requests \ {r} : requests[s] = Idle
  BY <1>2, CopyKnown
<1>4. Products \ left \subseteq Products \ lost
  BY <1>1 DEF Commit
<1>5. w = Outcome(View, q)
  BY DEF Commit, View, Outcome
<1>6. requests'[r] = q2 /\ \A s \in Requests \ {r} : requests'[s] = Idle
  <2>1. Touch(r, q2, q.writes)
    BY DEF Commit
  <2> HIDE DEF q2
  <2> QED  BY <1>3, <2>1 DEF Touch
<1> HIDE DEF w, left
<1>7. \/ q2 = Idle /\ q.op \notin {"import", "supply"}
      \/ /\ q2.op = q.op /\ q2.writes = {} /\ q2.sync = q.sync /\ q2.at \in {"sync", "start", "attach"}
         /\ q2.serial = q.serial /\ q2.dirty = q.dirty /\ q2.member = q.member /\ q2.email = q.email
         /\ q.op \in {"import", "supply"} => q2.view = q.view
  BY <1>1, <1>3, CommitCopied
<1> HIDE DEF q2
<1>8. \A p \in Products \ left : p \notin q.sync => Agrees(w, copies[p], p)
  BY <1>2, <1>3, <1>4, <1>5 DEF CopiesFit, CopyFits
<1>9. q.sync = {} \/ q.op \in {"import", "supply"}
  BY <1>1, <1>3 DEF RequestSound, Phases
<1>10. CopiesFit(w, q2, copies, left)
  <2>1. CASE q2 = Idle /\ q.op \notin {"import", "supply"}
    <3>1. \A p \in Products \ left : Agrees(w, copies[p], p)
      BY <1>8, <1>9, <2>1
    <3> QED  BY <2>1, <3>1, IdleRests, RestFits
  <2>2. CASE /\ q2.op = q.op /\ q2.writes = {} /\ q2.sync = q.sync /\ q2.at \in {"sync", "start", "attach"}
             /\ q2.serial = q.serial /\ q2.dirty = q.dirty /\ q2.member = q.member /\ q2.email = q.email
             /\ q.op \in {"import", "supply"} => q2.view = q.view
    <3>1. Certain(q2) /\ ~HalfDeleted(q2)
      BY <1>3, <2>2 DEF CopiesFit, Certain, HalfDeleted
    <3>2. ASSUME NEW p \in Products \ left PROVE CopyFits(w, q2, copies[p], p)
      <4>1. p \notin q.sync => Agrees(Outcome(w, q2), copies[p], p)
        BY <1>8, <2>2, NothingCommitted, OutcomeIs, AlikeAgrees
      <4>2. p \in q.sync => Agrees(w, CopyBy(q2, copies[p], p), p)
        BY <1>3, <1>4, <1>5, <1>9, <2>2, SameCopy DEF CopiesFit, CopyFits
      <4>3. p \in q.sync => Agrees(Outcome(w, q2), CopyBy(q2, copies[p], p), p)
        BY <2>2, <4>2, NothingCommitted, OutcomeIs, AlikeAgrees
      <4> QED  BY <1>8, <2>2, <3>1, <4>1, <4>3 DEF CopyFits
    <3> QED  BY <3>1, <3>2 DEF CopiesFit
  <2> QED  BY <1>7, <2>1, <2>2
<1> QED  BY <1>1, <1>6, <1>10, StepCopies DEF w, left

-----------------------------------------------------------------------------
\* What a request writes at once, or is going to commit: w, where u was and v is.

LEMMA MadeFits ==
    ASSUME NEW u, NEW v, NEW w \in ViewType, NEW q2 \in Request, NEW ks, NEW lost,
           q2.view = w, Committed(v, q2, w), Certain(q2), ~HalfDeleted(q2),
           \A p \in Products \ lost : Agrees(u, ks[p], p),
           \A p \in Products : p \notin q2.sync => Alike(u, v, p) /\ Alike(u, w, p),
           \A p \in Products \ lost : p \in q2.sync =>
               /\ Homes(w, p) # {} /\ \A d, e \in Homes(w, p) : d = e
               /\ \A s : Tells(w, p, s) => IF q2.op = "edit" /\ q2.serial = None THEN s = None
                                           ELSE s # None \/ Homes(u, p) = {} \/ Tells(u, p, s)
               /\ q2.op = "import" => \A m \in Holders(w, p) : w.people[m].has[p].email # None
    PROVE  CopiesFit(v, q2, ks, lost)
<1> SUFFICES ASSUME NEW p \in Products \ lost PROVE CopyFits(v, q2, ks[p], p)
  BY DEF CopiesFit
<1> DEFINE k == ks[p]
<1>1. Agrees(u, k, p)
  OBVIOUS
<1>2. CASE p \notin q2.sync
  <2>1. Agrees(v, k, p) /\ Agrees(w, k, p)
    BY <1>1, <1>2, AlikeAgrees
  <2>2. Agrees(Outcome(v, q2), k, p)
    BY <2>1, OutcomeIs, AlikeAgrees
  <2> QED  BY <1>2, <2>1, <2>2 DEF CopyFits
<1>3. CASE p \in q2.sync
  <2>1. (Homes(u, p) = {} => k.serial = None) /\ \A s : Tells(u, p, s) => k.serial = s
    BY <1>1 DEF Agrees, Tells, Unwritten
  <2>2. \A s : Tells(w, p, s) => IF q2.op = "edit" /\ q2.serial = None THEN s = None ELSE s # None \/ k.serial = None
    BY <1>3, <2>1
  <2>3. Agrees(w, CopyBy(q2, k, p), p)
    BY <1>3, <2>2, CopyAgrees
  <2>4. Agrees(Outcome(v, q2), CopyBy(q2, k, p), p)
    BY <2>3, OutcomeIs, AlikeAgrees
  <2> QED  BY <1>3, <2>4 DEF CopyFits
<1> QED  BY <1>2, <1>3

\* What a request that has just looked knows.
LEMMA InsertKnown ==
    ASSUME IInv, CopyInv, Alone, ~failed, NEW r \in Requests, Busy(r),
           requests[r].at \in {"insert", "write", "attach"}
    PROVE  /\ requests[r].writes = {} /\ requests[r].sync = {} /\ requests[r].dirty = {}
           /\ \A p \in Products \ (undone \cup astray) : Agrees(View, copies[p], p)
<1>1. requests[r].writes = {} /\ requests[r].sync = {}
  BY CopyKnown DEF RequestSound, Phases
<1>2. requests[r].dirty = {}
  BY CopyKnown DEF CopiesFit, Certain
<1> QED  BY <1>1, <1>2, RestCopies

-----------------------------------------------------------------------------
\* Products that are created.

LEMMA FiledElsewhere ==
    ASSUME IInv, NEW q \in Request, NEW p \in Products, NEW x \in Products, x # p
    PROVE  Alike(View, Filed(q, p), x)
<1> DEFINE w == Filed(q, p)
<1>1. CASE q.member = None
  <2>1. w.pool = [View.pool EXCEPT ![p] = NewItem(q)] /\ w.people = View.people
    BY <1>1, FiledFields
  <2> HIDE DEF w
  <2>2. w.pool[x] = View.pool[x] /\ \A m \in Members : w.people[m].has[x] = View.people[m].has[x]
    BY <2>1, GhostTypes DEF ViewType
  <2>3. Alike(View, w, x)
    BY <2>2, SameAlike
  <2> QED  BY <2>3 DEF w
<1>2. CASE q.member # None
  <2>1. /\ w.pool = View.pool
        /\ \A m \in Members, y \in Products :
              w.people[m].has[y] = IF m = q.member /\ y = p THEN NewItem(q) ELSE View.people[m].has[y]
    BY <1>2, FiledFields
  <2> HIDE DEF w
  <2>2. w.pool[x] = View.pool[x] /\ \A m \in Members : w.people[m].has[x] = View.people[m].has[x]
    BY <2>1
  <2>3. Alike(View, w, x)
    BY <2>2, SameAlike
  <2> QED  BY <2>3 DEF w
<1> QED  BY <1>1, <1>2

\* What is written outside any transaction is there at once.
LEMMA PlacedCopies ==
    ASSUME IInv, CopyInv, Alone, ~failed, NEW r \in Requests, Busy(r), requests[r].at \in {"insert", "write"},
           NEW w \in ViewType, View' = w, copies' = copies, UnchangedGhosts,
           NEW q2 \in Request, NEW docs, Touch(r, q2, docs), NEW p \in Products,
           q2.op \in {"create", "stock", "edit"}, q2.at = "sync", q2.view = w, q2.writes = {}, q2.dirty = requests[r].dirty,
           q2.sync = {p}, \A x \in Products \ {p} : Alike(View, w, x),
           p \notin astray =>
               /\ Homes(w, p) # {} /\ \A d, e \in Homes(w, p) : d = e
               /\ \A s : Tells(w, p, s) => IF q2.op = "edit" /\ q2.serial = None THEN s = None
                                           ELSE s # None \/ Homes(View, p) = {} \/ Tells(View, p, s)
    PROVE  CopyInv'
<1> DEFINE q == requests[r]
           lost == undone \cup astray
<1>1. /\ q.dirty = {} /\ \A s \in Requests \ {r} : requests[s] = Idle
      /\ \A x \in Products \ lost : Agrees(View, copies[x], x)
  BY CopyKnown, InsertKnown
<1>2. requests'[r] = q2 /\ \A s \in Requests \ {r} : requests'[s] = Idle
  BY <1>1 DEF Touch
<1>3. Certain(q2) /\ ~HalfDeleted(q2) /\ q2.op # "import"
  BY <1>1 DEF Certain, HalfDeleted
<1>4. Committed(w, q2, w)
  BY NothingCommitted
<1>5. \A x \in Products : x \notin q2.sync => Alike(View, w, x) /\ Alike(View, w, x)
  OBVIOUS
<1>6. \A x \in Products \ lost : x \in q2.sync =>
          /\ Homes(w, x) # {} /\ \A d, e \in Homes(w, x) : d = e
          /\ \A s : Tells(w, x, s) => IF q2.op = "edit" /\ q2.serial = None THEN s = None
                                      ELSE s # None \/ Homes(View, x) = {} \/ Tells(View, x, s)
          /\ q2.op = "import" => \A m \in Holders(w, x) : w.people[m].has[x].email # None
  BY <1>3
<1>7. CopiesFit(w, q2, copies, lost)
  BY <1>1, <1>3, <1>4, <1>5, <1>6, MadeFits
<1> QED  BY <1>2, <1>7, StepCopies DEF UnchangedGhosts

LEMMA FileCopies ==
    ASSUME IInv, CopyInv, Alone, ~failed, NEW r \in Requests, NEW p \in Fresh,
           requests[r].op \in {"create", "stock"}, requests[r].at = "insert",
           pool' = Filed(requests[r], p).pool, people' = Filed(requests[r], p).people,
           Touch(r, [requests[r] EXCEPT !.view = Filed(requests[r], p), !.sync = {p}, !.at = "sync"],
                 FiledIn(requests[r], p)),
           copies' = copies, UnchangedGhosts
    PROVE  CopyInv'
<1> DEFINE q == requests[r]
           w == Filed(q, p)
           q2 == [q EXCEPT !.view = w, !.sync = {p}, !.at = "sync"]
<1>1. Busy(r)
  BY Known
<1>2. q \in Request /\ q.writes = {}
  BY <1>1, CopyKnown, InsertKnown
<1>3. p \in Products /\ Homes(View, p) = {} /\ \E d \in FiledIn(q, p) : Homes(w, p) = {d}
  BY <1>2, FiledHomes
<1>4. w \in ViewType
  BY <1>2, <1>3, FiledFields
<1>5. View' = w
  BY <1>4, ViewFields DEF View
<1>6. /\ q2.op = q.op /\ q2.at = "sync" /\ q2.view = w /\ q2.writes = {} /\ q2.dirty = q.dirty
      /\ q2.sync = {p}
  BY <1>2 DEF Request
<1>7. q2 \in Request
  BY <1>2, <1>3, <1>4 DEF Request, ViewType
<1>8. Touch(r, q2, FiledIn(q, p))
  OBVIOUS
<1>9. \A x \in Products \ {p} : Alike(View, w, x)
  BY <1>2, <1>3, FiledElsewhere
<1> HIDE DEF q2, w
<1>10. /\ Homes(w, p) # {} /\ \A d, e \in Homes(w, p) : d = e
       /\ \A s : Tells(w, p, s) => IF q2.op = "edit" /\ q2.serial = None THEN s = None
                                   ELSE s # None \/ Homes(View, p) = {} \/ Tells(View, p, s)
  BY <1>3, <1>6
<1> QED  BY <1>1, <1>3, <1>4, <1>5, <1>6, <1>7, <1>8, <1>9, <1>10, PlacedCopies

LEMMA CreateWriteCopies ==
    ASSUME IInv, CopyInv, Alone, ~failed, NEW r \in Requests, CreateWrite(r) PROVE CopyInv'
<1> DEFINE q == requests[r]
<1>1. q.op = "create" /\ q.at = "insert" /\ UnchangedGhosts
  BY DEF CreateWrite, At
<1>2. Busy(r)
  BY <1>1, Known
<1>3. CASE Finish(r) /\ UnchangedStores
  BY <1>1, <1>2, <1>3, EndsCopies
<1>4. ASSUME NEW p \in Fresh,
             pool' = Filed(q, p).pool, people' = Filed(q, p).people, copies' = copies,
             Touch(r, [q EXCEPT !.view = Filed(q, p), !.sync = {p}, !.at = "sync"], FiledIn(q, p))
      PROVE  CopyInv'
  BY <1>1, <1>4, FileCopies
<1> QED  BY <1>3, <1>4 DEF CreateWrite

LEMMA StockWriteCopies ==
    ASSUME IInv, CopyInv, Alone, ~failed, NEW r \in Requests, StockWrite(r) PROVE CopyInv'
<1> DEFINE q == requests[r]
<1>1. q.op = "stock" /\ q.at = "insert" /\ UnchangedGhosts /\ q \in Request
  BY Known DEF StockWrite, At
<1>2. q.member = None /\ Busy(r)
  BY <1>1, Known DEF RequestSound, Phases, Supplying
<1>3. CASE Finish(r) /\ UnchangedStores
  BY <1>1, <1>2, <1>3, EndsCopies
<1>4. ASSUME NEW p \in Fresh, pool' = Filed(q, p).pool, people' = people, copies' = copies,
             Touch(r, [q EXCEPT !.view = Filed(q, p), !.sync = {p}, !.at = "sync"], {p})
      PROVE  CopyInv'
  <2>1. FiledIn(q, p) = {p}
    BY <1>2 DEF FiledIn
  <2>2. people' = Filed(q, p).people
    <3>1. p \in Products
      BY DEF Fresh
    <3>2. Filed(q, p).people = View.people
      BY <1>1, <1>2, <3>1, FiledFields
    <3> QED  BY <1>4, <3>2, GhostTypes
  <2> QED  BY <1>1, <1>4, <2>1, <2>2, FileCopies
<1> QED  BY <1>3, <1>4 DEF StockWrite

\* An import, of one product, and a supply, of two: they are copied after the commit.
LEMMA InsertCopies ==
    ASSUME IInv, CopyInv, Alone, ~failed, NEW r \in Requests, Busy(r), requests[r].at = "insert",
           NEW w \in ViewType, NEW q2 \in Request, Continue(r, q2), UnchangedStores, UnchangedGhosts,
           q2.op \in {"import", "supply"}, q2.op = requests[r].op, q2.at = "commit", q2.view = w,
           q2.dirty = requests[r].dirty, q2.member = requests[r].member, q2.email = requests[r].email,
           \A d \in Docs \ q2.writes : Same(View, w, d),
           \A x \in Products : x \notin q2.sync => Alike(View, w, x),
           \A x \in q2.sync : Homes(View, x) = {} /\ \E d : Homes(w, x) = {d},
           \A x \in q2.sync : \A m \in Holders(w, x) : q2.op = "import" /\ w.people[m].has[x].email = q2.email /\ q2.member # None
    PROVE  CopyInv'
<1> DEFINE q == requests[r]
           lost == undone \cup astray
<1>1. /\ q.dirty = {} /\ \A s \in Requests \ {r} : requests[s] = Idle
      /\ \A x \in Products \ lost : Agrees(View, copies[x], x)
      /\ Certain(q)
  BY CopyKnown, InsertKnown DEF CopiesFit
<1>2. requests'[r] = q2 /\ \A s \in Requests \ {r} : requests'[s] = Idle
  BY <1>1, GhostTypes DEF Continue
<1>3. Certain(q2) /\ ~HalfDeleted(q2)
  BY <1>1 DEF Certain, HalfDeleted
<1>4. Committed(View, q2, w)
  BY DEF Committed, Same
<1>5. \A x \in Products : Alike(View, View, x)
  BY SameAlike
<1>6. \A x \in Products : x \notin q2.sync => Alike(View, View, x) /\ Alike(View, w, x)
  BY <1>5
<1>7. \A x \in Products \ lost : x \in q2.sync =>
          /\ Homes(w, x) # {} /\ \A d, e \in Homes(w, x) : d = e
          /\ \A s : Tells(w, x, s) => IF q2.op = "edit" /\ q2.serial = None THEN s = None
                                      ELSE s # None \/ Homes(View, x) = {} \/ Tells(View, x, s)
          /\ q2.op = "import" => \A m \in Holders(w, x) : w.people[m].has[x].email # None
  BY <1>3 DEF Certain
<1>8. CopiesFit(View, q2, copies, lost)
  BY <1>1, <1>3, <1>4, <1>6, <1>7, CopyKnown, MadeFits
<1>9. View' = View /\ copies' = copies
  BY DEF View, UnchangedStores
<1> QED  BY <1>2, <1>8, <1>9, StepCopies DEF UnchangedGhosts

LEMMA ImportWriteCopies ==
    ASSUME IInv, CopyInv, Alone, ~failed, NEW r \in Requests, ImportWrite(r) PROVE CopyInv'
<1> DEFINE q == requests[r]
<1>1. q.op = "import" /\ q.at = "insert" /\ UnchangedStores /\ UnchangedGhosts
  BY DEF ImportWrite, At
<1>2. Busy(r)
  BY <1>1, Known
<1>3. q \in Request /\ View \in ViewType
  BY <1>2, CopyKnown
<1>4. CASE Finish(r)
  BY <1>1, <1>2, <1>4, EndsCopies
<1>5. ASSUME NEW p \in Fresh,
             Continue(r, [q EXCEPT !.view = Filed(q, p), !.sync = {p}, !.at = "commit", !.writes = FiledIn(q, p)])
      PROVE  CopyInv'
  <2> DEFINE w == Filed(q, p)
             docs == FiledIn(q, p)
             q2 == [q EXCEPT !.view = w, !.sync = {p}, !.at = "commit", !.writes = docs]
  <2>1. /\ p \in Products /\ Homes(View, p) = {} /\ \E d \in docs : Homes(w, p) = {d}
        /\ \A d \in Docs \ docs : Same(View, w, d)
        /\ docs \subseteq Docs
    BY <1>3, FiledHomes
  <2>2. w \in ViewType /\ \A x \in Products \ {p} : Alike(View, w, x)
    BY <1>3, <2>1, FiledFields, FiledElsewhere
  <2>3. q2 \in Request
    BY <1>3, <2>1, <2>2 DEF Request, ViewType
  <2>4. /\ q2.op = q.op /\ q2.at = "commit" /\ q2.view = w /\ q2.writes = docs /\ q2.email = q.email
        /\ q2.dirty = q.dirty /\ q2.member = q.member /\ q2.sync = {p}
    BY <1>3 DEF Request
  <2>5. \A m \in Holders(w, p) : w.people[m].has[p].email = q.email /\ q.member # None
    <3>1. ~Stored(View, p) /\ \A m \in Members : View.people[m].has[p] = Absent
      BY <1>3, <2>1, HomesAre DEF Holders
    <3>2. CASE q.member = None
      <4>1. w.people = View.people
        BY <1>3, <2>1, <3>2, FiledFields
      <4> QED  BY <3>1, <4>1 DEF Holders
    <3>3. CASE q.member # None
      <4>1. \A m \in Members, x \in Products :
                w.people[m].has[x] = IF m = q.member /\ x = p THEN NewItem(q) ELSE View.people[m].has[x]
        BY <1>3, <2>1, <3>3, FiledFields
      <4>2. NewItem(q).email = q.email
        BY DEF NewItem
      <4> HIDE DEF w
      <4> QED  BY <2>1, <3>1, <3>3, <4>1, <4>2 DEF Holders
    <3> QED  BY <3>2, <3>3
  <2>6. Continue(r, q2)
    BY <1>5
  <2> HIDE DEF q2, w, docs
  <2>7. \A x \in q2.sync : Homes(View, x) = {} /\ \E d : Homes(w, x) = {d}
    BY <2>1, <2>4
  <2>8. \A x \in q2.sync : \A m \in Holders(w, x) : q2.op = "import" /\ w.people[m].has[x].email = q2.email /\ q2.member # None
    BY <1>1, <2>4, <2>5
  <2>9. /\ \A d \in Docs \ q2.writes : Same(View, w, d)
        /\ \A x \in Products : x \notin q2.sync => Alike(View, w, x)
    BY <2>1, <2>2, <2>4
  <2> QED  BY <1>1, <1>2, <2>2, <2>3, <2>4, <2>6, <2>7, <2>8, <2>9, InsertCopies
<1> QED  BY <1>4, <1>5 DEF ImportWrite

LEMMA SupplyWriteCopies ==
    ASSUME IInv, CopyInv, Alone, ~failed, NEW r \in Requests, SupplyWrite(r) PROVE CopyInv'
<1> DEFINE q == requests[r]
<1>1. q.op = "supply" /\ q.at = "insert" /\ UnchangedStores /\ UnchangedGhosts
  BY DEF SupplyWrite, At
<1>2. Busy(r)
  BY <1>1, Known
<1>3. q \in Request /\ View \in ViewType /\ q.member = None
  BY <1>1, <1>2, CopyKnown DEF RequestSound, Phases, Supplying
<1>4. CASE Finish(r)
  BY <1>1, <1>2, <1>4, EndsCopies
<1>5. ASSUME NEW p \in Fresh, NEW x \in Fresh, p # x,
             Continue(r, [q EXCEPT !.at = "commit", !.writes = {p, x}, !.sync = {p, x},
                      !.view = [Filed(q, p) EXCEPT !.pool[x] = [Filed(q, p).pool[p] EXCEPT !.serial = None]]])
      PROVE  CopyInv'
  <2> DEFINE u == Filed(q, p)
             other == [u.pool[p] EXCEPT !.serial = None]
             w == [u EXCEPT !.pool[x] = other]
             docs == {p, x}
             q2 == [q EXCEPT !.at = "commit", !.writes = docs, !.sync = docs, !.view = w]
  <2>1. p \in Products /\ x \in Products /\ Homes(View, p) = {} /\ Homes(View, x) = {}
    BY <1>3, FiledHomes
  <2>2. u \in ViewType /\ u.pool = [View.pool EXCEPT ![p] = NewItem(q)] /\ u.people = View.people
    BY <1>3, <2>1, FiledFields
  <2>3. NewItem(q) # Absent /\ other \in Slot /\ other # Absent
    <3>1. u.pool[p] = NewItem(q) /\ NewItem(q) \in Item /\ NewItem(q) # Absent
      BY <1>3, <2>1, <2>2, NewItemType DEF ViewType
    <3>2. other \in Item
      BY <3>1 DEF Item
    <3> QED  BY <3>1, <3>2, ItemIsSlot
  <2> HIDE DEF other, u
  <2>4. /\ w \in ViewType /\ w.people = View.people
        /\ \A y \in Products : w.pool[y] = IF y = x THEN other ELSE IF y = p THEN NewItem(q) ELSE View.pool[y]
    BY <1>3, <2>1, <2>2, <2>3 DEF ViewType
  <2>5. q2 \in Request
    <3>1. docs \in SUBSET Products /\ docs \in SUBSET Docs
      BY <2>1 DEF Docs
    <3> HIDE DEF w, docs
    <3> QED  BY <1>3, <2>4, <3>1 DEF Request, ViewType
  <2>6. /\ q2.op = q.op /\ q2.at = "commit" /\ q2.view = w /\ q2.writes = docs /\ q2.email = q.email
        /\ q2.dirty = q.dirty /\ q2.member = q.member /\ q2.sync = docs
    BY <1>3 DEF Request
  <2>7. Continue(r, q2)
    BY <1>5 DEF other, u
  <2> HIDE DEF q2, w
  <2>8. \A d \in Docs \ q2.writes : Same(View, w, d)
    BY <2>4, <2>6, DocsDiffer DEF Same
  <2>9. \A y \in Products : y \notin q2.sync => Alike(View, w, y)
    BY <2>4, <2>6 DEF Alike
  <2>10. \A y \in docs, m \in Members : View.people[m].has[y] = Absent
    BY <1>3, <2>1, HomesAre DEF Holders
  <2>11. \A y \in q2.sync : Homes(View, y) = {} /\ \E d : Homes(w, y) = {d}
    <3> SUFFICES ASSUME NEW y \in docs PROVE Homes(View, y) = {} /\ Homes(w, y) = {y}
      BY <2>6
    <3>1. y \in Products /\ w.pool[y] # Absent /\ \A m \in Members : w.people[m].has[y] = Absent
      BY <2>1, <2>3, <2>4, <2>10
    <3> QED  BY <2>1, <3>1, DocsDiffer DEF Homes
  <2>12. \A y \in q2.sync : \A m \in Holders(w, y) :
             q2.op = "import" /\ w.people[m].has[y].email = q2.email /\ q2.member # None
    BY <2>4, <2>6, <2>10 DEF Holders
  <2> HIDE DEF docs
  <2> QED  BY <1>1, <1>2, <2>4, <2>5, <2>6, <2>7, <2>8, <2>9, <2>11, <2>12, InsertCopies
<1> QED  BY <1>4, <1>5 DEF SupplyWrite

-----------------------------------------------------------------------------
\* A serial number is changed, outside any transaction.

LEMMA EditInPoolCopies ==
    ASSUME IInv, CopyInv, Alone, ~failed, NEW r \in Requests, EditInPool(r) PROVE CopyInv'
<1> DEFINE q == requests[r]
           p == q.item
           i == [View.pool[p] EXCEPT !.serial = q.serial]
           w == [View EXCEPT !.pool[p] = i]
           q2 == [q EXCEPT !.at = "sync", !.sync = {p}, !.view = w]
<1>1. q.op = "edit" /\ q.at = "write" /\ UnchangedGhosts
  BY DEF EditInPool, At
<1>2. Busy(r)
  BY <1>1, Known
<1>3. /\ q \in Request /\ RequestSound(View, q, astray) /\ View \in ViewType /\ OneHomeEach(View, astray)
      /\ View.pool = pool /\ View.people = people
  BY <1>2, CopyKnown
<1>4. p \in Products /\ q.writes = {} /\ q.serial \in Serials \cup {None}
  BY <1>1, <1>3, RequestFields DEF RequestSound, Phases
<1>5. CASE Finish(r) /\ UnchangedStores
  BY <1>1, <1>2, <1>5, EndsCopies
<1>6. CASE /\ Stored(View, p)
           /\ pool' = [pool EXCEPT ![p].serial = q.serial]
           /\ Touch(r, q2, {p}) /\ people' = people /\ copies' = copies
  <2>1. View.pool[p] \in Slot /\ View.pool[p] # Absent /\ View.pool \in [Products -> Slot]
    BY <1>3, <1>4, <1>6, ViewFields DEF Stored
  <2>2. i.serial = q.serial /\ i \in Slot /\ i # Absent
    <3>1. i.serial = q.serial
      BY <2>1, SlotFields DEF Item
    <3> QED  BY <1>4, <2>1, <3>1, SerialType
  <2>3. pool' = [View.pool EXCEPT ![p] = i]
    BY <1>3, <1>6
  <2>4. Touch(r, q2, {p})
    BY <1>6
  <2> HIDE DEF i
  <2>5. w \in ViewType /\ w.pool = [View.pool EXCEPT ![p] = i] /\ w.people = View.people
    BY <1>3, <1>4, <2>1, <2>2 DEF ViewType
  <2>6. View' = w
    <3>1. w = [pool |-> w.pool, people |-> w.people]
      BY <2>5, ViewFields
    <3> HIDE DEF w
    <3> QED  BY <1>3, <1>6, <2>3, <2>5, <3>1 DEF View
  <2>7. /\ q2.op = "edit" /\ q2.at = "sync" /\ q2.writes = {} /\ q2.dirty = q.dirty /\ q2.view = w
        /\ q2.sync = {p} /\ q2.serial = q.serial
    BY <1>1, <1>3, <1>4 DEF Request
  <2>8. q2 \in Request
    BY <1>3, <1>4, <2>5 DEF Request, ViewType
  <2> HIDE DEF w, q2
  <2>9. \A x \in Products : w.pool[x] = IF x = p THEN i ELSE View.pool[x]
    BY <2>1, <2>5
  <2>10. \A x \in Products \ {p} : Alike(View, w, x)
    BY <2>5, <2>9 DEF Alike
  <2>11. ASSUME p \notin astray
         PROVE  /\ Homes(w, p) # {} /\ \A d, e \in Homes(w, p) : d = e
                /\ \A s : Tells(w, p, s) => s = q.serial
    <3>1. \A d, e \in Homes(View, p) : d = e
      BY <1>3, <1>4, <2>11 DEF OneHomeEach
    <3>2. Homes(w, p) = Homes(View, p)
      BY <1>4, <2>1, <2>2, <2>5, <2>9 DEF Homes
    <3>3. p \in Homes(w, p)
      BY <1>3, <1>4, <1>6, <3>2, HomesAre
    <3>4. Holders(w, p) = {}
      BY <1>4, <2>5, <3>1, <3>2, <3>3, HomesAre, DocsDiffer DEF Holders
    <3> QED  BY <1>4, <2>2, <2>9, <3>1, <3>2, <3>3, <3>4 DEF Tells
  <2>12. p \notin astray =>
             /\ Homes(w, p) # {} /\ \A d, e \in Homes(w, p) : d = e
             /\ \A s : Tells(w, p, s) => IF q2.op = "edit" /\ q2.serial = None THEN s = None
                                         ELSE s # None \/ Homes(View, p) = {} \/ Tells(View, p, s)
    BY <2>7, <2>11
  <2> HIDE DEF p
  <2> QED  BY <1>1, <1>2, <1>4, <1>6, <2>4, <2>5, <2>6, <2>7, <2>8, <2>10, <2>12, PlacedCopies
<1> QED  BY <1>3, <1>5, <1>6 DEF EditInPool

LEMMA EditInMemberCopies ==
    ASSUME IInv, CopyInv, Alone, ~failed, NEW r \in Requests, EditInMember(r) PROVE CopyInv'
<1> DEFINE q == requests[r]
           m == q.member
           p == q.item
           i == [View.people[m].has[p] EXCEPT !.serial = q.serial]
           person == [View.people[m] EXCEPT !.has[p] = i]
           w == [View EXCEPT !.people[m] = person]
           q2 == [q EXCEPT !.at = "sync", !.sync = {p}, !.view = w]
<1>1. q.op = "edit" /\ q.at = "write" /\ m # None /\ UnchangedGhosts
  BY DEF EditInMember, At
<1>2. Busy(r)
  BY <1>1, Known
<1>3. /\ q \in Request /\ RequestSound(View, q, astray) /\ View \in ViewType /\ OneHomeEach(View, astray)
      /\ View.pool = pool /\ View.people = people /\ q.dirty = {}
  BY <1>1, <1>2, CopyKnown, InsertKnown
<1>4. p \in Products /\ q.writes = {} /\ q.serial \in Serials \cup {None} /\ m \in Members
  BY <1>1, <1>3, RequestFields DEF RequestSound, Phases
<1>5. View.people[m].has[p] # Absent
  BY <1>1, <1>3, <1>4 DEF RequestSound, EditSees
<1>6. /\ people' = [people EXCEPT ![m].has[p].serial = q.serial] /\ Touch(r, q2, {m})
      /\ pool' = pool /\ copies' = copies
  BY <1>3 DEF EditInMember
<1>7. View.people[m] \in Person /\ View.people \in [Members -> Person] /\ View.people[m].has[p] \in Slot
  BY <1>3, <1>4, ViewFields
<1>8. i.serial = q.serial /\ i \in Slot /\ i # Absent
  <2>1. i.serial = q.serial
    BY <1>5, <1>7, SlotFields DEF Item
  <2> QED  BY <1>4, <1>5, <1>7, <2>1, SerialType
<1>9. people' = [View.people EXCEPT ![m] = person]
  BY <1>3, <1>6
<1>10. Touch(r, q2, {m}) /\ pool' = View.pool
  BY <1>3, <1>6
<1> HIDE DEF i
<1>11. /\ person \in Person
       /\ \A x \in Products : person.has[x] = IF x = p THEN i ELSE View.people[m].has[x]
  BY <1>4, <1>7, <1>8 DEF Person
<1> HIDE DEF person
<1>12. w \in ViewType /\ w.pool = View.pool /\ w.people = [View.people EXCEPT ![m] = person]
  BY <1>3, <1>4, <1>7, <1>11 DEF ViewType
<1>13. View' = w
  <2>1. w = [pool |-> w.pool, people |-> w.people]
    BY <1>12, ViewFields
  <2> HIDE DEF w
  <2> QED  BY <1>9, <1>10, <1>12, <2>1 DEF View
<1>14. /\ q2.op = "edit" /\ q2.at = "sync" /\ q2.writes = {} /\ q2.dirty = q.dirty /\ q2.view = w
       /\ q2.sync = {p} /\ q2.serial = q.serial
  BY <1>1, <1>3, <1>4 DEF Request
<1>15. q2 \in Request
  BY <1>3, <1>4, <1>12 DEF Request, ViewType
<1> HIDE DEF w, q2
<1>16. w.people[m] = person /\ \A n \in Members \ {m} : w.people[n] = View.people[n]
  BY <1>4, <1>7, <1>12
<1>17. \A n \in Members, x \in Products :
          w.people[n].has[x] = IF n = m /\ x = p THEN i ELSE View.people[n].has[x]
  BY <1>11, <1>16
<1>18. \A x \in Products \ {p} : Alike(View, w, x)
  BY <1>12, <1>17 DEF Alike
<1>19. ASSUME p \notin astray
       PROVE  /\ Homes(w, p) # {} /\ \A d, e \in Homes(w, p) : d = e
              /\ \A s : Tells(w, p, s) => s = q.serial
  <2>1. \A d, e \in Homes(View, p) : d = e
    BY <1>3, <1>4, <1>19 DEF OneHomeEach
  <2>2. Homes(w, p) = Homes(View, p)
    BY <1>4, <1>5, <1>8, <1>12, <1>17 DEF Homes
  <2>3. m \in Homes(w, p)
    BY <1>4, <1>8, <1>17, DocsDiffer DEF Homes
  <2>4. ~Stored(w, p) /\ \A n \in Holders(w, p) : n = m
    <3>1. \A d \in Homes(w, p) : d = m
      BY <2>1, <2>2, <2>3
    <3>2. /\ p \in Homes(w, p) <=> Stored(w, p)
          /\ \A n \in Members : n \in Homes(w, p) <=> n \in Holders(w, p)
      BY <1>4, <1>12, HomesAre
    <3>3. p # m /\ \A n \in Holders(w, p) : n \in Members
      BY <1>4, DocsDiffer DEF Holders
    <3> QED  BY <3>1, <3>2, <3>3
  <2> QED  BY <1>4, <1>8, <1>17, <2>1, <2>2, <2>3, <2>4 DEF Tells
<1>20. p \notin astray =>
           /\ Homes(w, p) # {} /\ \A d, e \in Homes(w, p) : d = e
           /\ \A s : Tells(w, p, s) => IF q2.op = "edit" /\ q2.serial = None THEN s = None
                                       ELSE s # None \/ Homes(View, p) = {} \/ Tells(View, p, s)
  BY <1>14, <1>19
<1> HIDE DEF p
<1> QED  BY <1>1, <1>2, <1>4, <1>6, <1>10, <1>12, <1>13, <1>14, <1>15, <1>18, <1>20, PlacedCopies

-----------------------------------------------------------------------------
\* Products that are moved.

LEMMA PutCopied ==
    ASSUME NEW v, NEW w, NEW p \in Products, NEW n \in Members, NEW i, NEW j, PutFits(v, w, p, n, i, j),
           i = Absent \/ Tells(v, p, i.serial), j = Absent \/ Tells(v, p, j.serial)
    PROVE  /\ \A x \in Products \ {p} : Alike(v, w, x)
           /\ \A s : Tells(w, p, s) => Tells(v, p, s)
<1>1. \A x \in Products \ {p} : Alike(v, w, x)
  BY DEF PutFits, Alike
<1>2. w.pool[p] = i /\ \A k \in Members : w.people[k].has[p] = IF k = n THEN j ELSE v.people[k].has[p]
  BY DEF PutFits
<1>3. \A s : Stored(w, p) /\ w.pool[p].serial = s => Tells(v, p, s)
  BY <1>2 DEF Stored
<1>4. \A k \in Holders(w, p) : Tells(v, p, w.people[k].has[p].serial)
  BY <1>2 DEF Holders, Tells
<1>5. \A s : Tells(w, p, s) => Tells(v, p, s)
  BY <1>3, <1>4 DEF Tells
<1> QED  BY <1>1, <1>5

\* What a move knows of its request.
LEMMA MovesCopied ==
    ASSUME IInv, NEW r \in Requests, At(r, Moving, "work"), NEW o \in Ordered(requests[r])
    PROVE  /\ o[1] \in Products /\ o[2] \in Emails \cup {None} /\ Busy(r) /\ InTransaction(requests[r])
           /\ requests[r].view \in ViewType /\ ~HalfDeleted(requests[r]) /\ requests[r].sync = {}
BY Moves DEF HalfDeleted, Moving, RequestSound, Phases, At

LEMMA MovedCopies ==
    ASSUME IInv, IInv', CopyInv, Alone, ~failed, NEW r \in Requests, InTransaction(requests[r]),
           ~HalfDeleted(requests[r]), requests[r].sync = {},
           NEW p \in Products, NEW docs, NEW w \in ViewType, Write(r, docs, w, "sync", {p}), Stores, Ghosts,
           \A d \in Docs \ docs : Same(w, requests[r].view, d),
           \A x \in Products \ {p} : Alike(requests[r].view, w, x),
           \A s : Tells(w, p, s) => Tells(requests[r].view, p, s)
    PROVE  CopyInv'
<1> DEFINE S == {p}
<1>1. S \in SUBSET Products /\ Write(r, docs, w, "sync", S) /\ \A x \in Products \ S : Alike(requests[r].view, w, x)
  OBVIOUS
<1>2. \A x \in S : \A s : Tells(w, x, s) => Tells(requests[r].view, x, s)
  OBVIOUS
<1> HIDE DEF S
<1> QED  BY <1>1, <1>2, WriteCopies

LEMMA FromPoolCopies ==
    ASSUME IInv, IInv', CopyInv, Alone, ~failed, NEW r \in Requests, At(r, Moving, "work"),
           NEW o \in Ordered(requests[r]),
           Stored(requests[r].view, o[1]), FromPool(r, o[1], o[2]), Stores, Ghosts
    PROVE  CopyInv'
<1> DEFINE q == requests[r]
           v == q.view
           p == o[1]
           e == o[2]
<1>1. /\ p \in Products /\ e \in Emails \cup {None} /\ Busy(r) /\ InTransaction(q)
      /\ v \in ViewType /\ ~HalfDeleted(q) /\ q.sync = {}
  BY MovesCopied
<1>2. CASE Abort(r)
  BY <1>1, <1>2, AbortCopies
<1>3. CASE UpdatedThere(r, p)
  <2> DEFINE docs == {p}
  <2>1. Write(r, docs, v, "sync", {p})
    BY <1>3 DEF UpdatedThere
  <2>2. /\ \A d \in Docs \ docs : Same(v, v, d)
        /\ \A x \in Products \ {p} : Alike(v, v, x)
    BY DEF Same, Alike
  <2> HIDE DEF docs
  <2> QED  BY <1>1, <2>1, <2>2, MovedCopies
<1>4. ASSUME e # None, NEW n \in Found(v, e),
             Write(r, {p, n},
                 [pool   |-> [v.pool EXCEPT ![p] = Absent],
                  people |-> [v.people EXCEPT ![n].has[p] = [v.pool[p] EXCEPT !.email = e, !.named = TRUE]]],
                 "sync", {p})
      PROVE  CopyInv'
  <2> DEFINE j == [v.pool[p] EXCEPT !.email = e, !.named = TRUE]
             w == [pool |-> [v.pool EXCEPT ![p] = Absent], people |-> [v.people EXCEPT ![n].has[p] = j]]
             docs == {p, n}
  <2>1. n \in Members
    BY DEF Found
  <2>2. v.pool[p] # Absent /\ v.pool[p] \in Item
    BY <1>1, ViewFields, SlotFields DEF Stored
  <2>3. j \in Slot /\ Absent \in Slot
    BY <1>1, <2>2, ItemUpdates, ItemIsSlot DEF Slot
  <2>4. j.serial = v.pool[p].serial
    BY <2>2 DEF Item
  <2>5. Write(r, docs, w, "sync", {p})
    BY <1>4
  <2> HIDE DEF j
  <2>6. PutFits(v, w, p, n, Absent, j)
    BY <1>1, <2>1, <2>3, PutIs
  <2> HIDE DEF w
  <2>7. Tells(v, p, j.serial)
    BY <2>2, <2>4 DEF Tells, Stored
  <2>8. (\A x \in Products \ {p} : Alike(v, w, x)) /\ \A s : Tells(w, p, s) => Tells(v, p, s)
    BY <1>1, <2>1, <2>6, <2>7, PutCopied
  <2>9. w \in ViewType /\ \A d \in Docs \ docs : Same(w, v, d)
    <3>1. w \in ViewType
      BY <2>6 DEF PutFits
    <3> QED  BY <1>1, <2>1, <2>6, <3>1, PutElsewhere
  <2> HIDE DEF docs
  <2> QED  BY <1>1, <2>5, <2>8, <2>9, MovedCopies
<1> QED  BY <1>2, <1>3, <1>4 DEF FromPool

LEMMA ToPoolCopies ==
    ASSUME IInv, IInv', CopyInv, Alone, ~failed, NEW r \in Requests, At(r, Moving, "work"),
           NEW o \in Ordered(requests[r]),
           NEW m \in Holders(requests[r].view, o[1]), ~Stored(requests[r].view, o[1]),
           ToPool(r, o[1], requests[r].view.people[m].has[o[1]], m), Stores, Ghosts
    PROVE  CopyInv'
<1> DEFINE q == requests[r]
           v == q.view
           p == o[1]
           item == v.people[m].has[p]
           i == [item EXCEPT !.email = None, !.named = FALSE]
           w == [pool |-> [v.pool EXCEPT ![p] = i], people |-> [v.people EXCEPT ![m].has[p] = Absent]]
           docs == {p, m}
<1>1. /\ p \in Products /\ Busy(r) /\ InTransaction(q)
      /\ v \in ViewType /\ ~HalfDeleted(q) /\ q.sync = {}
  BY MovesCopied
<1>2. m \in Members /\ item # Absent /\ item \in Item
  BY <1>1, ViewFields, SlotFields DEF Holders
<1>3. i \in Slot /\ Absent \in Slot /\ i.serial = item.serial
  <2>1. i.serial = item.serial
    BY <1>2 DEF Item
  <2> QED  BY <1>2, <2>1, ItemUpdates, ItemIsSlot DEF Slot
<1>4. Write(r, docs, w, "sync", {p})
  BY DEF ToPool
<1> HIDE DEF i
<1>5. PutFits(v, w, p, m, i, Absent)
  BY <1>1, <1>2, <1>3, PutIs
<1> HIDE DEF w
<1>6. Tells(v, p, i.serial)
  BY <1>3 DEF Tells
<1>7. (\A x \in Products \ {p} : Alike(v, w, x)) /\ \A s : Tells(w, p, s) => Tells(v, p, s)
  BY <1>1, <1>2, <1>5, <1>6, PutCopied
<1>8. w \in ViewType /\ \A d \in Docs \ docs : Same(w, v, d)
  <2>1. w \in ViewType
    BY <1>5 DEF PutFits
  <2> QED  BY <1>1, <1>2, <1>5, <2>1, PutElsewhere
<1> HIDE DEF docs
<1> QED  BY <1>1, <1>4, <1>7, <1>8, MovedCopies

LEMMA ToMemberCopies ==
    ASSUME IInv, IInv', CopyInv, Alone, ~failed, NEW r \in Requests, At(r, Moving, "work"),
           NEW o \in Ordered(requests[r]), o[2] # None,
           NEW m \in Holders(requests[r].view, o[1]),
           ToMember(r, o[1], requests[r].view.people[m].has[o[1]], o[2]), Stores, Ghosts
    PROVE  CopyInv'
<1> DEFINE q == requests[r]
           v == q.view
           p == o[1]
           e == o[2]
           item == v.people[m].has[p]
           c == Giving(p, item)
           j == [item EXCEPT !.email = e, !.named = TRUE]
<1>1. /\ p \in Products /\ e \in Emails \cup {None} /\ Busy(r) /\ InTransaction(q)
      /\ v \in ViewType /\ ~HalfDeleted(q) /\ q.sync = {}
  BY MovesCopied
<1>2. m \in Members /\ item # Absent /\ item \in Item
  BY <1>1, ViewFields, SlotFields DEF Holders
<1>3. j \in Slot /\ Tells(v, p, j.serial)
  <2>1. j.serial = item.serial
    BY <1>2 DEF Item
  <2> QED  BY <1>1, <1>2, <2>1, ItemUpdates, ItemIsSlot DEF Tells
<1>4. c \subseteq Members
  BY DEF Giving, Found
<1>5. CASE Abort(r)
  BY <1>1, <1>5, AbortCopies
<1>6. ASSUME NEW n \in Found(v, e), Write(r, {n} \cup c, Given(v, p, n, c, j), "sync", {p}) PROVE CopyInv'
  <2> DEFINE w == Given(v, p, n, c, j)
             docs == {n} \cup c
  <2>1. n \in Members
    BY DEF Found
  <2> HIDE DEF c, item, j
  <2>2. GivenFits(v, p, n, c, j, w)
    BY <1>1, <1>3, <1>4, <2>1, GivenFields
  <2>3. Write(r, docs, w, "sync", {p})
    BY <1>6
  <2> HIDE DEF w
  <2>4. /\ w \in ViewType /\ w.pool = v.pool
        /\ \A k \in Members, x \in Products \ {p} : w.people[k].has[x] = v.people[k].has[x]
        /\ \A k \in Members \ docs : w.people[k] = v.people[k]
    BY <2>2 DEF GivenFits
  <2>5. \A k \in Members : \/ w.people[k].has[p] = v.people[k].has[p] \/ w.people[k].has[p] = Absent
                           \/ w.people[k].has[p] = j
    BY <2>1, <2>2 DEF GivenFits
  <2>6. \A x \in Products \ {p} : Alike(v, w, x)
    BY <2>4 DEF Alike
  <2>7. \A s : Tells(w, p, s) => Tells(v, p, s)
    <3>1. \A k \in Holders(w, p) : Tells(v, p, w.people[k].has[p].serial)
      BY <1>3, <2>5 DEF Holders, Tells
    <3> QED  BY <2>4, <3>1 DEF Tells, Stored
  <2>8. w \in ViewType /\ \A d \in Docs \ docs : Same(w, v, d)
    BY <2>4 DEF Same
  <2> HIDE DEF docs
  <2> QED  BY <1>1, <2>3, <2>6, <2>7, <2>8, MovedCopies
<1> QED  BY <1>5, <1>6 DEF ToMember, Given

LEMMA MoveItemCopies ==
    ASSUME IInv, IInv', CopyInv, Alone, ~failed, NEW r \in Requests, MoveItem(r) PROVE CopyInv'
<1> DEFINE q == requests[r]
<1>1. PICK o \in Ordered(q) :
          IF Stored(q.view, o[1]) THEN FromPool(r, o[1], o[2])
          ELSE IF Holders(q.view, o[1]) = {} THEN Abort(r)
          ELSE FromMember(r, o[1], o[2])
  BY DEF MoveItem
<1>2. At(r, Moving, "work") /\ Stores /\ Ghosts
  BY DEF MoveItem
<1>3. Busy(r) /\ q.sync = {}
  BY <1>2, MovesCopied
<1>4. CASE Stored(q.view, o[1])
  BY <1>1, <1>2, <1>4, FromPoolCopies
<1>5. CASE Abort(r)
  BY <1>2, <1>3, <1>5, AbortCopies
<1>6. CASE ~Stored(q.view, o[1]) /\ FromMember(r, o[1], o[2]) /\ ~Abort(r)
  <2>1. PICK m \in Holders(q.view, o[1]) :
            IF o[2] = None THEN ToPool(r, o[1], q.view.people[m].has[o[1]], m)
            ELSE ToMember(r, o[1], q.view.people[m].has[o[1]], o[2])
    BY <1>6 DEF FromMember
  <2>2. CASE o[2] = None
    BY <1>2, <1>6, <2>1, <2>2, ToPoolCopies
  <2>3. CASE o[2] # None
    BY <1>2, <1>6, <2>1, <2>3, ToMemberCopies
  <2> QED  BY <2>2, <2>3
<1> QED  BY <1>1, <1>4, <1>5, <1>6

-----------------------------------------------------------------------------
\* Members that are created, get another email, or are dismissed.

LEMMA AttachedCopied ==
    ASSUME NEW v \in ViewType, NEW m \in Members, NEW e \in Emails \cup {None}, NEW named \in BOOLEAN
    PROVE  /\ \A x \in Products \ Waiting(v, e) : Alike(v, Attached(v, m, e, named), x)
           /\ \A x \in Waiting(v, e) : \A s : Tells(Attached(v, m, e, named), x, s) => Tells(v, x, s)
<1> DEFINE S == Waiting(v, e)
           w == Attached(v, m, e, named)
<1>1. AttachedFits(v, m, e, w)
  BY AttachedFields
<1>2. \A p \in S : w.people[m].has[p].serial = v.pool[p].serial
  BY AttachedSerials
<1> HIDE DEF w
<1>3. /\ S \subseteq Products
      /\ \A p \in S : w.pool[p] = Absent /\ v.pool[p] # Absent
      /\ \A p \in Products \ S : w.pool[p] = v.pool[p]
      /\ \A n \in Members \ {m} : w.people[n] = v.people[n]
      /\ \A p \in Products \ S : w.people[m].has[p] = v.people[m].has[p]
  BY <1>1 DEF AttachedFits
<1> HIDE DEF S
<1>4. \A x \in Products \ S : Alike(v, w, x)
  BY <1>3 DEF Alike
<1>5. \A x \in S : \A s : Tells(w, x, s) => Tells(v, x, s)
  <2> SUFFICES ASSUME NEW x \in S, NEW s, Tells(w, x, s) PROVE Tells(v, x, s)
    OBVIOUS
  <2>1. PICK n \in Holders(w, x) : w.people[n].has[x].serial = s
    BY <1>3 DEF Tells, Stored
  <2>2. n \in Members /\ w.people[n].has[x] # Absent
    BY DEF Holders
  <2>3. CASE n = m
    BY <1>2, <1>3, <2>1, <2>3 DEF Tells, Stored
  <2>4. CASE n # m
    <3>1. v.people[n] = w.people[n]
      BY <1>3, <2>2, <2>4
    <3>2. n \in Holders(v, x) /\ v.people[n].has[x].serial = s
      BY <2>1, <2>2, <3>1 DEF Holders
    <3> QED  BY <3>2 DEF Tells
  <2> QED  BY <2>3, <2>4
<1> QED  BY <1>4, <1>5 DEF w, S

LEMMA JoinWriteCopies ==
    ASSUME IInv, IInv', CopyInv, Alone, ~failed, NEW r \in Requests, JoinWrite(r) PROVE CopyInv'
<1> DEFINE q == requests[r]
           v == q.view
           e == q.email
           S == Waiting(v, e)
           next == IF S = {} THEN "commit" ELSE "sync"
<1>1. q.op = "join" /\ q.at = "work" /\ Stores /\ Ghosts
  BY DEF JoinWrite, At
<1>2. Busy(r)
  BY <1>1, Known
<1>3. q \in Request /\ RequestSound(View, q, astray) /\ v \in ViewType /\ e \in Emails \cup {None}
  BY <1>2, CopyKnown, RequestFields
<1>4. InTransaction(q) /\ ~HalfDeleted(q) /\ q.sync = {}
  BY <1>1, <1>3 DEF InTransaction, HalfDeleted, Transactions, Joining, RequestSound, Phases
<1>5. CASE Abort(r)
  BY <1>1, <1>2, <1>4, <1>5, AbortCopies
<1>6. ASSUME NEW m \in Members, Write(r, {m} \cup S, Attached(v, m, e, FALSE), next, S) PROVE CopyInv'
  <2> DEFINE w == Attached(v, m, e, FALSE)
             docs == {m} \cup S
  <2>1. AttachedMoves(v, m, e, w) /\ AttachedFits(v, m, e, w)
    BY <1>3, AttachedFields, AttachedHomes, Zenon
  <2>2. (\A x \in Products \ S : Alike(v, w, x)) /\ \A x \in S : \A s : Tells(w, x, s) => Tells(v, x, s)
    BY <1>3, AttachedCopied, Zenon
  <2>3. Write(r, docs, w, next, S)
    BY <1>6
  <2> HIDE DEF w
  <2>4. \A d \in Docs \ docs : Same(w, v, d)
    BY <2>1 DEF AttachedMoves
  <2>5. w \in ViewType /\ S \in SUBSET Products
    BY <2>1 DEF AttachedFits
  <2>6. next \in {"sync", "commit"} /\ (next = "sync" \/ S = {})
    OBVIOUS
  <2> HIDE DEF docs, next, S
  <2> QED  BY <1>1, <1>4, <2>2, <2>3, <2>4, <2>5, <2>6, WriteCopies
<1> QED  BY <1>5, <1>6 DEF JoinWrite

LEMMA ReaddressWriteCopies ==
    ASSUME IInv, IInv', CopyInv, Alone, ~failed, NEW r \in Requests, ReaddressWrite(r) PROVE CopyInv'
<1> DEFINE q == requests[r]
           v == q.view
           m == q.member
           e == q.email
           person == Readdressed(v.people[m], e)
           w == [v EXCEPT !.people[m] = person]
<1>1. q.op = "readdress" /\ q.at = "work" /\ Stores /\ Ghosts
  BY DEF ReaddressWrite, At
<1>2. Busy(r)
  BY <1>1, Known
<1>3. q \in Request /\ RequestSound(View, q, astray) /\ v \in ViewType /\ e \in Emails \cup {None}
  BY <1>2, CopyKnown, RequestFields
<1>4. InTransaction(q) /\ ~HalfDeleted(q) /\ q.sync = {} /\ m \in Members
  BY <1>1, <1>3 DEF InTransaction, HalfDeleted, Transactions, RequestSound, Phases
<1>5. CASE Abort(r)
  BY <1>1, <1>2, <1>4, <1>5, AbortCopies
<1>6. CASE Write(r, {m}, [v EXCEPT !.people[m] = Readdressed(@, e)], "commit", {})
  <2> DEFINE docs == {m}
             S == {}
             next == "commit"
  <2>1. Write(r, docs, w, next, S)
    BY <1>6
  <2>2. v.people[m] \in Person
    BY <1>3, <1>4, ViewFields
  <2>3. /\ person \in Person
        /\ \A p \in Products : /\ person.has[p].serial = v.people[m].has[p].serial
                               /\ v.people[m].has[p] = Absent <=> person.has[p] = Absent
    BY <1>3, <2>2, ReaddressedFields, ReaddressedSerials
  <2>4. \A p \in Products : person.has[p].gone = v.people[m].has[p].gone
    <3>1. \A p \in Products : v.people[m].has[p] # Absent => person.has[p].gone = v.people[m].has[p].gone
      BY <1>3, <2>2, ReaddressedGone
    <3> HIDE DEF person
    <3> QED  BY <2>3, <3>1
  <2> HIDE DEF person
  <2>5. /\ w \in ViewType /\ w.pool = v.pool /\ w.people[m] = person
        /\ \A n \in Members \ {m} : w.people[n] = v.people[n]
    BY <1>3, <1>4, <2>3 DEF ViewType
  <2> HIDE DEF w
  <2>6. \A x \in Products \ S : Alike(v, w, x)
    BY <2>3, <2>4, <2>5 DEF Alike
  <2>7. w \in ViewType /\ \A d \in Docs \ docs : Same(w, v, d)
    BY <2>5 DEF Same
  <2>8. S \in SUBSET Products /\ \A x \in S : \A s : Tells(w, x, s) => Tells(v, x, s)
    OBVIOUS
  <2>9. next \in {"sync", "commit"} /\ (next = "sync" \/ S = {})
    OBVIOUS
  <2> HIDE DEF docs, next, S
  <2> QED  BY <1>1, <1>4, <2>1, <2>6, <2>7, <2>8, <2>9, WriteCopies
<1> QED  BY <1>5, <1>6 DEF ReaddressWrite

\* A transaction that is alone and has written nothing sees what is there.
LEMMA SeesThere ==
    ASSUME IInv, CopyInv, Alone, ~failed, NEW r \in Requests, InTransaction(requests[r]), requests[r].writes = {}
    PROVE  /\ \A d \in Docs : Same(requests[r].view, View, d)
           /\ \A p \in Products : requests[r].view.pool[p] = View.pool[p]
           /\ \A m \in Members : requests[r].view.people[m] = View.people[m]
<1>1. Busy(r)
  BY Known DEF InTransaction, Transactions, Moving, Joining
<1>2. \A d \in Docs : Same(requests[r].view, View, d)
  BY <1>1, CopyKnown DEF CopiesFit, Certain, RequestSound, SnapshotValid
<1> QED  BY <1>2, DocsDiffer DEF Same

LEMMA EnrolWriteCopies ==
    ASSUME IInv, IInv', CopyInv, Alone, ~failed, NEW r \in Requests, EnrolWrite(r) PROVE CopyInv'
<1> DEFINE q == requests[r]
           lost == undone \cup astray
<1>1. q.op = "enrol" /\ q.at = "work" /\ Stores /\ Ghosts
  BY DEF EnrolWrite, At
<1>2. Busy(r)
  BY <1>1, Known
<1>3. /\ q \in Request /\ RequestSound(View, q, astray) /\ q.view \in ViewType /\ View \in ViewType
      /\ CopiesFit(View, q, copies, lost) /\ View.people = people
      /\ \A s \in Requests \ {r} : requests[s] = Idle
  BY <1>2, CopyKnown
<1>4. InTransaction(q) /\ q.writes = {} /\ q.sync = {} /\ q.dirty = {}
  BY <1>1, <1>3 DEF InTransaction, Transactions, Joining, RequestSound, Phases, CopiesFit, Certain
<1>5. CASE Abort(r)
  BY <1>1, <1>2, <1>4, <1>5, AbortCopies
<1>6. ASSUME NEW m \in Members, people[m].status = "unused", undone' = undone,
             Continue(r, [q EXCEPT !.member = m, !.writes = {m}, !.at = "inserted",
                      !.view.people[m] = [Nobody EXCEPT !.status = "live", !.email = q.email]])
      PROVE  CopyInv'
  <2> DEFINE person == [Nobody EXCEPT !.status = "live", !.email = q.email]
             w == [q.view EXCEPT !.people[m] = person]
             q2 == [q EXCEPT !.member = m, !.writes = {m}, !.at = "inserted", !.view = w]
  <2>1. person \in Person /\ \A p \in Products : person.has[p] = Absent
    BY <1>3, NobodyType, RequestFields DEF Person
  <2> HIDE DEF person
  <2>2. /\ w \in ViewType /\ w.people[m] = person /\ w.pool = q.view.pool
        /\ \A n \in Members \ {m} : w.people[n] = q.view.people[n]
    BY <1>3, <2>1 DEF ViewType
  <2>3. Continue(r, q2)
    BY <1>3, <1>6 DEF person
  <2> HIDE DEF w
  <2>4. /\ q2.op = "enrol" /\ q2.at = "inserted" /\ q2.sync = {}
        /\ q2.view = w /\ q2.writes = {m} /\ q2.dirty = {}
    BY <1>1, <1>3, <1>4 DEF Request
  <2> HIDE DEF q2
  <2>5. requests'[r] = q2 /\ \A s \in Requests \ {r} : requests'[s] = Idle
    BY <1>3, <2>3, GhostTypes DEF Continue
  <2>6. q2 \in Request
    BY <2>5 DEF IInv, TypeOK
  <2>7. /\ \A d \in Docs : Same(q.view, View, d)
        /\ \A p \in Products : q.view.pool[p] = View.pool[p]
        /\ \A n \in Members : q.view.people[n] = View.people[n]
    BY <1>4, SeesThere
  <2>8. \A p \in Products : View.people[m].has[p] = Absent
    BY <1>3, <1>6 DEF IInv, Housed
  <2>9. \A x \in Products : Alike(View, w, x) /\ Alike(View, View, x)
    BY <2>1, <2>2, <2>7, <2>8 DEF Alike
  <2>10. Committed(View, q2, w)
    BY <2>2, <2>4, <2>7, DocsDiffer DEF Committed, Same
  <2>11. \A p \in Products \ lost : Agrees(View, copies[p], p)
    BY <1>2, <1>4, RestCopies
  <2>12. Certain(q2) /\ ~HalfDeleted(q2)
    BY <2>4 DEF Certain, HalfDeleted
  <2>13. CopiesFit(View, q2, copies, lost)
    BY <2>2, <2>4, <2>6, <2>9, <2>10, <2>11, <2>12, MadeFits
  <2>14. View' = View /\ copies' = copies /\ astray' = astray
    BY <1>1 DEF Stores, Ghosts, View
  <2> QED  BY <1>6, <2>5, <2>13, <2>14, StepCopies
<1> QED  BY <1>5, <1>6 DEF EnrolWrite

LEMMA EnrolAttachCopies ==
    ASSUME IInv, IInv', CopyInv, Alone, ~failed, NEW r \in Requests, EnrolAttach(r) PROVE CopyInv'
<1> DEFINE q == requests[r]
           m == q.member
           e == q.email
           lost == undone \cup astray
           S == Waiting(View, e)
           w == Attached(View, m, e, TRUE)
           q2 == [q EXCEPT !.view = w, !.writes = {m} \cup S, !.sync = S, !.at = "sync"]
<1>1. q.op = "enrol" /\ q.at = "attach" /\ UnchangedStores /\ UnchangedGhosts
  BY DEF EnrolAttach, At
<1>2. Busy(r)
  BY <1>1, Known
<1>3. /\ q \in Request /\ RequestSound(View, q, astray) /\ View \in ViewType /\ e \in Emails \cup {None}
      /\ \A s \in Requests \ {r} : requests[s] = Idle
      /\ OneHomeEach(View, astray)
  BY <1>2, CopyKnown, RequestFields
<1>4. m \in Members /\ q.dirty = {} /\ \A p \in Products \ lost : Agrees(View, copies[p], p)
  BY <1>1, <1>2, <1>3, InsertKnown DEF RequestSound, Phases
<1>5. Finish(r) \/ Continue(r, q2)
  BY <1>1, <1>3 DEF EnrolAttach, Request
<1>6. CASE Finish(r)
  BY <1>1, <1>2, <1>6, EndsCopies
<1>7. CASE Continue(r, q2)
  <2>1. AttachedMoves(View, m, e, w) /\ AttachedFits(View, m, e, w)
    BY <1>3, <1>4, AttachedFields, AttachedHomes, Zenon
  <2>2. (\A x \in Products \ S : Alike(View, w, x)) /\ \A x \in S : \A s : Tells(w, x, s) => Tells(View, x, s)
    BY <1>3, <1>4, AttachedCopied, Zenon
  <2>3. /\ q2.op = "enrol" /\ q2.at = "sync" /\ q2.dirty = {} /\ q2.view = w /\ q2.writes = {m} \cup S
        /\ q2.sync = S
    BY <1>1, <1>3, <1>4 DEF Request
  <2> HIDE DEF q2, w
  <2>4. requests'[r] = q2 /\ \A s \in Requests \ {r} : requests'[s] = Idle
    BY <1>3, <1>7, GhostTypes DEF Continue
  <2>5. q2 \in Request
    BY <2>4 DEF IInv, TypeOK
  <2>6. /\ \A x \in S : x \in Homes(View, x) /\ Homes(w, x) = (Homes(View, x) \ {x}) \cup {m}
        /\ \A d \in Docs \ ({m} \cup S) : Same(w, View, d)
        /\ w \in ViewType
    BY <2>1 DEF AttachedMoves, AttachedFits
  <2> HIDE DEF S
  <2>7. Committed(View, q2, w)
    BY <2>3, <2>6 DEF Committed, Same
  <2>8. \A x \in Products : x \notin q2.sync => Alike(View, View, x) /\ Alike(View, w, x)
    BY <2>2, <2>3 DEF Alike
  <2>9. \A x \in Products \ lost : x \in q2.sync =>
            /\ Homes(w, x) # {} /\ \A d, f \in Homes(w, x) : d = f
            /\ \A s : Tells(w, x, s) => IF q2.op = "edit" /\ q2.serial = None THEN s = None
                                        ELSE s # None \/ Homes(View, x) = {} \/ Tells(View, x, s)
            /\ q2.op = "import" => \A n \in Holders(w, x) : w.people[n].has[x].email # None
    <3> SUFFICES ASSUME NEW x \in Products \ lost, x \in S
                 PROVE  /\ Homes(w, x) # {} /\ (\A d, f \in Homes(w, x) : d = f)
                        /\ \A s : Tells(w, x, s) => Tells(View, x, s)
      BY <2>3
    <3>1. \A d, f \in Homes(View, x) : d = f
      BY <1>3 DEF OneHomeEach
    <3> QED  BY <2>2, <2>6, <3>1
  <2>10. Certain(q2) /\ ~HalfDeleted(q2)
    BY <2>3 DEF Certain, HalfDeleted
  <2>11. CopiesFit(View, q2, copies, lost)
    BY <1>3, <1>4, <2>3, <2>5, <2>6, <2>7, <2>8, <2>9, <2>10, MadeFits
  <2>12. View' = View /\ copies' = copies /\ astray' = astray /\ undone' = undone
    BY <1>1 DEF UnchangedStores, UnchangedGhosts, View
  <2> QED  BY <2>4, <2>11, <2>12, StepCopies
<1> QED  BY <1>5, <1>6, <1>7

LEMMA DismissWriteCopies ==
    ASSUME IInv, CopyInv, Alone, ~failed, NEW r \in Requests, DismissWrite(r) PROVE CopyInv'
<1> DEFINE q == requests[r]
           m == q.member
           lost == undone \cup astray
<1>1. /\ q.op = "dismiss" /\ q.at = "write" /\ UnchangedGhosts
      /\ people' = [people EXCEPT ![m].status = "deleted"] /\ Touch(r, Idle, {m}) /\ pool' = pool /\ copies' = copies
  BY DEF DismissWrite, At
<1>2. Busy(r)
  BY <1>1, Known
<1>3. /\ View \in ViewType /\ View.pool = pool /\ View.people = people
      /\ \A s \in Requests \ {r} : requests[s] = Idle
      /\ \A p \in Products \ lost : Agrees(View, copies[p], p)
  BY <1>1, <1>2, CopyKnown, InsertKnown
<1>4. requests'[r] = Idle /\ \A s \in Requests \ {r} : requests'[s] = Idle
  BY <1>1, <1>3 DEF Touch
<1>5. View'.pool = View.pool /\ \A n \in Members : View'.people[n].has = View.people[n].has
  <2>1. View'.pool = pool' /\ View'.people = people'
    BY DEF View
  <2>2. people \in [Members -> Person]
    BY <1>3, ViewFields
  <2>3. \A n \in Members : people'[n].has = people[n].has
    BY <1>1, <2>2 DEF Person
  <2> QED  BY <1>1, <1>3, <2>1, <2>3
<1> DEFINE w == View'
<1> HIDE DEF w
<1>6. \A p \in Products : Alike(View, w, p)
  BY <1>5 DEF Alike, w
<1>7. \A p \in Products \ lost : Agrees(w, copies[p], p)
  BY <1>3, <1>6, AlikeAgrees
<1>8. CopiesFit(w, Idle, copies, lost)
  BY <1>7, IdleRests, RestFits
<1>9. View' = w
  BY DEF w
<1> QED  BY <1>1, <1>4, <1>8, <1>9, StepCopies DEF UnchangedGhosts

-----------------------------------------------------------------------------
\* A product is deleted: in the collections, then in the copy, then with its member.

LEMMA DeletedIs ==
    ASSUME NEW i \in Item
    PROVE  Deleted(i) # Absent /\ Deleted(i) \in Slot /\ Deleted(i).gone = TRUE /\ Deleted(i).serial = None
<1>1. Deleted(i).gone = TRUE /\ Deleted(i).serial = None
  BY DEF Deleted, Item
<1> QED  BY <1>1, DeletedType

LEMMA DeleteWriteCopies ==
    ASSUME IInv, IInv', CopyInv, Alone, ~failed, NEW r \in Requests, DeleteWrite(r) PROVE CopyInv'
<1> DEFINE q == requests[r]
           v == q.view
           p == q.item
           lost == undone \cup astray
<1>1. q.op = "delete" /\ q.at = "work" /\ Stores /\ Ghosts
  BY DEF DeleteWrite, At
<1>2. Busy(r)
  BY <1>1, Known
<1>3. /\ q \in Request /\ RequestSound(View, q, astray) /\ v \in ViewType /\ View \in ViewType
      /\ CopiesFit(View, q, copies, lost)
      /\ \A s \in Requests \ {r} : requests[s] = Idle
  BY <1>2, CopyKnown
<1>4. InTransaction(q) /\ q.writes = {} /\ q.sync = {} /\ q.dirty = {} /\ p \in Products
  BY <1>1, <1>3 DEF InTransaction, Transactions, RequestSound, Phases, CopiesFit, Certain
<1>5. CASE Abort(r)
  BY <1>1, <1>2, <1>4, <1>5, AbortCopies
<1>6. ASSUME NEW i \in Item, Homes(v, p) # {}, Write(r, {p}, [v EXCEPT !.pool[p] = Deleted(i)], "mark", {})
      PROVE  CopyInv'
  <2> DEFINE w == [v EXCEPT !.pool[p] = Deleted(i)]
             docs == {p}
             q2 == Wrote(q, docs, w, "mark", {})
  <2>1. /\ w \in ViewType /\ w.pool[p] = Deleted(i) /\ w.people = v.people
        /\ \A x \in Products \ {p} : w.pool[x] = v.pool[x]
    BY <1>3, <1>4, DeletedIs DEF ViewType
  <2>2. Write(r, docs, w, "mark", {})
    BY <1>6
  <2> HIDE DEF w
  <2>3. CASE Conflict(r, docs)
    <3>1. Abort(r)
      BY <2>2, <2>3 DEF Write
    <3> QED  BY <1>5, <3>1
  <2>4. CASE ~Conflict(r, docs)
    <3>1. requests'[r] = q2 /\ (\A s \in Requests \ {r} : requests'[s] = Idle) /\ undone' = undone
      BY <1>3, <2>2, <2>4, GhostTypes DEF Write, Wrote, Continue
    <3>2. /\ q2.op = q.op /\ q2.at = "mark" /\ q2.item = q.item /\ q2.view = w /\ q2.dirty = q.dirty
          /\ q2.writes = q.writes \cup docs /\ q2.sync = {} /\ q2.copied = q.copied
      BY <1>3, WroteFields, WroteCopied
    <3> HIDE DEF q2
    <3>3. /\ \A d \in Docs : Same(v, View, d)
          /\ \A x \in Products : v.pool[x] = View.pool[x]
          /\ \A m \in Members : v.people[m] = View.people[m]
      BY <1>4, SeesThere
    <3>4. \A x \in Products \ lost : Agrees(View, copies[x], x)
      BY <1>2, <1>4, RestCopies
    <3>5. Committed(View, q2, w)
      BY <1>4, <2>1, <3>2, <3>3, DocsDiffer DEF Committed, Same
    <3>6. ASSUME NEW x \in Products \ lost, x # p PROVE CopyFits(View, q2, copies[x], x)
      <4>1. Alike(View, w, x)
        BY <2>1, <3>3, <3>6 DEF Alike
      <4>2. Agrees(Outcome(View, q2), copies[x], x)
        BY <3>4, <3>5, <4>1, OutcomeIs, AlikeAgrees
      <4> QED  BY <3>2, <3>4, <3>6, <4>2 DEF CopyFits
    <3>7. ASSUME p \notin lost PROVE CopyFits(View, q2, copies[p], p)
      <4>1. Homes(View, p) # {}
        BY <1>4, <1>6, <3>3 DEF Homes
      <4>2. copies[p].source # "none" /\ Agrees(View, copies[p], p)
        BY <1>4, <3>4, <3>7, <4>1 DEF Agrees
      <4>3. q2.view.pool[q2.item] = Deleted(i) /\ q2.at # "detach"
        BY <2>1, <3>2
      <4>4. HalfMarked(q2, copies[p])
        BY <4>2, <4>3, DeletedIs DEF HalfMarked
      <4>5. HalfDeleted(q2)
        BY <1>1, <3>2 DEF HalfDeleted
      <4> QED  BY <3>2, <4>2, <4>4, <4>5 DEF CopyFits
    <3>8. CopiesFit(View, q2, copies, lost)
      BY <1>1, <1>4, <3>2, <3>6, <3>7 DEF CopiesFit, Certain
    <3>9. View' = View /\ copies' = copies /\ astray' = astray
      BY <1>1 DEF Stores, Ghosts, View
    <3> QED  BY <3>1, <3>8, <3>9, StepCopies
  <2> QED  BY <2>3, <2>4
<1>7. CASE Stored(v, p) /\ Write(r, {p}, [v EXCEPT !.pool[p] = Deleted(@)], "mark", {})
  <2>1. v.pool[p] \in Item /\ Homes(v, p) # {}
    BY <1>3, <1>4, <1>7, ViewFields, SlotFields, HomesAre DEF Stored
  <2> QED  BY <1>6, <1>7, <2>1
<1>8. ASSUME NEW m \in Holders(v, p), Write(r, {p}, [v EXCEPT !.pool[p] = Deleted(v.people[m].has[p])], "mark", {})
      PROVE  CopyInv'
  <2>1. v.people[m].has[p] \in Item
    BY <1>3, <1>4, <1>8, ViewFields, SlotFields DEF Holders
  <2>2. Homes(v, p) # {}
    BY <1>3, <1>4, <1>8, HomesAre
  <2> QED  BY <1>6, <1>8, <2>1, <2>2
<1> QED  BY <1>5, <1>7, <1>8 DEF DeleteWrite

LEMMA DeleteMarkCopies ==
    ASSUME IInv, CopyInv, Alone, ~failed, NEW r \in Requests, DeleteMark(r) PROVE CopyInv'
<1> DEFINE q == requests[r]
           v == q.view
           p == q.item
           lost == undone \cup astray
           next == IF Holders(q.view, p) = {} THEN "commit" ELSE "detach"
           q2 == [q EXCEPT !.copied = {p}, !.at = next]
           o == Outcome(View, q)
<1>1. q.op = "delete" /\ q.at = "mark" /\ pool' = pool /\ people' = people /\ UnchangedGhosts
  BY DEF DeleteMark, At
<1>2. Busy(r)
  BY <1>1, Known
<1>3. /\ q \in Request /\ RequestSound(View, q, astray) /\ v \in ViewType /\ View \in ViewType
      /\ CopiesFit(View, q, copies, lost)
      /\ \A s \in Requests \ {r} : requests[s] = Idle
  BY <1>2, CopyKnown
<1>4. /\ InTransaction(q) /\ HalfDeleted(q) /\ q.writes = {p} /\ q.sync = {} /\ q.dirty = {} /\ p \in Products
  BY <1>1, <1>3 DEF InTransaction, HalfDeleted, Transactions, RequestSound, Phases, OneWritten, CopiesFit, Certain
<1>5. Continue(r, q2) /\ copies' = [copies EXCEPT ![p] = IF @.source = "none" THEN @ ELSE Marked(@)]
  BY DEF DeleteMark
<1>6. /\ q2.op = "delete" /\ q2.at = next /\ q2.item = p /\ q2.view = v /\ q2.writes = {p}
      /\ q2.sync = {} /\ q2.dirty = {} /\ q2.copied = {p}
  BY <1>1, <1>3, <1>4 DEF Request
<1> HIDE DEF q2
<1>7. requests'[r] = q2 /\ \A s \in Requests \ {r} : requests'[s] = Idle
  BY <1>3, <1>5, GhostTypes DEF Continue
<1>8. /\ \A x \in Products \ {p} : copies'[x] = copies[x]
      /\ copies'[p] = IF copies[p].source = "none" THEN copies[p] ELSE Marked(copies[p])
  BY <1>4, <1>5, GhostTypes
<1>9. Outcome(View, q2) = o
  BY <1>4, <1>6 DEF Outcome
<1>10. o.pool[p] = v.pool[p] /\ (\A x \in Products \ {p} : o.pool[x] = View.pool[x])
       /\ \A m \in Members : o.people[m] = View.people[m]
  BY <1>4, DocsDiffer DEF Outcome
<1> HIDE DEF o
<1>11. ASSUME NEW x \in Products \ lost, x # p PROVE CopyFits(View, q2, copies'[x], x)
  <2>1. Agrees(o, copies[x], x)
    BY <1>3, <1>4, <1>11 DEF CopiesFit, CopyFits, o
  <2>2. Alike(o, View, x)
    BY <1>10, <1>11 DEF Alike
  <2>3. Agrees(View, copies[x], x)
    BY <2>1, <2>2, AlikeAgrees
  <2> QED  BY <1>6, <1>8, <1>9, <1>11, <2>1, <2>3 DEF CopyFits
<1>12. ASSUME p \notin lost PROVE CopyFits(View, q2, copies'[p], p)
  <2> DEFINE k == copies'[p]
  <2>1. HalfMarked(q, copies[p])
    BY <1>3, <1>4, <1>12 DEF CopiesFit, CopyFits
  <2>2. v.pool[p] # Absent /\ v.pool[p].gone = TRUE /\ v.pool[p].serial = None /\ copies[p].source # "none"
    <3>1. v.pool[p] \in Slot
      BY <1>3, <1>4, ViewFields
    <3> QED  BY <2>1, <3>1, SlotFields DEF HalfMarked
  <2>3. k.source = "products" /\ k.serial = None /\ k.gone = TRUE
    <3>1. copies[p] \in Copy
      BY <1>4, GhostTypes
    <3> QED  BY <1>8, <2>2, <3>1 DEF Marked, Copy
  <2> HIDE DEF k
  <2>4. next = "detach" => HalfMarked(q2, k)
    BY <1>6, <2>2, <2>3 DEF HalfMarked
  <2>5. next = "commit" => Agrees(o, k, p)
    <3> SUFFICES ASSUME next = "commit" PROVE Agrees(o, k, p)
      OBVIOUS
    <3>1. Holders(v, p) = {}
      OBVIOUS
    <3>2. \A m \in Members : v.people[m] = View.people[m]
      BY <1>3, <1>4, DocsDiffer DEF RequestSound, SnapshotValid, Same
    <3>3. Holders(o, p) = {}
      BY <1>10, <3>1, <3>2 DEF Holders
    <3>4. p \in Homes(o, p)
      BY <1>4, <1>10, <2>2, DocsDiffer DEF Homes
    <3> QED  BY <1>10, <2>2, <2>3, <3>3, <3>4 DEF Agrees
  <2>6. next \in {"commit", "detach"} /\ (HalfDeleted(q2) <=> next = "detach")
    BY <1>6 DEF HalfDeleted
  <2>7. CopyFits(View, q2, k, p)
    BY <1>6, <1>9, <2>4, <2>5, <2>6 DEF CopyFits
  <2> QED  BY <2>7 DEF k
<1>13. CopiesFit(View, q2, copies', lost)
  BY <1>6, <1>11, <1>12 DEF CopiesFit, Certain
<1>14. View' = View /\ astray' = astray /\ undone' = undone
  BY <1>1 DEF View, UnchangedGhosts
<1> QED  BY <1>7, <1>13, <1>14, StepCopies

LEMMA DeleteDetachCopies ==
    ASSUME IInv, IInv', CopyInv, Alone, ~failed, NEW r \in Requests, DeleteDetach(r) PROVE CopyInv'
<1> DEFINE q == requests[r]
           v == q.view
           p == q.item
           lost == undone \cup astray
<1>1. q.op = "delete" /\ q.at = "detach" /\ Stores /\ Ghosts
  BY DEF DeleteDetach, At
<1>2. Busy(r)
  BY <1>1, Known
<1>3. /\ q \in Request /\ RequestSound(View, q, astray) /\ v \in ViewType /\ View \in ViewType
      /\ CopiesFit(View, q, copies, lost) /\ OneHomeEach(View, astray)
      /\ \A s \in Requests \ {r} : requests[s] = Idle
  BY <1>2, CopyKnown
<1>4. InTransaction(q) /\ HalfDeleted(q) /\ q.writes = {p} /\ q.sync = {} /\ q.dirty = {} /\ p \in Products
  BY <1>1, <1>3 DEF InTransaction, HalfDeleted, Transactions, RequestSound, Phases, OneWritten, CopiesFit, Certain
<1>5. PICK m \in Holders(v, p) : Write(r, {m}, [v EXCEPT !.people[m].has[p] = Absent], "commit", {})
  BY DEF DeleteDetach
<1> DEFINE person == [v.people[m] EXCEPT !.has[p] = Absent]
           w == [v EXCEPT !.people[m] = person]
           docs == {m}
           q2 == Wrote(q, docs, w, "commit", {})
<1>6. m \in Members /\ v.people[m] \in Person
  BY <1>3, <1>4, ViewFields DEF Holders
<1>7. person \in Person /\ \A x \in Products \ {p} : person.has[x] = v.people[m].has[x]
  BY <1>4, <1>6 DEF Person, Slot
<1>8. Write(r, docs, w, "commit", {})
  BY <1>5
<1> HIDE DEF person
<1>9. /\ w \in ViewType /\ w.pool = v.pool /\ w.people[m] = person
      /\ \A n \in Members \ {m} : w.people[n] = v.people[n]
  BY <1>3, <1>6, <1>7 DEF ViewType
<1> HIDE DEF w
<1>10. CASE Conflict(r, docs)
  <2>1. Abort(r)
    BY <1>8, <1>10 DEF Write
  <2> QED  BY <1>1, <1>2, <1>4, <2>1, AbortCopies
<1>11. CASE ~Conflict(r, docs)
  <2>1. requests'[r] = q2 /\ (\A s \in Requests \ {r} : requests'[s] = Idle) /\ undone' = undone
    BY <1>3, <1>8, <1>11, GhostTypes DEF Write, Wrote, Continue
  <2>2. /\ q2.op = q.op /\ q2.at = "commit" /\ q2.item = q.item /\ q2.view = w /\ q2.dirty = q.dirty
        /\ q2.writes = q.writes \cup docs /\ q2.sync = {} /\ q2.copied = q.copied
    BY <1>3, WroteFields, WroteCopied
  <2> HIDE DEF q2
  <2>3. View' = View /\ copies' = copies /\ astray' = astray
    BY <1>1 DEF Stores, Ghosts, View
  <2>4. q2 \in Request /\ RequestSound(View, q2, astray)
    <3>1. \A s \in Requests : requests'[s] \in Request /\ RequestSound(View, requests'[s], astray')
      BY <2>3 DEF IInv, TypeOK
    <3> QED  BY <2>1, <2>3, <3>1
  <2>5. Committed(View, q, v)
    BY <1>3, <1>4, TransactionCommits DEF RequestSound
  <2>6. Committed(View, q2, w)
    <3>1. \A d \in Docs \ docs : Same(v, w, d)
      BY <1>9 DEF Same
    <3> QED  BY <2>2, <2>5, <3>1 DEF Committed, Same
  <2>7. ~HalfDeleted(q2)
    BY <2>2 DEF HalfDeleted
  <2>8. ASSUME NEW x \in Products \ lost, x # p PROVE CopyFits(View, q2, copies[x], x)
    <3>1. Agrees(Outcome(View, q), copies[x], x) /\ (x \notin q.copied => Agrees(View, copies[x], x))
      BY <1>3, <1>4, <2>8 DEF CopiesFit, CopyFits
    <3>2. Agrees(v, copies[x], x)
      BY <2>5, <3>1, OutcomeIs, AlikeAgrees
    <3>3. Alike(v, w, x)
      BY <1>7, <1>9, <2>8 DEF Alike
    <3>4. Agrees(Outcome(View, q2), copies[x], x)
      BY <2>6, <3>2, <3>3, OutcomeIs, AlikeAgrees
    <3> QED  BY <2>2, <2>7, <3>1, <3>4 DEF CopyFits
  <2>9. ASSUME p \notin lost PROVE CopyFits(View, q2, copies[p], p)
    <3> DEFINE k == copies[p]
    <3>1. HalfMarked(q, k)
      BY <1>3, <1>4, <2>9 DEF CopiesFit, CopyFits
    <3>2. /\ v.pool[p] # Absent /\ v.pool[p].gone = TRUE /\ v.pool[p].serial = None
          /\ k.gone = TRUE /\ k.serial = None /\ k.source = "products" /\ p \in q.copied
      <4>1. v.pool[p] \in Slot /\ k \in Copy
        BY <1>3, <1>4, ViewFields, GhostTypes
      <4>2. v.pool[p].gone \in BOOLEAN /\ k.gone \in BOOLEAN
        BY <3>1, <4>1, SlotFields DEF HalfMarked, Copy
      <4> QED  BY <1>1, <3>1, <4>2 DEF HalfMarked
    <3> HIDE DEF k
    <3>3. p \in Homes(w, p)
      BY <1>4, <1>9, <3>2, DocsDiffer DEF Homes
    <3>4. \A d, e \in Homes(w, p) : d = e
      BY <1>3, <1>4, <2>2, <2>4, <2>6, <2>7, <2>9, OneInView
    <3>5. Holders(w, p) = {}
      BY <1>4, <1>9, <3>3, <3>4, HomesAre, DocsDiffer DEF Holders
    <3>6. Agrees(w, k, p)
      BY <1>9, <3>2, <3>3, <3>5 DEF Agrees
    <3>7. Agrees(Outcome(View, q2), k, p)
      BY <1>4, <2>6, <3>6, OutcomeIs, AlikeAgrees
    <3>8. CopyFits(View, q2, k, p)
      BY <2>2, <2>7, <3>2, <3>7 DEF CopyFits
    <3> QED  BY <3>8 DEF k
  <2>10. CopiesFit(View, q2, copies, lost)
    BY <1>1, <1>4, <2>2, <2>8, <2>9 DEF CopiesFit, Certain
  <2> QED  BY <2>1, <2>3, <2>10, StepCopies
<1> QED  BY <1>10, <1>11

-----------------------------------------------------------------------------
\* The copies always agree.

LEMMA InitCopies == ASSUME Init PROVE CopyInv
<1>1. PICK v \in CASE traffic = "assets"   -> {[NoView EXCEPT !.people = w] :
                                                 w \in {x \in Employed : \A m \in Members : x[m] # Nobody}}
                   [] traffic = "staff"    -> {NoView}
                   [] traffic = "together" -> Stocked :
          pool = v.pool /\ people = v.people
  BY DEF Init
<1>2. traffic \in {"assets", "staff", "together"}
  BY ConstantsAssumption DEF Init
<1>3. \A r \in Requests : ~Busy(r)
  BY DEF Init, Busy
<1>4. \A p \in Products : Unwritten(copies[p])
  BY DEF Init, Unwritten
<1> SUFFICES ASSUME Alone, NEW p \in Products PROVE Agrees(View, copies[p], p)
  BY <1>3 DEF CopyInv
<1>5. v = NoView \/ \E w \in Employed : v = [NoView EXCEPT !.people = w]
  BY <1>1, <1>2 DEF Alone
<1>6. View.pool[p] = Absent /\ \A m \in Members : View.people[m].has[p] = Absent
  <2>1. CASE v = NoView
    BY <1>1, <2>1, NoViewType, NobodyType DEF View
  <2>2. ASSUME NEW w \in Employed, v = [NoView EXCEPT !.people = w]
        PROVE  View.pool[p] = Absent /\ \A m \in Members : View.people[m].has[p] = Absent
    <3>1. View.pool = NoView.pool /\ View.people = w
      BY <1>1, <2>2, NoViewType DEF View, ViewType
    <3> QED  BY <3>1, NoViewType, EmployedType
  <2> QED  BY <1>5, <2>1, <2>2
<1>7. Homes(View, p) = {} /\ Holders(View, p) = {} /\ ~Stored(View, p)
  BY <1>6 DEF Homes, Holders, Stored
<1> QED  BY <1>4, <1>7 DEF Agrees

LEMMA NextCopies == ASSUME OverlapAssumption, IInv, IInv', CopyInv, [Next]_vars PROVE CopyInv'
<1>1. traffic' = traffic
  BY DEF Next, vars, Arrive, Fail, Step, Begin, Sync, Commit, CreateLook, CreateWrite, ImportLook, ImportWrite,
         StockLook, StockWrite, SupplyLook, SupplyWrite, EditLook, EditInPool, EditInMember, MoveItem,
         DeleteWrite, DeleteMark, DeleteDetach, JoinWrite, EnrolWrite, EnrolAttach, ReaddressWrite,
         DismissLook, DismissWrite, UnchangedGhosts, Ghosts
<1>2. failed => failed'
  BY DEF Next, vars, Arrive, Fail, Step, Begin, Sync, Commit, CreateLook, CreateWrite, ImportLook, ImportWrite,
         StockLook, StockWrite, SupplyLook, SupplyWrite, EditLook, EditInPool, EditInMember, MoveItem,
         DeleteWrite, DeleteMark, DeleteDetach, JoinWrite, EnrolWrite, EnrolAttach, ReaddressWrite,
         DismissLook, DismissWrite, UnchangedGhosts, Ghosts
<1>3. CASE ~Alone \/ failed
  BY <1>1, <1>2, <1>3 DEF CopyInv, Alone
<1>4. CASE UNCHANGED vars
  <2>1. /\ View' = View /\ requests' = requests /\ failed' = failed /\ Alone' = Alone /\ copies' = copies
        /\ undone' = undone /\ astray' = astray
    BY <1>4 DEF vars, View, Alone
  <2> QED  BY <2>1 DEF CopyInv, Quiet, Busy
<1>5. ASSUME Alone, ~failed, NEW r \in Requests, Arrive(r) PROVE CopyInv'
  BY <1>5, ArriveCopies
<1>6. ASSUME NEW r \in Requests, Fail(r) PROVE CopyInv'
  BY <1>6, FailCopies
<1>7. ASSUME Alone, ~failed, NEW r \in Requests, Step(r) PROVE CopyInv'
  <2>1. CASE Begin(r) \/ Sync(r) \/ Commit(r)
    BY <1>7, <2>1, BeginCopies, SyncCopies, CommitCopies
  <2>2. CASE CreateLook(r) \/ CreateWrite(r) \/ ImportLook(r) \/ ImportWrite(r)
    BY <1>7, <2>2, CreateLookCopies, CreateWriteCopies, ImportWriteCopies
  <2>3. CASE StockLook(r) \/ StockWrite(r) \/ SupplyLook(r) \/ SupplyWrite(r)
    BY <1>7, <2>3, StockLookCopies, StockWriteCopies, SupplyWriteCopies
  <2>4. CASE EditLook(r) \/ EditInPool(r) \/ EditInMember(r)
    BY <1>7, <2>4, EditLookCopies, EditInPoolCopies, EditInMemberCopies
  <2>5. CASE MoveItem(r)
    BY <1>7, <2>5, MoveItemCopies
  <2>6. CASE DeleteWrite(r) \/ DeleteMark(r) \/ DeleteDetach(r)
    BY <1>7, <2>6, DeleteWriteCopies, DeleteMarkCopies, DeleteDetachCopies
  <2>7. CASE JoinWrite(r) \/ EnrolWrite(r) \/ EnrolAttach(r) \/ ReaddressWrite(r)
    BY <1>7, <2>7, JoinWriteCopies, EnrolWriteCopies, EnrolAttachCopies, ReaddressWriteCopies
  <2>8. CASE DismissLook(r) \/ DismissWrite(r)
    BY <1>7, <2>8, DismissLookCopies, DismissWriteCopies
  <2> QED  BY <1>7, <2>1, <2>2, <2>3, <2>4, <2>5, <2>6, <2>7, <2>8 DEF Step
<1> QED  BY <1>3, <1>4, <1>5, <1>6, <1>7 DEF Next

\* What the invariant says when the requests have ended is what the run checks.
LEMMA CopiesSuffice == ASSUME IInv, CopyInv PROVE CopiesAgree
<1> SUFFICES ASSUME Alone, Quiet, ~failed, NEW p \in Products \ (undone \cup astray)
             PROVE  /\ Stored(View, p) =>
                          /\ copies[p].gone = pool[p].gone /\ copies[p].serial = pool[p].serial
                          /\ pool[p].email = None => copies[p].source = "products"
                          /\ copies[p].holder # None => pool[p].gone
                    /\ \A m \in Holders(View, p) :
                          /\ copies[p].gone = people[m].has[p].gone
                          /\ copies[p].serial = people[m].has[p].serial
                          /\ copies[p].holder \in {m, Invented}
                          /\ copies[p].holder = m => copies[p].source = "members"
  BY DEF CopiesAgree
<1>1. View.pool = pool /\ View.people = people
  BY ViewType_View DEF IInv
<1>2. Agrees(View, copies[p], p)
  BY DEF CopyInv
<1> QED  BY <1>1, <1>2 DEF Agrees

\* The copies agree with the collections once the requests have ended, for any number of
\* products, members and requests, when the requests come one after the other and none of
\* them failed: the copy of a product says whether it is in the pool or with a member, its
\* serial number and whether it is deleted. Exceptions are those of the property.
THEOREM CopiesAlwaysAgree == OverlapAssumption => (Spec => []CopiesAgree)
<1> SUFFICES ASSUME OverlapAssumption PROVE Spec => []CopiesAgree
  OBVIOUS
<1> DEFINE Inv == IInv /\ CopyInv
<1>1. Init => Inv
  BY InitIInv, InitCopies
<1>2. Inv /\ [Next]_vars => Inv'
  <2>1. Inv /\ [Next]_vars => IInv'
    BY NextIInv
  <2>2. Inv /\ [Next]_vars /\ IInv' => CopyInv'
    BY NextCopies
  <2> QED  BY <2>1, <2>2
<1>3. Inv => CopiesAgree
  BY CopiesSuffice
<1> HIDE DEF Inv
<1> QED  BY <1>1, <1>2, <1>3, PTL DEF Spec
=============================================================================
