-------------------------- MODULE Migrations_proofs --------------------------
(***************************************************************************)
(* What holds of the scripts for any number of people, documents, products *)
(* and runs, whatever follows on what and wherever it is interrupted.      *)
(***************************************************************************)
EXTENDS MCMigrations, TLAPS, FiniteSetTheorems

-----------------------------------------------------------------------------
\* Migration: the inductive invariant. What the script that runs has read still
\* holds, and what it has yet to do loses nobody.

Steps == {"none", "insert", "office", "clean", "others", "users", "office gone", "tenant", "user"}

ScriptFits ==
    script \in [name : {"none", "direct", "tenant", "rollback", "restore", "dedupe"}, at : Steps,
                docs : SUBSET DocIds, people : SUBSET People, main : DocIds \cup {None},
                all : SUBSET DocIds]

\* Whom the documents of D embed already has a user.
HaveUsers(D) == \A d \in D : docs[d].person \in Migrated

\* There: the documents read are still there. Those no longer on the list have been
\* inserted, and the others go only when all have been; the users of direct are in main.
Forth ==
    script.name \in {"direct", "tenant"} =>
        /\ script.at \in {"insert", "office", "clean", "others"}
        /\ script.docs \subseteq script.all /\ script.all \subseteq Stored
        /\ script.main \in script.all
        /\ script.at = "insert" => HaveUsers(script.all \ script.docs)
        /\ script.at # "insert" => HaveUsers(script.all \ {script.main})
        /\ script.at \in {"office", "clean"} => HaveUsers({script.main})
        /\ script.name = "direct" => \A p \in Migrated : users[p] = script.main

\* And back: nobody's user goes before there is a document, and no document before
\* its users.
Back ==
    /\ script.at \in {"office", "clean"} => script.name \in {"direct", "tenant"}
    /\ Is("rollback", "insert") => Migrated \subseteq script.people \cup Embedded
    /\ Is("rollback", "users") => Migrated \subseteq Embedded
    /\ Is("rollback", "office gone") \/ Is("rollback", "tenant") => Migrated = {}
    /\ Is("restore", "user") => script.people \subseteq Embedded
    /\ Is("dedupe", "others") => Migrated = {}

PeopleInv == TypeOK /\ ScriptFits /\ NobodyLost /\ UsersResolve /\ Forth /\ Back

\* The shape of one document, and who is embedded.
LEMMA DocShape ==
    ASSUME TypeOK, NEW d \in DocIds
    PROVE  /\ docs[d] \in [is : BOOLEAN, person : People \cup {None}, createdBy : BOOLEAN]
           /\ docs[d].createdBy => docs[d].person = None
           /\ ~docs[d].is => docs[d].person = None
<1>1. docs[d] \in {NoDoc, Clean} \cup {Doc(p) : p \in People}
  BY DEF TypeOK
<1>2. CASE docs[d] = NoDoc
  BY <1>2 DEF NoDoc
<1>4. CASE docs[d] = Clean
  BY <1>4 DEF Clean
<1>3. CASE \E p \in People : docs[d] = Doc(p)
  BY <1>3 DEF Doc
<1> QED  BY <1>1, <1>2, <1>3, <1>4

LEMMA EmbeddedIs == Embedded = {p \in {docs[d].person : d \in Stored} : p # None}
BY DEF Embedded, Embedding

LEMMA InitPeople == Init => PeopleInv
<1> SUFFICES ASSUME Init PROVE PeopleInv
  OBVIOUS
<1> USE DEF Init
<1>1. TypeOK
  <2>1. docs \in [DocIds -> {NoDoc, Clean} \cup {Doc(p) : p \in People}]
    OBVIOUS
  <2>2. users \in [People -> DocIds \cup {None}]
    OBVIOUS
  <2>3. runs \in 0 .. MaxRuns
    BY RunsAssumption
  <2> QED  BY <2>1, <2>2, <2>3 DEF TypeOK, Nothing
<1>2. ScriptFits
  BY DEF ScriptFits, Nothing, Steps
<1>3. NobodyLost
  <2> SUFFICES ASSUME NEW p \in People PROVE p \in Embedded
    BY DEF NobodyLost
  <2> DEFINE D == {d \in DocIds : docs[d] = Doc(p)}
  <2>1. Cardinality(D) = 1
    OBVIOUS
  <2>2. Cardinality({}) = 0
    BY FS_EmptySet
  <2>3. PICK d \in DocIds : docs[d] = Doc(p)
    BY <2>1, <2>2
  <2> QED  BY <2>3, NoneAssumption DEF Embedded, Embedding, Stored, Doc
<1>4. Migrated = {}
  BY DEF Migrated
<1>5. UsersResolve /\ Forth /\ Back
  BY <1>4 DEF UsersResolve, Forth, Back, Nothing, Is
<1> QED  BY <1>1, <1>2, <1>3, <1>5 DEF PeopleInv

-----------------------------------------------------------------------------
\* Steps that change neither a document nor a user.

LEMMA RestingPeople ==
    ASSUME PeopleInv, UNCHANGED <<docs, users, replaced>>, office' \in BOOLEAN, runs' \in 0 .. MaxRuns,
           ScriptFits', Forth', Back'
    PROVE  PeopleInv'
<1> USE DEF PeopleInv
<1>1. TypeOK'
  BY DEF TypeOK, ScriptFits
<1>2. NobodyLost' /\ UsersResolve'
  BY DEF NobodyLost, UsersResolve, Migrated, Embedded, Embedding, Stored
<1> QED  BY <1>1, <1>2

\* The sets that the invariant speaks of, where nothing changes but the script.
LEMMA RestingSets ==
    ASSUME UNCHANGED <<docs, users>>
    PROVE  /\ Stored' = Stored /\ Migrated' = Migrated /\ Embedded' = Embedded
           /\ \A D : HaveUsers(D)' <=> HaveUsers(D)
BY DEF Stored, Migrated, Embedded, Embedding, HaveUsers

LEMMA StartRuns ==
    ASSUME PeopleInv, NEW name, Start(name)
    PROVE  runs' \in 0 .. MaxRuns /\ name \in Scripts(database) /\ script = Nothing
BY RunsAssumption DEF PeopleInv, TypeOK, Start

LEMMA FinishPeople ==
    ASSUME PeopleInv, UNCHANGED <<docs, users, replaced>>, office' \in BOOLEAN, runs' \in 0 .. MaxRuns,
           Finish
    PROVE  PeopleInv'
<1>1. script' = Nothing
  BY DEF Finish, Go
<1>2. ScriptFits'
  BY <1>1 DEF ScriptFits, Nothing, Steps
<1>3. Forth' /\ Back'
  BY <1>1 DEF Forth, Back, Nothing, Is
<1> QED  BY <1>2, <1>3, RestingPeople

LEMMA InterruptPeople == PeopleInv /\ Interrupt => PeopleInv'
BY FinishPeople DEF Interrupt, PeopleInv, TypeOK

LEMMA DirectStartPeople == PeopleInv /\ DirectStart => PeopleInv'
<1> SUFFICES ASSUME PeopleInv, DirectStart PROVE PeopleInv'
  OBVIOUS
<1> USE DEF DirectStart
<1>1. PICK main \in Embedding :
          script' = [name |-> "direct", at |-> "insert", docs |-> Embedding, people |-> {},
                     main |-> main, all |-> Embedding]
  BY DEF Go
<1>2. Embedding \subseteq Stored /\ Stored \subseteq DocIds
  BY DEF Embedding, Stored
<1>3. ScriptFits'
  BY <1>1, <1>2 DEF ScriptFits, Steps
<1>4. Stored' = Stored /\ Migrated' = {}
  BY RestingSets
<1>5. Forth'
  BY <1>1, <1>2, <1>4 DEF Forth, HaveUsers
<1>6. Back'
  BY <1>1 DEF Back, Is
<1>7. office' \in BOOLEAN /\ runs' \in 0 .. MaxRuns
  BY StartRuns DEF PeopleInv, TypeOK
<1> QED  BY <1>3, <1>5, <1>6, <1>7, RestingPeople

LEMMA TenantStartPeople == PeopleInv /\ TenantStart => PeopleInv'
<1> SUFFICES ASSUME PeopleInv, TenantStart PROVE PeopleInv'
  OBVIOUS
<1> USE DEF TenantStart
<1>1. PICK main \in Stored :
          script' = [name |-> "tenant", at |-> "insert", docs |-> Stored, people |-> {},
                     main |-> main, all |-> Stored]
  BY DEF Go
<1>2. Stored \subseteq DocIds
  BY DEF Stored
<1>3. ScriptFits'
  BY <1>1, <1>2 DEF ScriptFits, Steps
<1>4. Stored' = Stored
  BY RestingSets
<1>5. Forth'
  BY <1>1, <1>4 DEF Forth, HaveUsers
<1>6. Back'
  BY <1>1 DEF Back, Is
<1>7. office' \in BOOLEAN /\ runs' \in 0 .. MaxRuns
  BY StartRuns DEF PeopleInv, TypeOK
<1> QED  BY <1>3, <1>5, <1>6, <1>7, RestingPeople

-----------------------------------------------------------------------------
\* There.

LEMMA InsertPeople == PeopleInv /\ Insert => PeopleInv'
<1> SUFFICES ASSUME PeopleInv, Insert PROVE PeopleInv'
  OBVIOUS
<1> USE DEF PeopleInv
<1>1. PICK d \in script.docs :
          IF Insertable(d)
          THEN /\ users' = [users EXCEPT ![docs[d].person] = script.main]
               /\ Go([script EXCEPT !.docs = @ \ {d}, !.at = IF script.docs = {d} THEN "office" ELSE "insert"])
          ELSE UNCHANGED users /\ Finish
  BY DEF Insert
<1> UNCHANGED <<docs, office, runs, replaced>> /\ script.name \in {"direct", "tenant"} /\ script.at = "insert"
  BY DEF Insert
<1>2. CASE ~Insertable(d)
  BY <1>1, <1>2, FinishPeople DEF TypeOK
<1>3. CASE Insertable(d)
  <2> DEFINE who == docs[d].person
  <2>1. d \in DocIds /\ d \in Stored /\ script.main \in Stored /\ script.main \in DocIds
    BY DEF Forth, ScriptFits, Stored
  <2>2. who \in People /\ users[who] = None
    BY <1>3, <2>1, DocShape DEF Insertable
  <2>3. users' = [users EXCEPT ![who] = script.main]
    BY <1>1, <1>3
  <2>4. script' = [script EXCEPT !.docs = @ \ {d}, !.at = IF script.docs = {d} THEN "office" ELSE "insert"]
    BY <1>1, <1>3 DEF Go
  <2>5. Stored' = Stored /\ Embedded' = Embedded
    BY DEF Stored, Embedded, Embedding
  <2>6. Migrated' = Migrated \cup {who}
    BY <2>1, <2>2, <2>3, NoneAssumption DEF Migrated, TypeOK
  <2>7. TypeOK'
    BY <2>1, <2>2, <2>3, <2>4 DEF TypeOK, ScriptFits
  <2>8. ScriptFits'
    BY <2>4 DEF ScriptFits, Steps
  <2>9. NobodyLost'
    BY <2>5, <2>6 DEF NobodyLost
  <2>10. UsersResolve'
    BY <2>1, <2>2, <2>3, <2>5, <2>6 DEF UsersResolve, TypeOK
  <2>11. Forth'
    <3>1. script'.docs = script.docs \ {d} /\ script'.all = script.all /\ script'.main = script.main
          /\ script'.name = script.name /\ script'.at = IF script.docs = {d} THEN "office" ELSE "insert"
      BY <2>4 DEF ScriptFits
    <3>2. script.docs \subseteq script.all /\ script.all \subseteq Stored /\ script.main \in script.all
          /\ HaveUsers(script.all \ script.docs)
      BY DEF Forth
    <3>3. \A x \in script.all \ (script.docs \ {d}) : docs'[x].person \in Migrated'
      BY <2>6, <3>2 DEF HaveUsers
    <3>4. script.name = "direct" => \A p \in Migrated' : users'[p] = script.main
      BY <2>2, <2>3, <2>6 DEF Forth, TypeOK, Migrated
    <3> QED  BY <2>5, <3>1, <3>2, <3>3, <3>4 DEF Forth, HaveUsers
  <2>12. Back'
    BY <2>4 DEF Back, Is, ScriptFits
  <2> QED  BY <2>7, <2>8, <2>9, <2>10, <2>11, <2>12
<1> QED  BY <1>2, <1>3

LEMMA OfficePeople == PeopleInv /\ Office => PeopleInv'
<1> SUFFICES ASSUME PeopleInv, Office PROVE PeopleInv'
  OBVIOUS
<1> USE DEF Office
<1>1. script' = [script EXCEPT !.at = "clean"]
  BY DEF At, Go
<1>2. script.name \in {"direct", "tenant"}
  BY DEF PeopleInv, Back
<1>3. ScriptFits'
  BY <1>1 DEF PeopleInv, ScriptFits, Steps
<1>4. Forth'
  BY <1>1, <1>2, RestingSets DEF PeopleInv, Forth, ScriptFits, HaveUsers
<1>5. Back'
  BY <1>1, <1>2 DEF Back, Is, PeopleInv, ScriptFits
<1> QED  BY <1>3, <1>4, <1>5, RestingPeople DEF PeopleInv, TypeOK

LEMMA CleanMainPeople == PeopleInv /\ CleanMain => PeopleInv'
<1> SUFFICES ASSUME PeopleInv, CleanMain PROVE PeopleInv'
  OBVIOUS
<1> USE DEF PeopleInv
<1> DEFINE main == script.main
<1>1. script.at = "clean" /\ docs' = [docs EXCEPT ![main] = Clean] /\ UNCHANGED <<users, office, runs, replaced>>
  BY DEF CleanMain
<1>2. script.name \in {"direct", "tenant"}
  BY <1>1 DEF Back
<1>3. main \in script.all /\ script.all \subseteq Stored /\ HaveUsers({main}) /\ HaveUsers(script.all \ {main})
      /\ script.docs \subseteq script.all /\ (script.name = "direct" => \A p \in Migrated : users[p] = main)
  BY <1>1, <1>2 DEF Forth
<1>4. main \in DocIds /\ main \in Stored
  BY <1>3 DEF Stored
<1>5. Stored' = Stored /\ Migrated' = Migrated
  BY <1>1, <1>4 DEF Stored, Migrated, Clean, TypeOK
<1>6. Embedded \subseteq Embedded' \cup Migrated
  <2> SUFFICES ASSUME NEW d \in Stored, docs[d].person # None, docs[d].person \notin Migrated
               PROVE  docs[d].person \in Embedded'
    BY EmbeddedIs
  <2>1. d # main
    BY <1>3 DEF HaveUsers
  <2>2. docs'[d] = docs[d]
    BY <1>1, <2>1 DEF TypeOK, Stored
  <2> QED  BY <1>5, <2>2 DEF Embedded, Embedding
<1>7. TypeOK'
  <2>1. docs' \in [DocIds -> {NoDoc, Clean} \cup {Doc(p) : p \in People}]
    BY <1>1 DEF TypeOK
  <2>2. script'.docs \subseteq DocIds /\ script'.people \subseteq People
    BY DEF CleanMain, At, Finish, Go, Nothing, ScriptFits
  <2> QED  BY <1>1, <2>1, <2>2 DEF TypeOK
<1>8. NobodyLost'
  BY <1>1, <1>5, <1>6 DEF NobodyLost
<1>9. UsersResolve'
  BY <1>1, <1>5 DEF UsersResolve
<1>10. CASE script.name = "direct" /\ script.all # {main}
  <2>1. script' = [script EXCEPT !.at = "others"]
    BY <1>10 DEF CleanMain, At, Go
  <2>2. ScriptFits'
    BY <2>1 DEF ScriptFits, Steps
  <2>3. \A x \in script.all \ {main} : docs'[x].person \in Migrated'
    BY <1>1, <1>3, <1>5 DEF HaveUsers, TypeOK, Stored
  <2>4. Forth'
    <3>1. script'.name = "direct" /\ script'.at = "others" /\ script'.docs = script.docs
          /\ script'.all = script.all /\ script'.main = main
      BY <1>10, <2>1 DEF ScriptFits
    <3>2. HaveUsers(script.all \ {script.main})'
      BY <2>3, <3>1 DEF HaveUsers
    <3>3. script.all \subseteq Stored' /\ \A p \in Migrated' : users'[p] = main
      BY <1>1, <1>3, <1>5, <1>10
    <3> QED  BY <1>3, <3>1, <3>2, <3>3 DEF Forth
  <2>5. Back'
    BY <1>10, <2>1 DEF Back, Is, ScriptFits
  <2> QED  BY <1>7, <1>8, <1>9, <2>2, <2>4, <2>5
<1>11. CASE ~(script.name = "direct" /\ script.all # {main})
  <2>1. script' = Nothing
    BY <1>11 DEF CleanMain, Finish, Go
  <2>2. ScriptFits'
    BY <2>1 DEF ScriptFits, Steps, Nothing
  <2>3. Forth' /\ Back'
    BY <2>1 DEF Forth, Back, Is, Nothing
  <2> QED  BY <1>7, <1>8, <1>9, <2>2, <2>3
<1> QED  BY <1>10, <1>11

\* Who is embedded where documents go: those in no document that goes stay.
LEMMA WithoutKeeps ==
    ASSUME TypeOK, NEW D, docs' = Without(D)
    PROVE  /\ Stored' = Stored \ D
           /\ \A d \in Stored \ D : docs'[d] = docs[d]
           /\ \A p \in Embedded : p \in Embedded' \/ \E d \in D \cap Stored : docs[d].person = p
           /\ docs' \in [DocIds -> {NoDoc, Clean} \cup {Doc(p) : p \in People}]
<1>1. \A d \in DocIds : docs'[d] = IF d \in D THEN NoDoc ELSE docs[d]
  BY DEF Without
<1>2. Stored' = Stored \ D
  BY <1>1 DEF Stored, NoDoc
<1>3. \A d \in Stored \ D : docs'[d] = docs[d]
  BY <1>1 DEF Stored
<1>4. \A p \in Embedded : p \in Embedded' \/ \E d \in D \cap Stored : docs[d].person = p
  BY <1>2, <1>3 DEF Embedded, Embedding
<1>5. docs' \in [DocIds -> {NoDoc, Clean} \cup {Doc(p) : p \in People}]
  BY DEF Without, TypeOK
<1> QED  BY <1>2, <1>3, <1>4, <1>5

LEMMA DeleteOthersPeople == PeopleInv /\ DeleteOthers => PeopleInv'
<1> SUFFICES ASSUME PeopleInv, DeleteOthers PROVE PeopleInv'
  OBVIOUS
<1> USE DEF PeopleInv
<1> DEFINE D == script.all \ {script.main}
<1>1. docs' = Without(D) /\ script' = Nothing /\ UNCHANGED <<users, office, runs, replaced>>
  BY DEF DeleteOthers, Others, Finish, Go
<1>2. script.name = "direct" /\ script.at = "others"
  BY DEF DeleteOthers, Is
<1>3. HaveUsers(D) /\ (\A p \in Migrated : users[p] = script.main) /\ script.main \in Stored
  BY <1>2 DEF Forth
<1>4. Stored' = Stored \ D /\ docs' \in [DocIds -> {NoDoc, Clean} \cup {Doc(p) : p \in People}]
  BY <1>1, WithoutKeeps
<1>5. \A p \in Embedded : p \in Embedded' \/ \E d \in D \cap Stored : docs[d].person = p
  BY <1>1, WithoutKeeps
<1>6. Migrated' = Migrated
  BY <1>1 DEF Migrated
<1>7. TypeOK' /\ ScriptFits'
  BY <1>1, <1>4 DEF TypeOK, ScriptFits, Steps, Nothing
<1>8. NobodyLost'
  BY <1>1, <1>3, <1>5, <1>6 DEF NobodyLost, HaveUsers
<1>9. UsersResolve'
  BY <1>1, <1>3, <1>4, <1>6 DEF UsersResolve
<1>10. Forth' /\ Back'
  BY <1>1 DEF Forth, Back, Is, Nothing
<1> QED  BY <1>7, <1>8, <1>9, <1>10

-----------------------------------------------------------------------------
\* And back.

LEMMA RollbackStartPeople == PeopleInv /\ RollbackStart => PeopleInv'
<1> SUFFICES ASSUME PeopleInv, RollbackStart PROVE PeopleInv'
  OBVIOUS
<1> USE DEF RollbackStart
<1>1. script' = [Nothing EXCEPT !.name = "rollback", !.at = "insert", !.people = Migrated]
  BY DEF Go
<1>2. Migrated' = Migrated /\ Migrated \subseteq People
  BY DEF Migrated
<1>3. ScriptFits'
  BY <1>1, <1>2 DEF ScriptFits, Steps, Nothing
<1>4. Forth' /\ Back'
  BY <1>1, <1>2 DEF Forth, Back, Is, Nothing
<1>5. office' \in BOOLEAN /\ runs' \in 0 .. MaxRuns
  BY StartRuns DEF PeopleInv, TypeOK
<1> QED  BY <1>3, <1>4, <1>5, RestingPeople

\* A document for p in place of none: those embedded stay so, and p is.
LEMMA NewDocument ==
    ASSUME TypeOK, NEW d \in DocIds \ Stored, NEW p \in People, docs' = [docs EXCEPT ![d] = Doc(p)]
    PROVE  /\ Stored' = Stored \cup {d}
           /\ Embedded' = Embedded \cup {p}
           /\ docs' \in [DocIds -> {NoDoc, Clean} \cup {Doc(q) : q \in People}]
<1>1. docs'[d] = Doc(p) /\ \A x \in DocIds \ {d} : docs'[x] = docs[x]
  BY DEF TypeOK
<1>2. Stored' = Stored \cup {d}
  BY <1>1 DEF Stored, Doc
<1>3. p # None
  BY NoneAssumption
<1>4. Embedding' = Embedding \cup {d}
  BY <1>1, <1>2, <1>3 DEF Embedding, Doc, Stored
<1>5. Embedded' = Embedded \cup {p}
  <2>1. docs'[d].person = p /\ d \notin Embedding /\ \A x \in Embedding : docs'[x].person = docs[x].person
    BY <1>1 DEF Doc, Embedding, Stored
  <2> QED  BY <1>4, <2>1 DEF Embedded
<1>6. docs' \in [DocIds -> {NoDoc, Clean} \cup {Doc(q) : q \in People}]
  BY DEF TypeOK
<1> QED  BY <1>2, <1>5, <1>6

LEMMA RollbackInsertPeople == PeopleInv /\ RollbackInsert => PeopleInv'
<1> SUFFICES ASSUME PeopleInv, RollbackInsert PROVE PeopleInv'
  OBVIOUS
<1> USE DEF PeopleInv
<1>1. PICK p \in script.people, d \in DocIds \ Stored :
          /\ docs' = [docs EXCEPT ![d] = Doc(p)]
          /\ script' = [script EXCEPT !.people = @ \ {p}, !.at = IF script.people = {p} THEN "users" ELSE "insert"]
  BY DEF RollbackInsert, Go
<1>2. Is("rollback", "insert") /\ UNCHANGED <<users, office, runs, replaced>>
  BY DEF RollbackInsert
<1>3. p \in People
  BY DEF ScriptFits
<1>4. Stored' = Stored \cup {d} /\ Embedded' = Embedded \cup {p}
      /\ docs' \in [DocIds -> {NoDoc, Clean} \cup {Doc(q) : q \in People}]
  BY <1>1, <1>3, NewDocument
<1>5. Migrated' = Migrated
  BY <1>2 DEF Migrated
<1>6. script' \in [name : {"rollback"}, at : {"users", "insert"}, docs : SUBSET DocIds, people : SUBSET People,
                   main : DocIds \cup {None}, all : SUBSET DocIds]
      /\ script'.people = script.people \ {p}
      /\ (script'.at = "users" <=> script.people = {p})
  BY <1>1, <1>2 DEF ScriptFits, Is
<1>7. TypeOK' /\ ScriptFits'
  BY <1>2, <1>4, <1>6 DEF TypeOK, ScriptFits, Steps
<1>8. NobodyLost' /\ UsersResolve'
  BY <1>2, <1>4, <1>5 DEF NobodyLost, UsersResolve
<1>9. Forth'
  BY <1>6 DEF Forth
<1>10. Migrated \subseteq script.people \cup Embedded
  BY <1>2 DEF Back
<1>11. Back'
  BY <1>4, <1>5, <1>6, <1>10 DEF Back, Is
<1> QED  BY <1>7, <1>8, <1>9, <1>11

LEMMA RollbackUsersPeople == PeopleInv /\ RollbackUsers => PeopleInv'
<1> SUFFICES ASSUME PeopleInv, RollbackUsers PROVE PeopleInv'
  OBVIOUS
<1> USE DEF PeopleInv
<1>1. users' = [p \in People |-> None] /\ script' = [script EXCEPT !.at = "office gone"]
      /\ UNCHANGED <<docs, office, runs, replaced>> /\ Is("rollback", "users")
  BY DEF RollbackUsers, At, Go
<1>2. Migrated' = {} /\ Embedded' = Embedded /\ Migrated \subseteq Embedded
  BY <1>1 DEF Migrated, Embedded, Embedding, Stored, Back
<1>3. TypeOK' /\ ScriptFits'
  BY <1>1 DEF TypeOK, ScriptFits, Steps
<1>4. NobodyLost' /\ UsersResolve'
  BY <1>1, <1>2 DEF NobodyLost, UsersResolve
<1>5. script'.name = "rollback" /\ script'.at = "office gone"
  BY <1>1 DEF Is, ScriptFits
<1>6. Forth' /\ Back'
  BY <1>2, <1>5 DEF Forth, Back, Is
<1> QED  BY <1>3, <1>4, <1>6

LEMMA RollbackOfficePeople == PeopleInv /\ RollbackOffice => PeopleInv'
<1> SUFFICES ASSUME PeopleInv, RollbackOffice PROVE PeopleInv'
  OBVIOUS
<1> USE DEF RollbackOffice
<1>1. script' = [script EXCEPT !.at = "tenant"] /\ Is("rollback", "office gone")
  BY DEF At, Go
<1>2. Migrated' = {}
  BY <1>1, RestingSets DEF PeopleInv, Back
<1>3. ScriptFits'
  BY <1>1 DEF PeopleInv, ScriptFits, Steps
<1>4. script'.name = "rollback" /\ script'.at = "tenant"
  BY <1>1 DEF Is, PeopleInv, ScriptFits
<1>5. Forth' /\ Back'
  BY <1>2, <1>4 DEF Forth, Back, Is
<1> QED  BY <1>3, <1>5, RestingPeople DEF PeopleInv, TypeOK

LEMMA RollbackTenantPeople == PeopleInv /\ RollbackTenant => PeopleInv'
<1> SUFFICES ASSUME PeopleInv, RollbackTenant PROVE PeopleInv'
  OBVIOUS
<1> USE DEF PeopleInv
<1>1. script' = Nothing /\ UNCHANGED <<users, office, runs, replaced>> /\ Migrated = {}
  BY DEF RollbackTenant, Finish, Go, Back
<1>2. CASE UNCHANGED docs
  BY <1>1, <1>2, FinishPeople DEF TypeOK, Finish, Go
<1>3. CASE \E d \in Stored : docs[d].createdBy /\ docs' = Without({d})
  <2>1. PICK d \in Stored : docs[d].createdBy /\ docs' = Without({d})
    BY <1>3
  <2>2. docs[d].person = None
    BY <2>1, DocShape DEF Stored
  <2>3. docs' \in [DocIds -> {NoDoc, Clean} \cup {Doc(p) : p \in People}]
    BY <2>1, WithoutKeeps
  <2>4. \A p \in Embedded : p \in Embedded' \/ docs[d].person = p
    BY <2>1, WithoutKeeps
  <2>5. Embedded \subseteq Embedded'
    BY <2>2, <2>4, EmbeddedIs
  <2>6. Migrated' = {}
    BY <1>1 DEF Migrated
  <2>7. TypeOK' /\ ScriptFits'
    BY <1>1, <2>3 DEF TypeOK, ScriptFits, Steps, Nothing
  <2>8. NobodyLost' /\ UsersResolve'
    BY <1>1, <2>5, <2>6 DEF NobodyLost, UsersResolve
  <2>9. Forth' /\ Back'
    BY <1>1 DEF Forth, Back, Is, Nothing
  <2> QED  BY <2>7, <2>8, <2>9
<1> QED  BY <1>2, <1>3 DEF RollbackTenant

LEMMA RestorePeople == PeopleInv /\ Restore => PeopleInv'
<1> SUFFICES ASSUME PeopleInv, Restore PROVE PeopleInv'
  OBVIOUS
<1> USE DEF PeopleInv
<1>1. PICK d \in Stored, p \in Migrated :
          /\ docs' = [docs EXCEPT ![d] = Doc(p)]
          /\ replaced' = replaced \cup ({docs[d].person} \ {None, p})
          /\ script' = [Nothing EXCEPT !.name = "restore", !.at = "user", !.people = {p}]
  BY DEF Restore, Go
<1>2. runs' \in 0 .. MaxRuns /\ UNCHANGED <<users, office>>
  BY StartRuns DEF Restore
<1>3. d \in DocIds /\ p \in People /\ p # None /\ docs[d].person \in People \cup {None}
  BY NoneAssumption, DocShape DEF Stored, Migrated
<1>4. docs'[d] = Doc(p) /\ \A x \in DocIds \ {d} : docs'[x] = docs[x]
  BY <1>1, <1>3 DEF TypeOK
<1>5. Stored' = Stored /\ Migrated' = Migrated
  BY <1>2, <1>4 DEF Stored, Migrated, Doc
<1>6. p \in Embedded'
  BY <1>3, <1>4, <1>5 DEF Embedded, Embedding, Doc
<1>7. \A x \in Embedded : x \in Embedded' \/ x = docs[d].person
  BY <1>4, <1>5 DEF Embedded, Embedding, Stored
<1>8. TypeOK'
  <2>1. docs' \in [DocIds -> {NoDoc, Clean} \cup {Doc(q) : q \in People}]
    BY <1>1, <1>3 DEF TypeOK
  <2>2. replaced' \subseteq People
    BY <1>1, <1>3 DEF TypeOK
  <2>3. script'.docs = {} /\ script'.people = {p}
    BY <1>1 DEF Nothing
  <2> QED  BY <1>2, <1>3, <2>1, <2>2, <2>3 DEF TypeOK
<1>9. ScriptFits'
  BY <1>1, <1>3 DEF ScriptFits, Steps, Nothing
<1>10. NobodyLost'
  <2> SUFFICES ASSUME NEW x \in People PROVE x \in Migrated' \cup Embedded' \cup replaced'
    BY DEF NobodyLost
  <2>1. x \in Migrated \cup Embedded \cup replaced
    BY DEF NobodyLost
  <2>2. x # None
    BY NoneAssumption
  <2> QED  BY <1>1, <1>5, <1>6, <1>7, <2>1, <2>2
<1>11. UsersResolve'
  BY <1>2, <1>5 DEF UsersResolve
<1>12. script'.name = "restore" /\ script'.at = "user" /\ script'.people = {p}
  BY <1>1 DEF Nothing
<1>13. Forth' /\ Back'
  BY <1>6, <1>12 DEF Forth, Back, Is
<1> QED  BY <1>8, <1>9, <1>10, <1>11, <1>13

LEMMA RestoreUserPeople == PeopleInv /\ RestoreUser => PeopleInv'
<1> SUFFICES ASSUME PeopleInv, RestoreUser PROVE PeopleInv'
  OBVIOUS
<1> USE DEF PeopleInv
<1>1. users' = [p \in People |-> IF p \in script.people THEN None ELSE users[p]]
      /\ script' = [script EXCEPT !.at = "office gone"]
      /\ UNCHANGED <<docs, office, runs, replaced>> /\ Is("restore", "user")
  BY DEF RestoreUser, At, Go
<1>2. Migrated' = Migrated \ script.people /\ \A p \in Migrated' : users'[p] = users[p]
  BY <1>1 DEF Migrated
<1>3. Embedded' = Embedded /\ Stored' = Stored /\ script.people \subseteq Embedded
  BY <1>1 DEF Embedded, Embedding, Stored, Back
<1>4. TypeOK' /\ ScriptFits'
  BY <1>1 DEF TypeOK, ScriptFits, Steps
<1>5. NobodyLost' /\ UsersResolve'
  <2>1. Migrated \subseteq Migrated' \cup Embedded' /\ replaced' = replaced
    BY <1>1, <1>2, <1>3
  <2>2. NobodyLost'
    BY <1>3, <2>1 DEF NobodyLost
  <2>3. \A p \in Migrated' : users'[p] \in Stored'
    BY <1>2, <1>3 DEF UsersResolve
  <2> QED  BY <2>2, <2>3 DEF UsersResolve
<1>6. script'.name = "restore" /\ script'.at = "office gone"
  BY <1>1 DEF Is, ScriptFits
<1>7. Forth' /\ Back'
  BY <1>6 DEF Forth, Back, Is
<1> QED  BY <1>4, <1>5, <1>7

\* The end of restore and of dedupe.
LEMMA OfficeGonePeople == PeopleInv /\ (RestoreOffice \/ DedupeOffice) => PeopleInv'
BY FinishPeople DEF RestoreOffice, DedupeOffice, PeopleInv, TypeOK

LEMMA DedupeStartPeople == PeopleInv /\ DedupeStart => PeopleInv'
<1> SUFFICES ASSUME PeopleInv, DedupeStart PROVE PeopleInv'
  OBVIOUS
<1> USE DEF DedupeStart
<1>1. PICK main \in Stored :
          script' = [Nothing EXCEPT !.name = "dedupe", !.at = "users", !.main = main, !.all = Stored]
  BY DEF Go
<1>2. ScriptFits'
  BY <1>1 DEF ScriptFits, Steps, Nothing, Stored
<1>3. Forth' /\ Back'
  BY <1>1 DEF Forth, Back, Is, Nothing
<1>4. office' \in BOOLEAN /\ runs' \in 0 .. MaxRuns
  BY StartRuns DEF PeopleInv, TypeOK
<1> QED  BY <1>2, <1>3, <1>4, RestingPeople

LEMMA DedupeUsersPeople == PeopleInv /\ DedupeUsers => PeopleInv'
<1> SUFFICES ASSUME PeopleInv, DedupeUsers PROVE PeopleInv'
  OBVIOUS
<1> USE DEF PeopleInv
<1>1. users' = [p \in People |-> None] /\ replaced' = replaced \cup Migrated
      /\ script' = [script EXCEPT !.at = "others"]
      /\ UNCHANGED <<docs, office, runs>> /\ Is("dedupe", "users")
  BY DEF DedupeUsers, At, Go
<1>2. Migrated' = {} /\ Embedded' = Embedded /\ Migrated \subseteq People
  BY <1>1 DEF Migrated, Embedded, Embedding, Stored
<1>3. TypeOK' /\ ScriptFits'
  BY <1>1, <1>2 DEF TypeOK, ScriptFits, Steps
<1>4. NobodyLost' /\ UsersResolve'
  BY <1>1, <1>2 DEF NobodyLost, UsersResolve
<1>5. script'.name = "dedupe" /\ script'.at = "others"
  BY <1>1 DEF Is, ScriptFits
<1>6. Forth' /\ Back'
  BY <1>2, <1>5 DEF Forth, Back, Is
<1> QED  BY <1>3, <1>4, <1>6

LEMMA DedupeOthersPeople == PeopleInv /\ DedupeOthers => PeopleInv'
<1> SUFFICES ASSUME PeopleInv, DedupeOthers PROVE PeopleInv'
  OBVIOUS
<1> USE DEF PeopleInv
<1> DEFINE D == script.all \ {script.main}
<1>1. docs' = Without(D) /\ replaced' = replaced \cup ({docs[d].person : d \in D} \ {None})
      /\ script' = [script EXCEPT !.at = "office gone"]
      /\ UNCHANGED <<users, office, runs>> /\ Is("dedupe", "others")
  BY DEF DedupeOthers, At, Go
<1>2. docs' \in [DocIds -> {NoDoc, Clean} \cup {Doc(p) : p \in People}]
  BY <1>1, WithoutKeeps
<1>3. \A p \in Embedded : p \in Embedded' \/ \E d \in D \cap Stored : docs[d].person = p
  BY <1>1, WithoutKeeps
<1>4. Migrated = {} /\ Migrated' = {}
  BY <1>1 DEF Migrated, Back
<1>5. replaced' \subseteq People
  <2>1. \A d \in D : docs[d].person \in People \cup {None}
    BY DocShape DEF ScriptFits
  <2> QED  BY <1>1, <2>1 DEF TypeOK
<1>6. TypeOK' /\ ScriptFits'
  BY <1>1, <1>2, <1>5 DEF TypeOK, ScriptFits, Steps
<1>7. NobodyLost' /\ UsersResolve'
  BY <1>1, <1>3, <1>4, NoneAssumption DEF NobodyLost, UsersResolve
<1>8. script'.name = "dedupe" /\ script'.at = "office gone"
  BY <1>1 DEF Is, ScriptFits
<1>9. Forth' /\ Back'
  BY <1>8 DEF Forth, Back, Is
<1> QED  BY <1>6, <1>7, <1>9

LEMMA NextPeople == PeopleInv /\ [Next]_migrationState => PeopleInv'
<1>1. PeopleInv /\ UNCHANGED migrationState => PeopleInv'
  <2> SUFFICES ASSUME PeopleInv, UNCHANGED migrationState PROVE PeopleInv'
    OBVIOUS
  <2> USE DEF migrationState, PeopleInv
  <2>1. ScriptFits'
    BY DEF ScriptFits
  <2>2. Forth' /\ Back'
    BY RestingSets DEF Forth, Back, Is
  <2> QED  BY <2>1, <2>2, RestingPeople DEF TypeOK
<1> QED
  BY <1>1, DirectStartPeople, TenantStartPeople, InsertPeople, OfficePeople, CleanMainPeople, DeleteOthersPeople,
     RollbackStartPeople, RollbackInsertPeople, RollbackUsersPeople, RollbackOfficePeople, RollbackTenantPeople,
     RestorePeople, RestoreUserPeople, OfficeGonePeople, DedupeStartPeople, DedupeUsersPeople, DedupeOthersPeople,
     InterruptPeople DEF Next

\* No migration and no rollback loses a person, or leaves a user without its tenant: with
\* any number of people and documents, and whichever scripts run and are interrupted,
\* migrate-direct, migrate-tenant, rollback-direct, rollback-migration and
\* cleanup-duplicates keep everybody, save whom the last two put out of the way.
THEOREM PeopleAlwaysKept == PartSpec => []PeopleKept
<1>1. PartInit => PeopleInv
  BY InitPeople DEF PartInit
<1>2. PeopleInv /\ [UsersStep \/ ProductsStep \/ FieldsStep]_all => PeopleInv'
  <2>1. [UsersStep \/ ProductsStep \/ FieldsStep]_all => [Next]_migrationState
    BY DEF UsersStep, ProductsStep, FieldsStep, all, migrationState
  <2> QED  BY <2>1, NextPeople
<1>3. PeopleInv => PeopleKept
  BY DEF PeopleInv, PeopleKept
<1> QED  BY <1>1, <1>2, <1>3, PTL DEF PartSpec

-----------------------------------------------------------------------------
\* Corrections: what a stage has gone through is corrected, and what the stages before
\* it went through is.

Run == [script : {None, "countries", "ends", "condition"},
        stage : {None, "own", "copy", "ends", "pool", "members", "copies"}, todo : SUBSET Items]

EndsFit(i) == (\E e \in Correct!Ends : ends[i][e] = "name") => \E e \in Correct!Ends : ends[i][e] = "odd"

StageNamed ==
    /\ corrector.stage \in {"own", "copy"} => corrector.script = "countries"
    /\ corrector.stage = "ends" => corrector.script = "ends"
    /\ corrector.stage \in {"pool", "members", "copies"} => corrector.script = "condition"

Through == Items \ corrector.todo

CountriesThrough ==
    /\ corrector.stage = "own" => \A i \in Through : country[i]["own"] # "name"
    /\ corrector.stage = "copy" => /\ \A i \in Items : country[i]["own"] # "name"
                                  /\ \A i \in Through : country[i]["copy"] # "name"
EndsThrough == corrector.stage = "ends" => \A i \in Through : EndsFit(i)
ConditionThrough ==
    /\ corrector.stage = "pool" => \A i \in Through : held[i] \/ condition[i]["own"] # None
    /\ corrector.stage = "members" => /\ \A i \in Items : held[i] \/ condition[i]["own"] # None
                                     /\ \A i \in Through : condition[i]["own"] # None
    /\ corrector.stage = "copies" => /\ \A i \in Items : condition[i]["own"] # None
                                    /\ \A i \in Through : condition[i]["copy"] # None

RunFits ==
    /\ corrector \in Run /\ StageNamed /\ corrected \subseteq {"countries", "ends", "condition"}
    /\ held \in [Items -> BOOLEAN]

CountriesInv == /\ country \in [Items -> [Correct!Where -> Correct!Forms]]
                /\ Correct!CountriesCoded /\ CountriesThrough
EndsInv      == /\ ends \in [Items -> [Correct!Ends -> Correct!Forms]]
                /\ Correct!EndsCoded /\ EndsThrough
ConditionInv == /\ condition \in [Items -> [Correct!Where -> Correct!Conditions]]
                /\ Correct!ConditionsFilled /\ ConditionThrough

FieldsInv == RunFits /\ CountriesInv /\ EndsInv /\ ConditionInv

LEMMA InitFields == Correct!Init => FieldsInv
<1> SUFFICES ASSUME Correct!Init PROVE FieldsInv
  OBVIOUS
<1> USE DEF Correct!Init, Correct!Idle
<1>1. RunFits
  BY WordsAssumption DEF RunFits, Run, StageNamed
<1>2. CountriesInv
  BY WordsAssumption DEF CountriesInv, Correct!CountriesCoded, CountriesThrough
<1>3. EndsInv
  BY WordsAssumption DEF EndsInv, Correct!EndsCoded, EndsThrough, Correct!Forms, Correct!Ends
<1>4. ConditionInv
  BY WordsAssumption DEF ConditionInv, Correct!ConditionsFilled, ConditionThrough
<1> QED  BY <1>1, <1>2, <1>3, <1>4 DEF FieldsInv

\* Where no script runs nothing is promised of its stage.
LEMMA IdleFields ==
    ASSUME RunFits, corrector' = Correct!Idle, UNCHANGED <<corrected, held>>
    PROVE  RunFits' /\ CountriesThrough' /\ EndsThrough' /\ ConditionThrough'
BY WordsAssumption DEF RunFits, Run, StageNamed, CountriesThrough, EndsThrough, ConditionThrough, Correct!Idle

LEMMA RestingFields ==
    /\ UNCHANGED country /\ corrected' = corrected => (Correct!CountriesCoded <=> Correct!CountriesCoded')
    /\ UNCHANGED ends /\ corrected' = corrected => (Correct!EndsCoded <=> Correct!EndsCoded')
    /\ UNCHANGED condition /\ corrected' = corrected => (Correct!ConditionsFilled <=> Correct!ConditionsFilled')
BY DEF Correct!CountriesCoded, Correct!EndsCoded, Correct!ConditionsFilled

LEMMA BeginFields ==
    ASSUME FieldsInv, NEW name, NEW stage, Correct!Begin(name, stage),
           <<name, stage>> \in {<<"countries", "own">>, <<"ends", "ends">>, <<"condition", "pool">>}
    PROVE  FieldsInv'
<1> USE DEF FieldsInv
<1>1. corrector' = [script |-> name, stage |-> stage, todo |-> Items]
      /\ UNCHANGED <<country, ends, condition, held, corrected>>
  BY DEF Correct!Begin
<1>2. name \in {"countries", "ends", "condition"} /\ stage \in {"own", "ends", "pool"}
      /\ (stage = "own" => name = "countries") /\ (stage = "ends" => name = "ends")
      /\ (stage = "pool" => name = "condition")
  OBVIOUS
<1>3. corrector'.script = name /\ corrector'.stage = stage /\ corrector'.todo = Items /\ corrector' \in Run
  BY <1>1, <1>2 DEF Run
<1>4. Through' = {}
  BY <1>3 DEF Through
<1>5. RunFits'
  BY <1>1, <1>2, <1>3 DEF RunFits, StageNamed
<1>6. CountriesThrough' /\ EndsThrough' /\ ConditionThrough'
  BY <1>2, <1>3, <1>4 DEF CountriesThrough, EndsThrough, ConditionThrough
<1> QED  BY <1>1, <1>5, <1>6, RestingFields DEF CountriesInv, EndsInv, ConditionInv

\* One item is gone through: the rest of the stage is left, or the next stage, or none.
LEMMA GoStages ==
    ASSUME RunFits, NEW i \in corrector.todo, NEW next \in {None, "copy", "members", "copies"}, Correct!Go(i, next),
           corrector.script # None
    PROVE  /\ corrector' \in Run /\ corrected \subseteq corrected' /\ corrected' \subseteq corrected \cup {corrector.script}
           /\ corrected' \subseteq {"countries", "ends", "condition"}
           /\ \/ /\ corrector'.stage = corrector.stage /\ corrector'.script = corrector.script
                 /\ Through' = Through \cup {i} /\ corrected' = corrected
              \/ /\ next = None /\ corrector'.stage = None /\ Items = Through \cup {i}
              \/ /\ corrector'.stage = next /\ next # None /\ corrector'.script = corrector.script
                 /\ Items = Through \cup {i} /\ Through' = {} /\ corrected' = corrected
<1>1. i \in Items /\ corrector \in Run /\ corrected \subseteq {"countries", "ends", "condition"}
  BY DEF RunFits, Run
<1>2. CASE corrector.todo # {i}
  <2>1. corrector' = [corrector EXCEPT !.todo = @ \ {i}] /\ corrected' = corrected
    BY <1>2 DEF Correct!Go
  <2> QED  BY <1>1, <2>1 DEF Run, Through
<1>3. CASE corrector.todo = {i} /\ next = None
  <2>1. corrector' = Correct!Idle /\ corrected' = corrected \cup {corrector.script}
    BY <1>3 DEF Correct!Go
  <2>2. corrector.script \in {"countries", "ends", "condition"}
    BY <1>1 DEF Run
  <2> QED  BY <1>1, <1>3, <2>1, <2>2 DEF Run, Through, Correct!Idle
<1>4. CASE corrector.todo = {i} /\ next # None
  <2>1. corrector' = [corrector EXCEPT !.stage = next, !.todo = Items] /\ corrected' = corrected
    BY <1>4 DEF Correct!Go
  <2> QED  BY <1>1, <1>4, <2>1 DEF Run, Through
<1> QED  BY <1>2, <1>3, <1>4

LEMMA CountryFields ==
    ASSUME FieldsInv, NEW i \in Items, NEW w \in Correct!Where, Correct!CountryOne(i, w)
    PROVE  FieldsInv'
<1> USE WordsAssumption DEF FieldsInv
<1> DEFINE next == Correct!AfterMembers(w)
<1>1. /\ corrector.stage = w /\ i \in corrector.todo /\ w \in {"own", "copy"}
      /\ country' = [country EXCEPT ![i][w] = Correct!Coded(@)] /\ UNCHANGED <<ends, condition, held>>
      /\ Correct!Go(i, next)
  BY DEF Correct!CountryOne, Correct!At, Correct!Where
<1>2. corrector.script = "countries"
  BY <1>1 DEF RunFits, StageNamed
<1>3. next = IF w = "own" THEN "copy" ELSE None
  BY DEF Correct!AfterMembers
<1>4. /\ corrector' \in Run /\ corrected \subseteq corrected' /\ corrected' \subseteq corrected \cup {"countries"}
      /\ corrected' \subseteq {"countries", "ends", "condition"}
      /\ \/ /\ corrector'.stage = w /\ corrector'.script = "countries"
            /\ Through' = Through \cup {i} /\ corrected' = corrected
         \/ /\ w = "copy" /\ corrector'.stage = None /\ Items = Through \cup {i}
         \/ /\ corrector'.stage = "copy" /\ w = "own" /\ corrector'.script = "countries"
            /\ Items = Through \cup {i} /\ Through' = {} /\ corrected' = corrected
  BY <1>1, <1>2, <1>3, GoStages
<1>5. RunFits'
  BY <1>1, <1>4 DEF RunFits, StageNamed
<1>6. country' \in [Items -> [Correct!Where -> Correct!Forms]]
  BY <1>1 DEF CountriesInv, Correct!Coded, Correct!Forms, Correct!Where
<1>7. /\ \A x \in Items, v \in Correct!Where : country[x][v] # "name" => country'[x][v] # "name"
      /\ country'[i][w] # "name"
  BY <1>1 DEF CountriesInv, Correct!Coded, Correct!Where
<1>8. CountriesThrough'
  BY <1>1, <1>4, <1>7 DEF CountriesThrough, CountriesInv, Correct!Where
<1>9. Correct!CountriesCoded'
  BY <1>1, <1>4, <1>7 DEF Correct!CountriesCoded, CountriesThrough, CountriesInv, Correct!Where
<1>10. EndsInv' /\ ConditionInv'
  BY <1>1, <1>4 DEF EndsInv, ConditionInv, Correct!EndsCoded, Correct!ConditionsFilled, EndsThrough, ConditionThrough
<1> QED  BY <1>5, <1>6, <1>8, <1>9, <1>10 DEF CountriesInv

LEMMA EndsFields ==
    ASSUME FieldsInv, NEW i \in Items, Correct!EndsOne(i)
    PROVE  FieldsInv'
<1> USE WordsAssumption DEF FieldsInv
<1>1. /\ corrector.stage = "ends" /\ i \in corrector.todo /\ Correct!Go(i, None)
      /\ ends' = IF \E e \in Correct!Ends : ends[i][e] = "odd" THEN ends
                 ELSE [ends EXCEPT ![i] = [e \in Correct!Ends |-> Correct!Coded(@[e])]]
      /\ UNCHANGED <<country, condition, held>>
  BY DEF Correct!EndsOne, Correct!At
<1>2. corrector.script = "ends"
  BY <1>1 DEF RunFits, StageNamed
<1>3. /\ corrector' \in Run /\ corrected \subseteq corrected' /\ corrected' \subseteq corrected \cup {"ends"}
      /\ corrected' \subseteq {"countries", "ends", "condition"}
      /\ \/ /\ corrector'.stage = "ends" /\ corrector'.script = "ends"
            /\ Through' = Through \cup {i} /\ corrected' = corrected
         \/ corrector'.stage = None /\ Items = Through \cup {i}
  BY <1>1, <1>2, GoStages
<1>4. RunFits'
  BY <1>1, <1>3 DEF RunFits, StageNamed
<1>5. ends' \in [Items -> [Correct!Ends -> Correct!Forms]]
  BY <1>1 DEF EndsInv, Correct!Coded, Correct!Forms
<1>6. EndsFit(i)' /\ \A x \in Items : EndsFit(x) => EndsFit(x)'
  <2>1. EndsFit(i)'
    BY <1>1 DEF EndsInv, EndsFit, Correct!Coded
  <2>2. \A x \in Items \ {i} : ends'[x] = ends[x]
    BY <1>1 DEF EndsInv
  <2> QED  BY <2>1, <2>2 DEF EndsFit
<1>7. EndsThrough'
  BY <1>1, <1>3, <1>6 DEF EndsThrough, EndsInv, Through
<1>8. Correct!EndsCoded'
  BY <1>1, <1>3, <1>6 DEF Correct!EndsCoded, EndsThrough, EndsInv, EndsFit
<1>9. CountriesInv' /\ ConditionInv'
  BY <1>1, <1>3 DEF CountriesInv, ConditionInv, Correct!CountriesCoded, Correct!ConditionsFilled, CountriesThrough,
                    ConditionThrough
<1> QED  BY <1>4, <1>5, <1>7, <1>8, <1>9 DEF EndsInv

LEMMA ConditionOneFields ==
    ASSUME FieldsInv, NEW i \in Items, NEW stage \in {"pool", "members"}, Correct!ConditionOne(i, stage)
    PROVE  FieldsInv'
<1> USE WordsAssumption DEF FieldsInv
<1> DEFINE next == IF stage = "pool" THEN "members" ELSE "copies"
<1>1. /\ corrector.stage = stage /\ i \in corrector.todo /\ Correct!Go(i, next)
      /\ condition' = IF held[i] = (stage = "members")
                      THEN [condition EXCEPT ![i]["own"] = Correct!Filled(@)] ELSE condition
      /\ UNCHANGED <<country, ends, held>>
  BY DEF Correct!ConditionOne, Correct!At
<1>2. corrector.script = "condition"
  BY <1>1 DEF RunFits, StageNamed
<1>3. /\ corrector' \in Run /\ corrected' \subseteq {"countries", "ends", "condition"}
      /\ corrected' = corrected
      /\ \/ /\ corrector'.stage = stage /\ corrector'.script = "condition"
            /\ Through' = Through \cup {i}
         \/ /\ corrector'.stage = next /\ corrector'.script = "condition"
            /\ Items = Through \cup {i} /\ Through' = {}
  BY <1>1, <1>2, GoStages
<1>4. RunFits'
  BY <1>1, <1>3 DEF RunFits, StageNamed
<1>5. condition' \in [Items -> [Correct!Where -> Correct!Conditions]]
  BY <1>1 DEF ConditionInv, Correct!Filled, Correct!Conditions
<1>6. \A x \in Items, w \in Correct!Where : condition[x][w] # None => condition'[x][w] # None
  BY <1>1 DEF ConditionInv, Correct!Filled, Correct!Where
<1>7. /\ stage = "pool" => held'[i] \/ condition'[i]["own"] # None
      /\ stage = "members" /\ held[i] => condition'[i]["own"] # None
  BY <1>1 DEF ConditionInv, RunFits, Correct!Filled, Correct!Where
<1>8. ConditionThrough'
  <2>1. "own" \in Correct!Where /\ "copy" \in Correct!Where /\ Through \subseteq Items /\ Through' \subseteq Items
    BY DEF Correct!Where, Through
  <2>2. CASE stage = "pool"
    BY <1>1, <1>3, <1>6, <1>7, <2>1, <2>2 DEF ConditionThrough, ConditionInv
  <2>3. CASE stage = "members"
    BY <1>1, <1>3, <1>6, <1>7, <2>1, <2>3 DEF ConditionThrough, ConditionInv
  <2> QED  BY <2>2, <2>3
<1>9. Correct!ConditionsFilled'
  BY <1>3, <1>6 DEF Correct!ConditionsFilled, ConditionInv
<1>10. CountriesInv' /\ EndsInv'
  BY <1>1, <1>3 DEF CountriesInv, EndsInv, Correct!CountriesCoded, Correct!EndsCoded, CountriesThrough,
                    EndsThrough
<1> QED  BY <1>4, <1>5, <1>8, <1>9, <1>10 DEF ConditionInv

LEMMA ConditionCopyFields ==
    ASSUME FieldsInv, NEW i \in Items, Correct!ConditionCopy(i)
    PROVE  FieldsInv'
<1> USE WordsAssumption DEF FieldsInv
<1>1. /\ corrector.stage = "copies" /\ i \in corrector.todo /\ Correct!Go(i, None)
      /\ condition' = IF condition[i]["copy"] # None THEN condition
                      ELSE [condition EXCEPT ![i]["copy"] = IF held[i] THEN "Optimal" ELSE condition[i]["own"]]
      /\ UNCHANGED <<country, ends, held>>
  BY DEF Correct!ConditionCopy, Correct!At
<1>2. corrector.script = "condition"
  BY <1>1 DEF RunFits, StageNamed
<1>3. /\ corrector' \in Run /\ corrected \subseteq corrected' /\ corrected' \subseteq corrected \cup {"condition"}
      /\ corrected' \subseteq {"countries", "ends", "condition"}
      /\ \/ /\ corrector'.stage = "copies" /\ corrector'.script = "condition"
            /\ Through' = Through \cup {i} /\ corrected' = corrected
         \/ corrector'.stage = None /\ Items = Through \cup {i}
  BY <1>1, <1>2, GoStages
<1>4. RunFits'
  BY <1>1, <1>3 DEF RunFits, StageNamed
<1>5. /\ \A x \in Items : condition[x]["own"] # None
      /\ \A x \in Through : condition[x]["copy"] # None
  BY <1>1 DEF ConditionInv, ConditionThrough
<1>6. "own" \in Correct!Where /\ "copy" \in Correct!Where /\ Through \subseteq Items /\ Through' \subseteq Items
  BY DEF Correct!Where, Through
<1>7. condition' \in [Items -> [Correct!Where -> Correct!Conditions]]
  BY <1>1, <1>6 DEF ConditionInv, Correct!Conditions
<1>8. /\ \A x \in Items, w \in Correct!Where : condition[x][w] # None => condition'[x][w] # None
      /\ condition'[i]["copy"] # None
  BY <1>1, <1>5, <1>6 DEF ConditionInv
<1>9. ConditionThrough'
  BY <1>3, <1>5, <1>6, <1>8 DEF ConditionThrough
<1>10. Correct!ConditionsFilled'
  BY <1>3, <1>5, <1>8 DEF Correct!ConditionsFilled, ConditionInv, Correct!Where
<1>11. CountriesInv' /\ EndsInv'
  BY <1>1, <1>3 DEF CountriesInv, EndsInv, Correct!CountriesCoded, Correct!EndsCoded, CountriesThrough,
                    EndsThrough
<1> QED  BY <1>4, <1>7, <1>9, <1>10, <1>11 DEF ConditionInv

\* What the application writes is written as it is now.
LEMMA EditFields ==
    ASSUME FieldsInv, NEW i \in Items,
           Correct!EditCountry(i) \/ \E c \in Correct!Conditions : Correct!EditProduct(i, c)
    PROVE  FieldsInv'
<1> USE WordsAssumption DEF FieldsInv
<1>1. CASE Correct!EditCountry(i)
  <2>1. corrector' = Correct!Idle /\ country' = [country EXCEPT ![i] = [w \in Correct!Where |-> "code"]]
        /\ UNCHANGED <<ends, condition, held, corrected>>
    BY <1>1 DEF Correct!EditCountry
  <2>2. RunFits' /\ CountriesThrough' /\ EndsThrough' /\ ConditionThrough'
    BY <2>1, IdleFields
  <2>3. country' \in [Items -> [Correct!Where -> Correct!Forms]]
    BY <2>1 DEF CountriesInv, Correct!Forms
  <2>4. Correct!CountriesCoded'
    BY <2>1 DEF CountriesInv, Correct!CountriesCoded
  <2> QED  BY <2>1, <2>2, <2>3, <2>4, RestingFields DEF CountriesInv, EndsInv, ConditionInv
<1>2. ASSUME NEW c \in Correct!Conditions, Correct!EditProduct(i, c) PROVE FieldsInv'
  <2>1. corrector = Correct!Idle /\ corrector' = Correct!Idle /\ c # None
        /\ condition' = [condition EXCEPT ![i] = [w \in Correct!Where |-> c]] /\ held' = [held EXCEPT ![i] = ~@]
        /\ UNCHANGED <<country, ends, corrected>>
    BY <1>2 DEF Correct!EditProduct
  <2>2. CountriesThrough' /\ EndsThrough' /\ ConditionThrough' /\ RunFits'
    BY <2>1 DEF RunFits, Run, StageNamed, CountriesThrough, EndsThrough, ConditionThrough, Correct!Idle
  <2>3. condition' \in [Items -> [Correct!Where -> Correct!Conditions]]
    BY <2>1 DEF ConditionInv
  <2>4. Correct!ConditionsFilled'
    BY <2>1 DEF ConditionInv, Correct!ConditionsFilled
  <2> QED  BY <2>1, <2>2, <2>3, <2>4, RestingFields DEF CountriesInv, EndsInv, ConditionInv
<1> QED  BY <1>1, <1>2

LEMMA InterruptFields == FieldsInv /\ Correct!Interrupt => FieldsInv'
<1> SUFFICES ASSUME FieldsInv, Correct!Interrupt PROVE FieldsInv'
  OBVIOUS
<1>1. corrector' = Correct!Idle /\ UNCHANGED <<country, ends, condition, held, corrected>>
  BY DEF Correct!Interrupt
<1>2. RunFits' /\ CountriesThrough' /\ EndsThrough' /\ ConditionThrough'
  BY <1>1, IdleFields DEF FieldsInv
<1> QED  BY <1>1, <1>2, RestingFields DEF FieldsInv, CountriesInv, EndsInv, ConditionInv

LEMMA NextFields == FieldsInv /\ [Correct!Next]_correctVars => FieldsInv'
<1> SUFFICES ASSUME FieldsInv, [Correct!Next]_correctVars PROVE FieldsInv'
  OBVIOUS
<1>1. CASE Correct!CountriesStart \/ Correct!EndsStart \/ Correct!ConditionStart
  BY <1>1, BeginFields DEF Correct!CountriesStart, Correct!EndsStart, Correct!ConditionStart
<1>2. CASE Correct!Interrupt
  BY <1>2, InterruptFields
<1>3. ASSUME NEW i \in Items,
             \/ Correct!EditCountry(i) \/ Correct!EndsOne(i) \/ Correct!ConditionCopy(i)
             \/ \E c \in Correct!Conditions : Correct!EditProduct(i, c)
             \/ \E w \in Correct!Where : Correct!CountryOne(i, w)
             \/ \E stage \in {"pool", "members"} : Correct!ConditionOne(i, stage)
      PROVE  FieldsInv'
  BY <1>3, EditFields, EndsFields, ConditionCopyFields, CountryFields, ConditionOneFields
<1>4. CASE UNCHANGED correctVars
  BY <1>4 DEF correctVars, FieldsInv, RunFits, Run, StageNamed, CountriesInv, EndsInv, ConditionInv, CountriesThrough,
              EndsThrough, ConditionThrough, Through, EndsFit, Correct!CountriesCoded, Correct!EndsCoded,
              Correct!ConditionsFilled
<1> QED  BY <1>1, <1>2, <1>3, <1>4 DEF Correct!Next

\* What a script for single fields has gone through to the end is corrected, with any number
\* of members, shipments and products: fix-member-country-codes in members and in the copies,
\* fix-shipment-country-codes at both ends, fix-product-condition in products and copies,
\* wherever earlier runs were interrupted and whatever the application wrote in between.
THEOREM CorrectionsEnd == PartSpec => []CorrectionsComplete
<1>1. PartInit => FieldsInv
  BY InitFields DEF PartInit
<1>2. FieldsInv /\ [UsersStep \/ ProductsStep \/ FieldsStep]_all => FieldsInv'
  <2>1. [UsersStep \/ ProductsStep \/ FieldsStep]_all => [Correct!Next]_correctVars
    BY DEF UsersStep, ProductsStep, FieldsStep, all
  <2> QED  BY <2>1, NextFields
<1>3. FieldsInv => CorrectionsComplete
  <2> SUFFICES ASSUME FieldsInv PROVE CorrectionsComplete
    OBVIOUS
  <2>1. Correct!TypeOK
    BY DEF FieldsInv, RunFits, Run, CountriesInv, ConditionInv, Correct!TypeOK
  <2> QED  BY <2>1 DEF FieldsInv, CountriesInv, EndsInv, ConditionInv, CorrectionsComplete, Correct!CorrectionsComplete
<1> QED  BY <1>1, <1>2, <1>3, PTL DEF PartSpec

-----------------------------------------------------------------------------
\* Backfill: the application does not move products while phase 3 copies those of the pool
\* as it read them, nor while fix-tenantid-types removes texts that it read before.
QuietAssumption == Serving \cap {"phase3", "types"} = {}

\* What a script has promised once it ran to its end.
Promise(name) ==
    /\ name \in {"phase1", "warehouses"} => \A p \in Products : ~Fill!Bare(products[p])
    /\ name = "warehouses" => \A p \in Products : ~Fill!Broken(p)
    /\ name = "phase2" => \A p \in Products : Fill!Source(products[p].at) = "members" => "id" \in Fill!Copies(p)
    /\ name = "phase3" => \A p \in Products : Fill!Source(products[p].at) = "products" => "id" \in Fill!Copies(p)
    /\ name = "types" => \A p \in Products : Fill!Texts(p) = {}

\* A copy with the tenant's id says where the product is. A copy without the id does so
\* as long as there is none with it.
TrueOf(p) ==
    IF "id" \in Fill!Copies(p) THEN copies[p]["id"].at = products[p].at
    ELSE \A k \in Fill!Copies(p) : copies[p][k].at = products[p].at

DataFits ==
    /\ products \in [Products -> Fill!Product]
    /\ copies \in [Products -> [Fill!Kinds -> Fill!Product \cup {Fill!NoCopy}]]
    /\ copied \subseteq Products /\ \A p \in copied : Fill!Copies(p) # {}
    /\ \A p \in Products : TrueOf(p)

\* The stages of the scripts.
Promisers(stage) ==
    CASE stage = "store"  -> {"phase1", "warehouses"}
      [] stage = "repair" -> {"warehouses"}
      [] stage = "copy"   -> {"phase2", "phase3"}
      [] stage = "types"  -> {"types"}
      [] OTHER            -> {}

FillerFits ==
    /\ DOMAIN filler = {"name", "stage", "todo", "read", "found"}
    /\ filler.todo \subseteq Products
    /\ filler.name \in Promisers(filler.stage) \/ (Promisers(filler.stage) = {} /\ filler.name \notin Fill!Promising)

\* What a stage has gone through is as it promises, and what it read is still so.
Passed == Products \ filler.todo

ShelvesPassed ==
    /\ filler.stage = "store" => \A p \in Passed : ~Fill!Bare(products[p])
    /\ filler.stage = "repair" => /\ \A p \in Products : ~Fill!Bare(products[p])
                                 /\ \A p \in Passed : ~Fill!Broken(p)
\* A member's product that has moved on since phase 2 read it has its copy from the move.
CopiesPassed ==
    filler.stage = "copy" =>
        /\ filler.name = "phase3" => filler.read = products
        /\ filler.name = "phase2" => /\ filler.read \in [Products -> Fill!Product]
                                     /\ \A p \in filler.todo : /\ filler.read[p].at = "member"
                                                               /\ products[p].at = "member" \/ "id" \in Fill!Copies(p)
        /\ \A p \in Passed : Fill!Source(products[p].at) = (IF filler.name = "phase2" THEN "members" ELSE "products")
                              => "id" \in Fill!Copies(p)
\* What findOne said is still so when the copy is written.
Looked(f) == f.of \in Products /\ f.kind \in {"text", "name"} /\ (f.goes <=> ~Fill!Free(f.of))

TypesPassed ==
    filler.stage = "types" =>
        /\ filler.read \in [Products -> SUBSET {"text", "name"}]
        /\ \A p \in Passed : Fill!Texts(p) = {}
        /\ \A p \in filler.todo : Fill!Texts(p) \subseteq filler.read[p]
        /\ filler.found # None => Looked(filler.found)

\* Of what is to be dropped the copy with the id is kept, or was not there.
DropsRead ==
    filler.stage = "keep" =>
        /\ filler.read \in [Products -> SUBSET Fill!Kinds]
        /\ \A p \in filler.todo : filler.found = None \/ filler.found.of # p => filler.read[p] \subseteq Fill!Copies(p)
        /\ filler.found # None => /\ filler.found.of \in Products
                                 /\ "id" \in Fill!Copies(filler.found.of)
                                 /\ "id" \notin Fill!Dropped(filler.read[filler.found.of], filler.found.kept)

ProductsInv ==
    /\ DataFits /\ \A name \in done : Promise(name)
    /\ FillerFits /\ ShelvesPassed /\ CopiesPassed /\ TypesPassed /\ DropsRead

LEMMA InitProducts == Fill!Init => ProductsInv
<1> SUFFICES ASSUME Fill!Init PROVE ProductsInv
  OBVIOUS
<1> USE WordsAssumption DEF Fill!Init
<1>1. products \in [Products -> Fill!Product]
  OBVIOUS
<1>2. ASSUME NEW place \in Fill!Places PROVE [Fill!NoCopy EXCEPT !.at = place] \in Fill!Product
  BY DEF Fill!NoCopy, Fill!Product, Fill!Refs
<1>3. copies \in [Products -> [Fill!Kinds -> Fill!Product \cup {Fill!NoCopy}]]
  <2>1. {[Fill!NoCopy EXCEPT !.at = place] : place \in Fill!Places} \subseteq Fill!Product
    BY <1>2
  <2> QED  BY <2>1
<1>4. copied \subseteq Products /\ \A p \in copied : Fill!Copies(p) # {}
  OBVIOUS
<1>5. \A p \in Products : TrueOf(p)
  BY DEF TrueOf
<1>6. FillerFits
  BY WordsAssumption DEF FillerFits, Fill!Idle, Promisers, Fill!Promising
<1>7. ShelvesPassed /\ CopiesPassed /\ TypesPassed /\ DropsRead
  BY DEF ShelvesPassed, CopiesPassed, TypesPassed, DropsRead, Fill!Idle
<1> QED  BY <1>1, <1>3, <1>4, <1>5, <1>6, <1>7 DEF ProductsInv, DataFits

\* What every step but clean keeps: copies with the id, no new texts, no new gaps.
ShelfKept(p) == (Fill!Bare(products[p])' => Fill!Bare(products[p])) /\ (Fill!Broken(p)' => Fill!Broken(p))
KindsKept(p) ==
    /\ "id" \in Fill!Copies(p) => "id" \in Fill!Copies(p)'
    /\ Fill!Texts(p)' \subseteq Fill!Texts(p)
Stayed(p) == Fill!Source(products[p].at)' = Fill!Source(products[p].at) \/ "id" \in Fill!Copies(p)'

Keeps == DataFits' /\ \A p \in Products : ShelfKept(p) /\ KindsKept(p) /\ Stayed(p)

LEMMA KeepsPromises ==
    ASSUME Keeps, NEW name, Promise(name)
    PROVE  Promise(name)'
BY DEF Keeps, Promise, ShelfKept, KindsKept, Stayed

\* A copy is none, or says where it is.
LEMMA CopyShape ==
    ASSUME DataFits, NEW p \in Products, NEW k \in Fill!Kinds
    PROVE  /\ copies[p][k] \in Fill!Product \cup {Fill!NoCopy}
           /\ k \in Fill!Copies(p) <=> copies[p][k].at \in Fill!Places
           /\ k \in Fill!Copies(p) <=> copies[p][k] # Fill!NoCopy
           /\ k \in Fill!Copies(p) <=> copies[p][k] \in Fill!Product
<1>1. copies[p][k] \in Fill!Product \cup {Fill!NoCopy}
  BY DEF DataFits
<1>2. Fill!NoCopy.at = None /\ \A c \in Fill!Product : c.at \in Fill!Places
  BY DEF Fill!NoCopy, Fill!Product
<1>3. None \notin Fill!Places
  BY WordsAssumption DEF Fill!Places
<1>4. Fill!NoCopy \notin Fill!Product
  BY <1>2, <1>3
<1>5. k \in Fill!Copies(p) <=> copies[p][k] # Fill!NoCopy
  BY DEF Fill!Copies
<1> QED  BY <1>1, <1>2, <1>3, <1>4, <1>5

\* Where no product changes its place and every copy says the same place, or none.
LEMMA RelabelKeeps ==
    ASSUME DataFits, products' \in [Products -> Fill!Product],
           copies' \in [Products -> [Fill!Kinds -> Fill!Product \cup {Fill!NoCopy}]], copied' = copied,
           \A p \in Products : products'[p].at = products[p].at /\ ShelfKept(p),
           \A p \in Products, k \in Fill!Kinds : copies'[p][k].at = copies[p][k].at
    PROVE  Keeps /\ \A p \in Products : Fill!Copies(p)' = Fill!Copies(p)
<1>1. \A c \in Fill!Product \cup {Fill!NoCopy} : c # Fill!NoCopy <=> c.at # None
  BY WordsAssumption DEF Fill!NoCopy, Fill!Product, Fill!Places
<1>2. ASSUME NEW p \in Products PROVE Fill!Copies(p)' = Fill!Copies(p)
  <2>1. ASSUME NEW k \in Fill!Kinds PROVE copies'[p][k] # Fill!NoCopy <=> copies[p][k] # Fill!NoCopy
    <3>1. copies'[p][k] \in Fill!Product \cup {Fill!NoCopy} /\ copies[p][k] \in Fill!Product \cup {Fill!NoCopy}
      BY DEF DataFits
    <3> QED  BY <1>1, <3>1
  <2> QED  BY <2>1 DEF Fill!Copies
<1>3. \A p \in Products : TrueOf(p)'
  BY <1>2 DEF TrueOf, DataFits, Fill!Copies, Fill!Kinds
<1>4. \A p \in Products : KindsKept(p) /\ Stayed(p)
  BY <1>2 DEF KindsKept, Stayed, Fill!Texts
<1> QED  BY <1>2, <1>3, <1>4 DEF Keeps, DataFits

\* p gets a copy with the id that says where it is.
LEMMA PutKeeps ==
    ASSUME DataFits, NEW p \in Products, NEW c \in Fill!Product, Fill!Put(p, "id", c),
           products' \in [Products -> Fill!Product], c.at = products'[p].at,
           \A x \in Products \ {p} : products'[x] = products[x], ShelfKept(p)
    PROVE  Keeps /\ "id" \in Fill!Copies(p)' /\ \A x \in Products : Fill!Copies(x) \subseteq Fill!Copies(x)'
<1>1. copies' = [copies EXCEPT ![p]["id"] = c] /\ copied' = copied \cup {p}
  BY DEF Fill!Put
<1>2. copies' \in [Products -> [Fill!Kinds -> Fill!Product \cup {Fill!NoCopy}]]
  BY <1>1 DEF DataFits
<1>3. c # Fill!NoCopy
  BY WordsAssumption DEF Fill!NoCopy, Fill!Product, Fill!Places
<1>4. Fill!Copies(p)' = Fill!Copies(p) \cup {"id"} /\ copies'[p]["id"] = c
  BY <1>1, <1>3 DEF Fill!Copies, DataFits, Fill!Kinds
<1>5. \A x \in Products \ {p} : copies'[x] = copies[x] /\ Fill!Copies(x)' = Fill!Copies(x)
  BY <1>1 DEF DataFits, Fill!Copies
<1>6. \A x \in Products : TrueOf(x)'
  BY <1>4, <1>5 DEF TrueOf, DataFits
<1>7. DataFits'
  BY <1>1, <1>2, <1>4, <1>5, <1>6 DEF DataFits
<1>8. \A x \in Products : ShelfKept(x) /\ KindsKept(x) /\ Stayed(x)
  BY <1>4, <1>5 DEF ShelfKept, KindsKept, Stayed, Fill!Texts, Fill!Broken
<1> QED  BY <1>4, <1>5, <1>7, <1>8 DEF Keeps

\* The copy of kind k gets the id, where none has it.
LEMMA ConvertKeeps ==
    ASSUME DataFits, NEW p \in Products, NEW k \in {"text", "name"}, Fill!Free(p), copies' = Fill!Converted(p, k),
           UNCHANGED <<products, copied>>
    PROVE  /\ Keeps
           /\ Fill!Copies(p)' = IF k \in Fill!Copies(p) THEN (Fill!Copies(p) \ {k}) \cup {"id"} ELSE Fill!Copies(p)
           /\ \A x \in Products \ {p} : Fill!Copies(x)' = Fill!Copies(x)
<1>1. copies' = [copies EXCEPT ![p]["id"] = copies[p][k], ![p][k] = Fill!NoCopy]
  BY DEF Fill!Converted
<1>2. k \in Fill!Kinds /\ "id" \in Fill!Kinds /\ k # "id"
  BY DEF Fill!Kinds
<1>3. copies'[p]["id"] = copies[p][k] /\ copies'[p][k] = Fill!NoCopy
      /\ \A j \in Fill!Kinds \ {"id", k} : copies'[p][j] = copies[p][j]
  BY <1>1, <1>2 DEF DataFits
<1>4. copies' \in [Products -> [Fill!Kinds -> Fill!Product \cup {Fill!NoCopy}]]
  BY <1>1, <1>2 DEF DataFits
<1>5. Fill!Copies(p)' = IF k \in Fill!Copies(p) THEN (Fill!Copies(p) \ {k}) \cup {"id"} ELSE Fill!Copies(p)
  BY <1>2, <1>3 DEF Fill!Copies, Fill!Free
<1>6. \A x \in Products \ {p} : copies'[x] = copies[x] /\ Fill!Copies(x)' = Fill!Copies(x)
  BY <1>1 DEF DataFits, Fill!Copies
<1>7. TrueOf(p)'
  <2>1. \A j \in Fill!Copies(p) : copies[p][j].at = products[p].at
    BY DEF DataFits, TrueOf, Fill!Free
  <2>2. CASE k \in Fill!Copies(p)
    BY <1>3, <1>5, <2>1, <2>2 DEF TrueOf
  <2>3. CASE k \notin Fill!Copies(p)
    <3>1. "id" \notin Fill!Copies(p)'
      BY <1>5, <2>3 DEF Fill!Free
    <3>2. \A j \in Fill!Copies(p)' : copies'[p][j] = copies[p][j]
      BY <1>3, <1>5, <2>3 DEF Fill!Copies, Fill!Free
    <3> QED  BY <1>5, <2>1, <2>3, <3>1, <3>2 DEF TrueOf
  <2> QED  BY <2>2, <2>3
<1>8. \A x \in Products : TrueOf(x)'
  BY <1>6, <1>7 DEF TrueOf, DataFits
<1>9. DataFits'
  BY <1>4, <1>5, <1>6, <1>8 DEF DataFits
<1>10. \A x \in Products : ShelfKept(x) /\ KindsKept(x) /\ Stayed(x)
  BY <1>5, <1>6 DEF ShelfKept, KindsKept, Stayed, Fill!Texts, Fill!Broken
<1> QED  BY <1>5, <1>6, <1>9, <1>10 DEF Keeps

\* Copies of p go, but not the one with the id.
LEMMA DropKeeps ==
    ASSUME DataFits, NEW p \in Products, NEW K, "id" \notin K, "id" \in Fill!Copies(p),
           copies' = [copies EXCEPT ![p] = [k \in Fill!Kinds |-> IF k \in K THEN Fill!NoCopy ELSE @[k]]],
           UNCHANGED <<products, copied>>
    PROVE  /\ Keeps /\ Fill!Copies(p)' = Fill!Copies(p) \ K
           /\ \A x \in Products \ {p} : Fill!Copies(x)' = Fill!Copies(x)
<1>1. \A k \in Fill!Kinds : copies'[p][k] = IF k \in K THEN Fill!NoCopy ELSE copies[p][k]
  BY DEF DataFits
<1>2. copies' \in [Products -> [Fill!Kinds -> Fill!Product \cup {Fill!NoCopy}]]
  BY DEF DataFits
<1>3. Fill!Copies(p)' = Fill!Copies(p) \ K
  BY <1>1 DEF Fill!Copies
<1>4. \A x \in Products \ {p} : copies'[x] = copies[x] /\ Fill!Copies(x)' = Fill!Copies(x)
  BY DEF DataFits, Fill!Copies
<1>5. \A x \in Products : TrueOf(x)'
  BY <1>1, <1>3, <1>4 DEF TrueOf, DataFits, Fill!Kinds
<1>6. DataFits'
  BY <1>2, <1>3, <1>4, <1>5 DEF DataFits
<1>7. \A x \in Products : ShelfKept(x) /\ KindsKept(x) /\ Stayed(x)
  BY <1>3, <1>4 DEF ShelfKept, KindsKept, Stayed, Fill!Texts, Fill!Broken
<1> QED  BY <1>3, <1>4, <1>6, <1>7 DEF Keeps

LEMMA RestKeeps ==
    ASSUME DataFits, UNCHANGED <<products, copies, copied>>
    PROVE  Keeps /\ \A p \in Products : Fill!Copies(p)' = Fill!Copies(p)
<1>1. \A p \in Products : ShelfKept(p)
  BY DEF ShelfKept, Fill!Broken
<1>2. /\ products' \in [Products -> Fill!Product] /\ copied' = copied
      /\ copies' \in [Products -> [Fill!Kinds -> Fill!Product \cup {Fill!NoCopy}]]
  BY DEF DataFits
<1> QED  BY <1>1, <1>2, RelabelKeeps

\* Where no script runs.
LEMMA IdleProducts ==
    ASSUME ProductsInv, Keeps, filler' = Fill!Idle, \A name \in done' \ done : Promise(name)'
    PROVE  ProductsInv'
<1>1. FillerFits'
  BY WordsAssumption DEF FillerFits, Fill!Idle, Promisers, Fill!Promising
<1>2. ShelvesPassed' /\ CopiesPassed' /\ TypesPassed' /\ DropsRead'
  BY WordsAssumption DEF ShelvesPassed, CopiesPassed, TypesPassed, DropsRead, Fill!Idle
<1>3. \A name \in done' : Promise(name)'
  BY KeepsPromises DEF ProductsInv
<1> QED  BY <1>1, <1>2, <1>3 DEF ProductsInv, Keeps

Went(p) == filler' = [filler EXCEPT !.todo = @ \ {p}, !.found = None]

LEMMA WentFits ==
    ASSUME FillerFits, NEW p, Went(p)
    PROVE  /\ filler'.name = filler.name /\ filler'.stage = filler.stage /\ filler'.read = filler.read
           /\ filler'.found = None /\ filler'.todo = filler.todo \ {p}
           /\ Passed' \subseteq Passed \cup {p} /\ FillerFits'
BY DEF FillerFits, Went, Passed, Promisers

\* A script goes on with its list, or ends and has kept its promise.
LEMMA LastProducts ==
    ASSUME ProductsInv, Keeps, NEW p \in Products, Fill!Last(p),
           Went(p) => ShelvesPassed' /\ CopiesPassed' /\ TypesPassed' /\ DropsRead',
           \A name \in Promisers(filler.stage) : filler.todo = {p} /\ name = filler.name => Promise(name)'
    PROVE  ProductsInv'
<1>1. CASE filler.todo = {p}
  <2>1. filler' = Fill!Idle /\ done' = done \cup ({filler.name} \cap Fill!Promising)
    BY <1>1 DEF Fill!Last, Fill!End
  <2>2. filler.name \in Fill!Promising => filler.name \in Promisers(filler.stage)
    BY DEF ProductsInv, FillerFits
  <2>3. \A name \in done' \ done : Promise(name)'
    BY <1>1, <2>1, <2>2
  <2> QED  BY <2>1, <2>3, IdleProducts
<1>2. CASE filler.todo # {p}
  <2>1. Went(p) /\ done' = done
    BY <1>2 DEF Fill!Last, Fill!Goes, Went
  <2>2. FillerFits'
    BY <2>1, WentFits DEF ProductsInv
  <2>3. \A name \in done' : Promise(name)'
    BY <2>1, KeepsPromises DEF ProductsInv
  <2> QED  BY <2>1, <2>2, <2>3 DEF ProductsInv, Keeps
<1> QED  BY <1>1, <1>2

\* One stage follows another, over every product.
LEMMA NextStageProducts ==
    ASSUME ProductsInv, Keeps, NEW p \in Products, NEW stage \in {"repair", "label"}, Fill!ThenStage(p, stage),
           filler.name \in Promisers(stage) \/ (Promisers(stage) = {} /\ filler.name \notin Fill!Promising),
           Went(p) => ShelvesPassed' /\ CopiesPassed' /\ TypesPassed' /\ DropsRead',
           filler.todo = {p} /\ stage = "repair" => \A x \in Products : ~Fill!Bare(products[x])'
    PROVE  ProductsInv'
<1>1. \A name \in done : Promise(name)'
  BY KeepsPromises DEF ProductsInv
<1>2. CASE filler.todo # {p}
  <2>1. Went(p) /\ done' = done
    BY <1>2 DEF Fill!ThenStage, Fill!Goes, Went
  <2>2. FillerFits'
    BY <2>1, WentFits DEF ProductsInv
  <2> QED  BY <1>1, <2>1, <2>2 DEF ProductsInv, Keeps
<1>3. CASE filler.todo = {p}
  <2>1. filler' = [filler EXCEPT !.stage = stage, !.todo = Products] /\ done' = done
    BY <1>3 DEF Fill!ThenStage
  <2>2. filler'.stage = stage /\ filler'.todo = Products /\ filler'.name = filler.name
        /\ DOMAIN filler' = {"name", "stage", "todo", "read", "found"}
    BY <2>1 DEF ProductsInv, FillerFits
  <2>3. FillerFits'
    BY <2>2 DEF FillerFits, Promisers
  <2>4. ShelvesPassed' /\ CopiesPassed' /\ TypesPassed' /\ DropsRead'
    BY <1>3, <2>2 DEF ShelvesPassed, CopiesPassed, TypesPassed, DropsRead, Passed
  <2> QED  BY <1>1, <2>1, <2>3, <2>4 DEF ProductsInv, Keeps
<1> QED  BY <1>2, <1>3

-----------------------------------------------------------------------------
\* The starts, and the application.

LEMMA BeginProducts ==
    ASSUME ProductsInv, NEW name, NEW stage, NEW todo \in SUBSET Products, NEW read, Fill!Begin(name, stage, todo, read),
           name \in Promisers(stage) \/ (Promisers(stage) = {} /\ name \notin Fill!Promising),
           ShelvesPassed' /\ CopiesPassed' /\ TypesPassed' /\ DropsRead'
    PROVE  ProductsInv'
<1>1. filler' = [name |-> name, stage |-> stage, todo |-> todo, read |-> read, found |-> None]
      /\ UNCHANGED <<products, copies, done, copied>>
  BY DEF Fill!Begin
<1>2. FillerFits'
  BY <1>1 DEF FillerFits, Promisers
<1>3. Keeps
  BY <1>1, RestKeeps DEF ProductsInv
<1>4. \A n \in done' : Promise(n)'
  BY <1>1, <1>3, KeepsPromises DEF ProductsInv
<1> QED  BY <1>2, <1>3, <1>4 DEF ProductsInv, Keeps

LEMMA StoreStartProducts ==
    ASSUME ProductsInv, NEW name, Fill!StoreStart(name)
    PROVE  ProductsInv'
<1>1. name \in {"phase1", "warehouses"} /\ Fill!Begin(name, "store", Products, None)
  BY DEF Fill!StoreStart
<1>2. filler'.stage = "store" /\ filler'.todo = Products
  BY <1>1 DEF Fill!Begin
<1>3. ShelvesPassed' /\ CopiesPassed' /\ TypesPassed' /\ DropsRead'
  BY <1>2 DEF ShelvesPassed, CopiesPassed, TypesPassed, DropsRead, Passed
<1>4. name \in Promisers("store")
  BY <1>1 DEF Promisers
<1> QED  BY <1>1, <1>3, <1>4, BeginProducts

LEMMA CopyStartProducts ==
    ASSUME ProductsInv, NEW name, Fill!CopyStart(name)
    PROVE  ProductsInv'
<1> DEFINE S == IF name = "phase2" THEN "members" ELSE "products"
<1> DEFINE P == {p \in Products : Fill!Source(products[p].at) = S}
<1>1. name \in {"phase2", "phase3"} /\ Fill!Begin(name, "copy", P, products)
  BY DEF Fill!CopyStart
<1>2. filler'.stage = "copy" /\ filler'.todo = P /\ filler'.read = products /\ filler'.name = name
      /\ products' = products
  BY <1>1 DEF Fill!Begin
<1>3. CopiesPassed'
  BY <1>1, <1>2 DEF CopiesPassed, Passed, ProductsInv, DataFits, Fill!Source
<1>4. ShelvesPassed' /\ TypesPassed' /\ DropsRead'
  BY <1>2 DEF ShelvesPassed, TypesPassed, DropsRead
<1>5. name \in Promisers("copy") /\ P \in SUBSET Products
  BY <1>1 DEF Promisers
<1> HIDE DEF P
<1> QED  BY <1>1, <1>3, <1>4, <1>5, BeginProducts

LEMMA TypesStartProducts ==
    ASSUME ProductsInv, Fill!TypesStart
    PROVE  ProductsInv'
<1> DEFINE P == {p \in Products : Fill!Texts(p) # {}}
<1> DEFINE R == [p \in Products |-> Fill!Texts(p)]
<1>1. Fill!Begin("types", "types", P, R)
  BY DEF Fill!TypesStart
<1>2. filler'.stage = "types" /\ filler'.todo = P /\ filler'.read = R /\ filler'.found = None
      /\ UNCHANGED copies
  BY <1>1 DEF Fill!Begin
<1>3. \A p \in Products : Fill!Texts(p) \subseteq {"text", "name"} /\ Fill!Texts(p)' = Fill!Texts(p)
  BY <1>2 DEF Fill!Texts, Fill!Copies, Fill!Kinds
<1>4. TypesPassed'
  BY <1>2, <1>3 DEF TypesPassed, Passed
<1>5. ShelvesPassed' /\ CopiesPassed' /\ DropsRead'
  BY <1>2 DEF ShelvesPassed, CopiesPassed, DropsRead
<1>6. "types" \in Promisers("types") /\ P \in SUBSET Products
  BY DEF Promisers
<1> HIDE DEF P, R
<1> QED  BY <1>1, <1>4, <1>5, <1>6, BeginProducts

LEMMA KeepStartProducts ==
    ASSUME ProductsInv, Fill!KeepStart
    PROVE  ProductsInv'
<1> DEFINE P == {p \in Products : Fill!Twice(p)}
<1> DEFINE R == [p \in Products |-> Fill!Copies(p)]
<1>1. Fill!Begin("duplicates", "keep", P, R)
  BY DEF Fill!KeepStart
<1>2. filler'.stage = "keep" /\ filler'.todo = P /\ filler'.read = R /\ filler'.found = None
      /\ UNCHANGED copies
  BY <1>1 DEF Fill!Begin
<1>3. \A p \in Products : Fill!Copies(p) \subseteq Fill!Kinds /\ Fill!Copies(p)' = Fill!Copies(p)
  BY <1>2 DEF Fill!Copies
<1>4. DropsRead'
  BY <1>2, <1>3 DEF DropsRead
<1>5. ShelvesPassed' /\ CopiesPassed' /\ TypesPassed'
  BY <1>2 DEF ShelvesPassed, CopiesPassed, TypesPassed
<1>6. Promisers("keep") = {} /\ "duplicates" \notin Fill!Promising /\ P \in SUBSET Products
  BY DEF Promisers, Fill!Promising
<1> HIDE DEF P, R
<1> QED  BY <1>1, <1>4, <1>5, <1>6, BeginProducts

LEMMA OtherStartProducts ==
    ASSUME ProductsInv, Fill!PlaceStart \/ Fill!NamesStart \/ Fill!MissingStart
    PROVE  ProductsInv'
<1>1. PICK name \in {"offices", "names", "missing"}, stage \in {"place", "names", "missing"}, todo \in SUBSET Products :
          Fill!Begin(name, stage, todo, None)
  <2>1. CASE Fill!PlaceStart
    BY <2>1 DEF Fill!PlaceStart
  <2>2. CASE Fill!NamesStart
    <3>1. Fill!Begin("names", "names", {p \in Products : "name" \in Fill!Copies(p)}, None)
      BY <2>2 DEF Fill!NamesStart
    <3>2. {p \in Products : "name" \in Fill!Copies(p)} \in SUBSET Products
      OBVIOUS
    <3> QED  BY <3>1, <3>2
  <2>3. CASE Fill!MissingStart
    <3>1. Fill!Begin("missing", "missing", {p \in Products : \E k \in Fill!Copies(p) : Fill!Bare(copies[p][k])}, None)
      BY <2>3 DEF Fill!MissingStart
    <3>2. {p \in Products : \E k \in Fill!Copies(p) : Fill!Bare(copies[p][k])} \in SUBSET Products
      OBVIOUS
    <3> QED  BY <3>1, <3>2
  <2> QED  BY <2>1, <2>2, <2>3
<1>2. filler'.stage = stage
  BY <1>1 DEF Fill!Begin
<1>3. ShelvesPassed' /\ CopiesPassed' /\ TypesPassed' /\ DropsRead'
  BY <1>2 DEF ShelvesPassed, CopiesPassed, TypesPassed, DropsRead
<1>4. Promisers(stage) = {} /\ name \notin Fill!Promising
  BY DEF Promisers, Fill!Promising
<1> QED  BY <1>1, <1>3, <1>4, BeginProducts

\* A product of any shape may become bare only where it was.
LEMMA BecomeShelf ==
    ASSUME DataFits, NEW p \in Products, NEW q \in Fill!Product, Fill!Become(p, q),
           Fill!Bare(q) => Fill!Bare(products[p]), q.warehouse = "gone" => products[p].warehouse = "gone"
    PROVE  /\ products' \in [Products -> Fill!Product] /\ products'[p] = q
           /\ \A x \in Products \ {p} : products'[x] = products[x]
           /\ \A x \in Products : ShelfKept(x)
<1>1. products' = [products EXCEPT ![p] = q]
  BY DEF Fill!Become
<1>2. products' \in [Products -> Fill!Product] /\ products'[p] = q
      /\ \A x \in Products \ {p} : products'[x] = products[x]
  BY <1>1 DEF DataFits
<1> QED  BY <1>2 DEF ShelfKept, Fill!Broken

LEMMA MoveProducts ==
    ASSUME QuietAssumption, ProductsInv, NEW p \in Products, NEW place \in Fill!Places, Fill!Move(p, place)
    PROVE  ProductsInv'
<1> DEFINE q == [at |-> place, warehouse |-> IF place = "warehouse" THEN "there" ELSE None,
                 office |-> IF place = "office" THEN "there" ELSE None]
<1>1. (filler = Fill!Idle \/ filler.name \in Serving) /\ Fill!Become(p, q) /\ Fill!Put(p, "id", q)
      /\ UNCHANGED <<filler, done>>
  BY DEF Fill!Move
<1>2. q \in Fill!Product /\ q.warehouse # "gone" /\ ~Fill!Bare(q)
  BY WordsAssumption DEF Fill!Product, Fill!Refs, Fill!Bare
<1>3. /\ products' \in [Products -> Fill!Product] /\ products'[p] = q
      /\ \A x \in Products \ {p} : products'[x] = products[x]
      /\ \A x \in Products : ShelfKept(x)
  BY <1>1, <1>2, BecomeShelf DEF ProductsInv
<1>4. Keeps /\ \A x \in Products : Fill!Copies(x) \subseteq Fill!Copies(x)'
  BY <1>1, <1>2, <1>3, PutKeeps DEF ProductsInv
<1>5. \A name \in done' : Promise(name)'
  BY <1>1, <1>4, KeepsPromises DEF ProductsInv
<1>6. FillerFits'
  BY <1>1 DEF ProductsInv, FillerFits, Promisers
<1>7. (filler.stage = "copy" => filler.name = "phase2") /\ filler.stage # "types"
  BY <1>1, WordsAssumption DEF QuietAssumption, ProductsInv, FillerFits, Promisers, Fill!Idle
<1>8. ShelvesPassed'
  BY <1>1, <1>4 DEF ProductsInv, ShelvesPassed, Keeps, ShelfKept, Passed
<1>9. CopiesPassed' /\ TypesPassed'
  <2>1. TypesPassed'
    BY <1>1, <1>7 DEF TypesPassed
  <2> SUFFICES ASSUME filler.stage = "copy" PROVE CopiesPassed'
    BY <1>1, <2>1 DEF CopiesPassed
  <2>2. copies' = [copies EXCEPT ![p]["id"] = q]
    BY <1>1 DEF Fill!Put
  <2>3. "id" \in Fill!Copies(p)'
    BY <2>2, WordsAssumption DEF ProductsInv, DataFits, Fill!Copies, Fill!Kinds, Fill!NoCopy, Fill!Places
  <2>4. \A x \in filler.todo : products'[x].at = "member" \/ "id" \in Fill!Copies(x)'
    BY <1>3, <1>4, <1>7, <2>3 DEF ProductsInv, CopiesPassed, FillerFits
  <2>5. \A x \in Passed : Fill!Source(products'[x].at) = "members" => "id" \in Fill!Copies(x)'
    BY <1>3, <1>4, <1>7, <2>3 DEF ProductsInv, CopiesPassed, Passed
  <2> QED  BY <1>1, <1>7, <2>4, <2>5 DEF ProductsInv, CopiesPassed, Passed
<1>10. DropsRead'
  <2> SUFFICES ASSUME filler.stage = "keep" PROVE DropsRead'
    BY <1>1 DEF DropsRead
  <2>1. filler.found # None => filler.found.of \in Products /\ "id" \in Fill!Copies(filler.found.of)'
    BY <1>1, <1>4 DEF ProductsInv, DropsRead, Keeps, KindsKept
  <2>2. \A x \in filler.todo : filler.found = None \/ filler.found.of # x => filler.read[x] \subseteq Fill!Copies(x)'
    BY <1>4 DEF ProductsInv, DropsRead, FillerFits
  <2> QED  BY <1>1, <2>1, <2>2 DEF ProductsInv, DropsRead
<1> QED  BY <1>4, <1>5, <1>6, <1>8, <1>9, <1>10 DEF ProductsInv, Keeps

LEMMA InterruptProducts ==
    ASSUME ProductsInv, Fill!Interrupt
    PROVE  ProductsInv'
BY RestKeeps, IdleProducts DEF Fill!Interrupt, ProductsInv

\* clean takes the promises of phases 2 and 3 back with the copies.
LEMMA CleanProducts ==
    ASSUME ProductsInv, Fill!Clean
    PROVE  ProductsInv'
<1>1. /\ filler' = Fill!Idle /\ copies' = [p \in Products |-> [k \in Fill!Kinds |-> Fill!NoCopy]]
      /\ copied' = {} /\ done' = done \ {"phase2", "phase3"} /\ products' = products
  BY DEF Fill!Clean
<1>2. \A p \in Products : Fill!Copies(p)' = {}
  BY <1>1 DEF Fill!Copies
<1>3. DataFits'
  BY <1>1, <1>2 DEF ProductsInv, DataFits, TrueOf
<1>4. \A name \in done' : Promise(name)'
  BY <1>1, <1>2 DEF ProductsInv, Promise, Fill!Texts, Fill!Broken
<1>5. FillerFits'
  BY <1>1, WordsAssumption DEF FillerFits, Fill!Idle, Promisers, Fill!Promising
<1>6. ShelvesPassed' /\ CopiesPassed' /\ TypesPassed' /\ DropsRead'
  BY <1>1, WordsAssumption DEF ShelvesPassed, CopiesPassed, TypesPassed, DropsRead, Fill!Idle
<1> QED  BY <1>3, <1>4, <1>5, <1>6 DEF ProductsInv

-----------------------------------------------------------------------------
\* The scripts for products.

LEMMA StoreProducts ==
    ASSUME ProductsInv, NEW p \in Products, Fill!Store(p)
    PROVE  ProductsInv'
<1> DEFINE q == IF Fill!Bare(products[p]) THEN [products[p] EXCEPT !.warehouse = "there"] ELSE products[p]
<1>1. filler.stage = "store" /\ UNCHANGED <<copies, copied>> /\ p \in filler.todo
      /\ IF filler.name = "phase1" THEN Fill!Last(p) ELSE Fill!ThenStage(p, "repair")
  BY DEF Fill!Store, Fill!At
<1>2. products[p] \in Fill!Product /\ products = [products EXCEPT ![p] = products[p]]
  BY DEF ProductsInv, DataFits
<1>3. Fill!Become(p, q)
  BY <1>2 DEF Fill!Store, Fill!Become
<1>4. q \in Fill!Product /\ ~Fill!Bare(q) /\ q.at = products[p].at
      /\ (q.warehouse = "gone" => products[p].warehouse = "gone")
  BY <1>2, WordsAssumption DEF Fill!Product, Fill!Refs, Fill!Bare
<1> HIDE DEF q
<1>5. /\ products' \in [Products -> Fill!Product] /\ products'[p] = q
      /\ \A x \in Products \ {p} : products'[x] = products[x]
      /\ \A x \in Products : ShelfKept(x)
  BY <1>3, <1>4, BecomeShelf DEF ProductsInv
<1>6. Keeps
  <2>1. \A x \in Products : products'[x].at = products[x].at
    BY <1>4, <1>5
  <2>2. copies' \in [Products -> [Fill!Kinds -> Fill!Product \cup {Fill!NoCopy}]]
    BY <1>1 DEF ProductsInv, DataFits
  <2> QED  BY <1>1, <1>5, <2>1, <2>2, RelabelKeeps DEF ProductsInv
<1>7. \A x \in Passed \cup {p} : ~Fill!Bare(products[x])'
  BY <1>1, <1>4, <1>5 DEF ProductsInv, ShelvesPassed, ShelfKept, Passed
<1>8. Went(p) => ShelvesPassed' /\ CopiesPassed' /\ TypesPassed' /\ DropsRead'
  <2> SUFFICES ASSUME Went(p) PROVE ShelvesPassed' /\ CopiesPassed' /\ TypesPassed' /\ DropsRead'
    OBVIOUS
  <2>1. filler'.stage = "store" /\ Passed' \subseteq Passed \cup {p}
    BY <1>1, WentFits DEF ProductsInv
  <2> QED  BY <1>7, <2>1 DEF ShelvesPassed, CopiesPassed, TypesPassed, DropsRead
<1>9. filler.todo = {p} => \A x \in Products : ~Fill!Bare(products[x])'
  BY <1>7 DEF Passed
<1>10. filler.name \in {"phase1", "warehouses"}
  BY <1>1 DEF ProductsInv, FillerFits, Promisers
<1>11. CASE filler.name = "phase1"
  BY <1>1, <1>6, <1>8, <1>9, <1>11, LastProducts DEF Promise
<1>12. CASE filler.name = "warehouses"
  BY <1>1, <1>6, <1>8, <1>9, <1>12, NextStageProducts DEF Promisers
<1> QED  BY <1>10, <1>11, <1>12

LEMMA RepairProducts ==
    ASSUME ProductsInv, NEW p \in Products, Fill!Repair(p)
    PROVE  ProductsInv'
<1> DEFINE q == IF Fill!Broken(p) THEN [products[p] EXCEPT !.warehouse = "there"] ELSE products[p]
<1>1. filler.stage = "repair" /\ UNCHANGED <<copies, copied>> /\ p \in filler.todo /\ Fill!Last(p)
  BY DEF Fill!Repair, Fill!At
<1>2. products[p] \in Fill!Product /\ products = [products EXCEPT ![p] = products[p]]
  BY DEF ProductsInv, DataFits
<1>3. Fill!Become(p, q)
  BY <1>2 DEF Fill!Repair, Fill!Become
<1>4. q \in Fill!Product /\ q.warehouse # "gone" /\ q.at = products[p].at
      /\ (Fill!Bare(q) => Fill!Bare(products[p]))
  BY <1>2, WordsAssumption DEF Fill!Product, Fill!Refs, Fill!Bare, Fill!Broken
<1> HIDE DEF q
<1>5. /\ products' \in [Products -> Fill!Product] /\ products'[p] = q
      /\ \A x \in Products \ {p} : products'[x] = products[x]
      /\ \A x \in Products : ShelfKept(x)
  BY <1>3, <1>4, BecomeShelf DEF ProductsInv
<1>6. Keeps
  <2>1. \A x \in Products : products'[x].at = products[x].at
    BY <1>4, <1>5
  <2>2. copies' \in [Products -> [Fill!Kinds -> Fill!Product \cup {Fill!NoCopy}]]
    BY <1>1 DEF ProductsInv, DataFits
  <2> QED  BY <1>1, <1>5, <2>1, <2>2, RelabelKeeps DEF ProductsInv
<1>7. /\ \A x \in Products : ~Fill!Bare(products[x])'
      /\ \A x \in Passed \cup {p} : ~Fill!Broken(x)'
  BY <1>1, <1>4, <1>5 DEF ProductsInv, ShelvesPassed, ShelfKept, Passed, Fill!Broken
<1>8. Went(p) => ShelvesPassed' /\ CopiesPassed' /\ TypesPassed' /\ DropsRead'
  <2> SUFFICES ASSUME Went(p) PROVE ShelvesPassed' /\ CopiesPassed' /\ TypesPassed' /\ DropsRead'
    OBVIOUS
  <2>1. filler'.stage = "repair" /\ Passed' \subseteq Passed \cup {p}
    BY <1>1, WentFits DEF ProductsInv
  <2> QED  BY <1>7, <2>1 DEF ShelvesPassed, CopiesPassed, TypesPassed, DropsRead
<1>9. \A name \in Promisers(filler.stage) : filler.todo = {p} /\ name = filler.name => Promise(name)'
  BY <1>1, <1>7 DEF Promisers, Promise, Passed
<1> QED  BY <1>1, <1>6, <1>8, <1>9, LastProducts

LEMMA CopyOneProducts ==
    ASSUME ProductsInv, NEW p \in Products, Fill!CopyOne(p)
    PROVE  ProductsInv'
<1>1. filler.stage = "copy" /\ UNCHANGED products /\ p \in filler.todo /\ Fill!Last(p)
      /\ filler.name \in {"phase2", "phase3"} /\ p \in Products
  BY DEF Fill!CopyOne, Fill!At, ProductsInv, FillerFits, Promisers
<1>2. /\ Keeps /\ "id" \in Fill!Copies(p)'
      /\ \A x \in Products : "id" \in Fill!Copies(x) => "id" \in Fill!Copies(x)'
  <2>1. CASE Fill!Copyable(p)
    <3> DEFINE c == Fill!NewCopy(p)
    <3>1. Fill!Put(p, "id", c)
      BY <2>1 DEF Fill!CopyOne
    <3>2. products[p] \in Fill!Product /\ copies[p]["id"] \in Fill!Product \cup {Fill!NoCopy}
      BY DEF ProductsInv, DataFits, Fill!Kinds
    <3>3. copies[p]["id"].office \in {None, "there"}
      BY <3>2 DEF Fill!Product, Fill!NoCopy
    <3>6. filler.read[p] \in Fill!Product /\ filler.read[p].at = products[p].at
      <4>1. CASE filler.name = "phase3"
        BY <1>1, <3>2, <4>1 DEF ProductsInv, CopiesPassed
      <4>2. CASE filler.name = "phase2"
        <5>1. /\ filler.read[p] \in Fill!Product /\ filler.read[p].at = "member"
              /\ products[p].at = "member" \/ "id" \in Fill!Copies(p)
          BY <1>1, <4>2 DEF ProductsInv, CopiesPassed
        <5>2. "id" \in Fill!Copies(p) => copies[p]["id"].at = products[p].at
          BY DEF ProductsInv, DataFits, TrueOf
        <5>3. Fill!Found(p) => products[p].at = "member"
          BY <5>1, <5>2 DEF Fill!Found, Fill!Source
        <5> QED  BY <2>1, <5>1, <5>3 DEF Fill!Copyable
      <4> QED  BY <1>1, <4>1, <4>2
    <3>4. c \in Fill!Product /\ c.at = products'[p].at
      BY <1>1, <3>3, <3>6 DEF Fill!NewCopy, Fill!Product, Fill!Refs
    <3>5. ShelfKept(p) /\ products' \in [Products -> Fill!Product]
      BY <1>1 DEF ShelfKept, Fill!Broken, ProductsInv, DataFits
    <3> HIDE DEF c
    <3> QED  BY <1>1, <3>1, <3>4, <3>5, PutKeeps DEF ProductsInv
  <2>2. CASE ~Fill!Copyable(p)
    <3>1. UNCHANGED <<products, copies, copied>> /\ "id" \in Fill!Copies(p)
      BY <1>1, <2>2 DEF Fill!CopyOne, Fill!Copyable
    <3> QED  BY <3>1, RestKeeps DEF ProductsInv
  <2> QED  BY <2>1, <2>2
<1>3. \A x \in Passed \cup {p} :
          Fill!Source(products[x].at) = (IF filler.name = "phase2" THEN "members" ELSE "products") => "id" \in Fill!Copies(x)'
  BY <1>1, <1>2 DEF ProductsInv, CopiesPassed, Passed
<1>4. Went(p) => ShelvesPassed' /\ CopiesPassed' /\ TypesPassed' /\ DropsRead'
  <2> SUFFICES ASSUME Went(p) PROVE ShelvesPassed' /\ CopiesPassed' /\ TypesPassed' /\ DropsRead'
    OBVIOUS
  <2>1. filler'.stage = "copy" /\ filler'.name = filler.name /\ filler'.read = filler.read
        /\ Passed' \subseteq Passed \cup {p} /\ filler'.todo \subseteq filler.todo
    BY <1>1, WentFits DEF ProductsInv
  <2>2. filler.todo \subseteq Products
    BY DEF ProductsInv, FillerFits
  <2>3. CopiesPassed'
    BY <1>1, <1>2, <1>3, <2>1, <2>2 DEF ProductsInv, CopiesPassed
  <2> QED  BY <2>1, <2>3 DEF ShelvesPassed, TypesPassed, DropsRead
<1>5. \A name \in Promisers(filler.stage) : filler.todo = {p} /\ name = filler.name => Promise(name)'
  <2> SUFFICES ASSUME filler.todo = {p}, NEW name \in {"phase2", "phase3"}, name = filler.name PROVE Promise(name)'
    BY <1>1 DEF Promisers
  <2>1. Products = Passed \cup {p}
    BY DEF Passed
  <2> QED  BY <1>1, <1>3, <2>1 DEF Promise
<1> QED  BY <1>1, <1>2, <1>4, <1>5, LastProducts

\* At stages of which nothing is promised.
Unpromised == {"place", "label", "names", "missing"}

LEMMA UnpromisedLast ==
    ASSUME ProductsInv, Keeps, NEW p \in Products, filler.stage \in Unpromised, Fill!Last(p)
    PROVE  ProductsInv'
<1>1. Promisers(filler.stage) = {}
  BY DEF Promisers, Unpromised
<1>2. Went(p) => ShelvesPassed' /\ CopiesPassed' /\ TypesPassed' /\ DropsRead'
  <2> SUFFICES ASSUME Went(p) PROVE ShelvesPassed' /\ CopiesPassed' /\ TypesPassed' /\ DropsRead'
    OBVIOUS
  <2>1. filler'.stage \in Unpromised
    BY WentFits DEF ProductsInv
  <2> QED  BY <2>1 DEF ShelvesPassed, CopiesPassed, TypesPassed, DropsRead, Unpromised
<1> QED  BY <1>1, <1>2, LastProducts

\* An office is written into a product, or into none.
LEMMA HomeKeeps ==
    ASSUME DataFits, UNCHANGED <<copies, copied>>,
           products' \in [Products -> Fill!Product],
           \A p \in Products : products'[p].at = products[p].at /\ products'[p].warehouse = products[p].warehouse
    PROVE  Keeps
<1>1. \A p \in Products : ShelfKept(p)
  BY DEF ShelfKept, Fill!Bare, Fill!Broken
<1>2. copies' \in [Products -> [Fill!Kinds -> Fill!Product \cup {Fill!NoCopy}]]
  BY DEF DataFits
<1> QED  BY <1>1, <1>2, RelabelKeeps

LEMMA PlaceProducts ==
    ASSUME ProductsInv, NEW p \in Products, Fill!PlaceOne(p)
    PROVE  ProductsInv'
<1>1. filler.stage = "place" /\ UNCHANGED <<copies, copied>> /\ Fill!ThenStage(p, "label")
  BY DEF Fill!PlaceOne, Fill!At
<1>2. \A x \in Products : products[x] \in Fill!Product
  BY DEF ProductsInv, DataFits
<1>3. products' = [products EXCEPT ![p] = [products[p] EXCEPT !.office = "there"]] \/ products' = products
  BY DEF Fill!PlaceOne, Fill!Become
<1>4. [products[p] EXCEPT !.office = "there"] \in Fill!Product
      /\ [products[p] EXCEPT !.office = "there"].at = products[p].at
      /\ [products[p] EXCEPT !.office = "there"].warehouse = products[p].warehouse
  BY <1>2 DEF Fill!Product
<1>5. Keeps
  <2>1. products' \in [Products -> Fill!Product]
        /\ \A x \in Products : products'[x].at = products[x].at /\ products'[x].warehouse = products[x].warehouse
    BY <1>3, <1>4 DEF ProductsInv, DataFits
  <2> QED  BY <1>1, <2>1, HomeKeeps DEF ProductsInv
<1>6. Went(p) => ShelvesPassed' /\ CopiesPassed' /\ TypesPassed' /\ DropsRead'
  <2> SUFFICES ASSUME Went(p) PROVE ShelvesPassed' /\ CopiesPassed' /\ TypesPassed' /\ DropsRead'
    OBVIOUS
  <2>1. filler'.stage = "place"
    BY <1>1, WentFits DEF ProductsInv
  <2> QED  BY <2>1 DEF ShelvesPassed, CopiesPassed, TypesPassed, DropsRead
<1>7. Promisers("label") = {} /\ filler.name \notin Fill!Promising
  BY <1>1 DEF ProductsInv, FillerFits, Promisers
<1> QED  BY <1>1, <1>5, <1>6, <1>7, NextStageProducts

LEMMA EnhancedProducts ==
    ASSUME ProductsInv, Fill!Enhanced
    PROVE  ProductsInv'
<1> DEFINE q(p) == IF Fill!Homeless(products[p]) THEN [products[p] EXCEPT !.office = "there"] ELSE products[p]
<1>1. filler' = Fill!Idle /\ done' = done /\ UNCHANGED <<copies, copied>> /\ products' = [p \in Products |-> q(p)]
  BY DEF Fill!Enhanced
<1>2. \A p \in Products : q(p) \in Fill!Product /\ q(p).at = products[p].at /\ q(p).warehouse = products[p].warehouse
  <2> SUFFICES ASSUME NEW p \in Products
               PROVE  q(p) \in Fill!Product /\ q(p).at = products[p].at /\ q(p).warehouse = products[p].warehouse
    OBVIOUS
  <2>1. products[p] \in Fill!Product
    BY DEF ProductsInv, DataFits
  <2> QED  BY <2>1 DEF Fill!Product
<1> HIDE DEF q
<1>3. Keeps
  BY <1>1, <1>2, HomeKeeps DEF ProductsInv
<1> QED  BY <1>1, <1>3, IdleProducts

\* Copies of p get an office, or a warehouse.
LEMMA CopiesRelabelled ==
    ASSUME DataFits, NEW p \in Products, NEW f, UNCHANGED <<products, copied>>,
           copies' = [copies EXCEPT ![p] = f], f \in [Fill!Kinds -> Fill!Product \cup {Fill!NoCopy}],
           \A k \in Fill!Kinds : f[k].at = copies[p][k].at
    PROVE  Keeps
<1>1. \A x \in Products : ShelfKept(x)
  BY DEF ShelfKept, Fill!Broken
<1>2. copies' \in [Products -> [Fill!Kinds -> Fill!Product \cup {Fill!NoCopy}]]
  BY DEF DataFits
<1>3. \A x \in Products, k \in Fill!Kinds : copies'[x][k].at = copies[x][k].at
  BY DEF DataFits
<1>4. products' \in [Products -> Fill!Product]
  BY DEF DataFits
<1> QED  BY <1>1, <1>2, <1>3, <1>4, RelabelKeeps

LEMMA LabelProducts ==
    ASSUME ProductsInv, NEW p \in Products, Fill!LabelOne(p)
    PROVE  ProductsInv'
<1> DEFINE c(k) == IF Fill!Homeless(copies[p][k]) THEN [copies[p][k] EXCEPT !.office = "there"] ELSE copies[p][k]
<1>1. filler.stage = "label" /\ UNCHANGED <<products, copied>> /\ Fill!Last(p)
      /\ copies' = [copies EXCEPT ![p] = [k \in Fill!Kinds |-> c(k)]]
  BY DEF Fill!LabelOne, Fill!At, ProductsInv, DataFits
<1>2. \A k \in Fill!Kinds : c(k) \in Fill!Product \cup {Fill!NoCopy} /\ c(k).at = copies[p][k].at
  <2> SUFFICES ASSUME NEW k \in Fill!Kinds, Fill!Homeless(copies[p][k])
               PROVE  c(k) \in Fill!Product \cup {Fill!NoCopy} /\ c(k).at = copies[p][k].at
    BY DEF ProductsInv, DataFits
  <2>1. copies[p][k] \in Fill!Product
    BY CopyShape, WordsAssumption DEF Fill!Homeless, Fill!NoCopy, ProductsInv
  <2> QED  BY <2>1 DEF Fill!Product
<1> HIDE DEF c
<1>3. Keeps
  <2> DEFINE f == [k \in Fill!Kinds |-> c(k)]
  <2>1. f \in [Fill!Kinds -> Fill!Product \cup {Fill!NoCopy}] /\ \A k \in Fill!Kinds : f[k].at = copies[p][k].at
    BY <1>2
  <2>2. copies' = [copies EXCEPT ![p] = f]
    BY <1>1
  <2> HIDE DEF f
  <2> QED  BY <1>1, <2>1, <2>2, CopiesRelabelled DEF ProductsInv
<1> QED  BY <1>1, <1>3, UnpromisedLast DEF Unpromised

LEMMA NamesProducts ==
    ASSUME ProductsInv, NEW p \in Products, Fill!NamesOne(p)
    PROVE  ProductsInv'
<1>1. filler.stage = "names" /\ UNCHANGED <<products, copied>>
  BY DEF Fill!NamesOne, Fill!At
<1>2. Keeps
  <2>1. CASE "name" \in Fill!Copies(p) /\ Fill!Free(p)
    BY <1>1, <2>1, ConvertKeeps DEF Fill!NamesOne, ProductsInv
  <2>2. CASE ~("name" \in Fill!Copies(p) /\ Fill!Free(p))
    BY <1>1, <2>2, RestKeeps DEF Fill!NamesOne, ProductsInv
  <2> QED  BY <2>1, <2>2
<1>3. CASE "name" \in Fill!Copies(p) /\ ~Fill!Free(p)
  BY <1>2, <1>3, IdleProducts DEF Fill!NamesOne
<1>4. CASE ~("name" \in Fill!Copies(p) /\ ~Fill!Free(p))
  BY <1>1, <1>2, <1>4, UnpromisedLast DEF Fill!NamesOne, Unpromised
<1> QED  BY <1>3, <1>4

LEMMA MissingCopyProducts ==
    ASSUME ProductsInv, NEW p \in Products, Fill!MissingCopy(p)
    PROVE  ProductsInv'
<1> DEFINE c(k) == IF Fill!Bare(copies[p][k]) THEN [copies[p][k] EXCEPT !.warehouse = "there"] ELSE copies[p][k]
<1>1. filler.stage = "missing" /\ UNCHANGED <<products, done, copied>> /\ filler' = [filler EXCEPT !.found = [of |-> p]]
      /\ copies' = [copies EXCEPT ![p] = [k \in Fill!Kinds |-> c(k)]]
  BY DEF Fill!MissingCopy, Fill!At, ProductsInv, DataFits
<1>2. \A k \in Fill!Kinds : c(k) \in Fill!Product \cup {Fill!NoCopy} /\ c(k).at = copies[p][k].at
  <2> SUFFICES ASSUME NEW k \in Fill!Kinds, Fill!Bare(copies[p][k])
               PROVE  c(k) \in Fill!Product \cup {Fill!NoCopy} /\ c(k).at = copies[p][k].at
    BY DEF ProductsInv, DataFits
  <2>1. copies[p][k] \in Fill!Product
    BY CopyShape, WordsAssumption DEF Fill!Bare, Fill!NoCopy, ProductsInv
  <2> QED  BY <2>1 DEF Fill!Product, Fill!Refs
<1> HIDE DEF c
<1>3. Keeps
  <2> DEFINE f == [k \in Fill!Kinds |-> c(k)]
  <2>1. f \in [Fill!Kinds -> Fill!Product \cup {Fill!NoCopy}] /\ \A k \in Fill!Kinds : f[k].at = copies[p][k].at
    BY <1>2
  <2>2. copies' = [copies EXCEPT ![p] = f]
    BY <1>1
  <2> HIDE DEF f
  <2> QED  BY <1>1, <2>1, <2>2, CopiesRelabelled DEF ProductsInv
<1>4. filler'.stage = "missing" /\ filler'.name = filler.name /\ filler'.todo = filler.todo
      /\ DOMAIN filler' = DOMAIN filler
  BY <1>1 DEF ProductsInv, FillerFits
<1>5. FillerFits' /\ ShelvesPassed' /\ CopiesPassed' /\ TypesPassed' /\ DropsRead'
  BY <1>1, <1>4 DEF ProductsInv, FillerFits, ShelvesPassed, CopiesPassed, TypesPassed, DropsRead, Promisers
<1>6. \A name \in done' : Promise(name)'
  BY <1>1, <1>3, KeepsPromises DEF ProductsInv
<1> QED  BY <1>3, <1>5, <1>6 DEF ProductsInv, Keeps

LEMMA MissingProductProducts ==
    ASSUME ProductsInv, NEW p \in Products, Fill!MissingProduct(p)
    PROVE  ProductsInv'
<1> DEFINE q == [products[p] EXCEPT !.warehouse = "there"]
<1>1. filler.stage = "missing" /\ UNCHANGED <<copies, copied>> /\ Fill!Last(p)
      /\ (Fill!Become(p, q) \/ UNCHANGED products)
  BY DEF Fill!MissingProduct
<1>2. products[p] \in Fill!Product
  BY DEF ProductsInv, DataFits
<1>3. q \in Fill!Product /\ q.warehouse # "gone" /\ ~Fill!Bare(q) /\ q.at = products[p].at
  BY <1>2, WordsAssumption DEF Fill!Product, Fill!Refs, Fill!Bare
<1> HIDE DEF q
<1>4. CASE UNCHANGED products
  BY <1>1, <1>4, RestKeeps, UnpromisedLast DEF ProductsInv, Unpromised
<1>5. CASE Fill!Become(p, q)
  <2>1. /\ products' \in [Products -> Fill!Product] /\ products'[p] = q
        /\ \A x \in Products \ {p} : products'[x] = products[x]
        /\ \A x \in Products : ShelfKept(x)
    BY <1>3, <1>5, BecomeShelf DEF ProductsInv
  <2>2. copies' \in [Products -> [Fill!Kinds -> Fill!Product \cup {Fill!NoCopy}]]
    BY <1>1 DEF ProductsInv, DataFits
  <2>3. \A x \in Products : products'[x].at = products[x].at
    BY <1>3, <2>1
  <2>4. Keeps
    BY <1>1, <2>1, <2>2, <2>3, RelabelKeeps DEF ProductsInv
  <2> QED  BY <1>1, <2>4, UnpromisedLast DEF Unpromised
<1> QED  BY <1>1, <1>4, <1>5

-----------------------------------------------------------------------------
\* The scripts for copies.

LEMMA TypesLookProducts ==
    ASSUME ProductsInv, NEW p \in Products, Fill!TypesLook(p)
    PROVE  ProductsInv'
<1>1. PICK k \in filler.read[p] :
          filler' = [filler EXCEPT !.found = [of |-> p, kind |-> k, goes |-> Fill!Goer(p)]]
  BY DEF Fill!TypesLook
<1>2. filler.stage = "types" /\ UNCHANGED <<products, copies, done, copied>>
  BY DEF Fill!TypesLook, Fill!At
<1>3. /\ filler'.stage = filler.stage /\ filler'.name = filler.name /\ filler'.todo = filler.todo
      /\ filler'.read = filler.read /\ DOMAIN filler' = DOMAIN filler
      /\ filler'.found = [of |-> p, kind |-> k, goes |-> Fill!Goer(p)]
  BY <1>1 DEF ProductsInv, FillerFits
<1>4. Keeps
  BY <1>2, RestKeeps DEF ProductsInv
<1>5. FillerFits'
  BY <1>3 DEF ProductsInv, FillerFits, Promisers
<1>6. TypesPassed'
  <2>1. k \in {"text", "name"}
    BY <1>2 DEF ProductsInv, TypesPassed
  <2>2. filler'.found.of = p /\ filler'.found.kind = k /\ filler'.found.goes = Fill!Goer(p)
    BY <1>3
  <2>3. Fill!Goer(p) <=> ~Fill!Free(p)
    BY DEF Fill!Goer
  <2>4. \A x \in Products : Fill!Free(x)' = Fill!Free(x) /\ Fill!Texts(x)' = Fill!Texts(x)
    BY <1>2 DEF Fill!Free, Fill!Texts, Fill!Copies
  <2>5. Passed' = Passed /\ filler.todo \subseteq Products
    BY <1>3 DEF Passed, ProductsInv, FillerFits
  <2>6. Looked(filler.found)'
    BY <2>1, <2>2, <2>3, <2>4 DEF Looked
  <2>7. TypesPassed
    BY DEF ProductsInv
  <2> QED  BY <1>2, <1>3, <2>4, <2>5, <2>6, <2>7 DEF TypesPassed, Passed
<1>7. ShelvesPassed' /\ CopiesPassed' /\ DropsRead'
  BY <1>2, <1>3 DEF ShelvesPassed, CopiesPassed, DropsRead
<1>8. \A name \in done' : Promise(name)'
  BY <1>2, <1>4, KeepsPromises DEF ProductsInv
<1> QED  BY <1>4, <1>5, <1>6, <1>7, <1>8 DEF ProductsInv, Keeps

LEMMA TypesWriteProducts ==
    ASSUME ProductsInv, NEW p \in Products, Fill!TypesWrite(p)
    PROVE  ProductsInv'
<1> DEFINE kind == filler.found.kind
<1>1. filler.stage = "types" /\ filler.found # None /\ filler.found.of = p /\ UNCHANGED <<products, copied>>
  BY DEF Fill!TypesWrite
<1>2. /\ kind \in {"text", "name"} /\ (filler.found.goes <=> ~Fill!Free(p))
      /\ filler.read \in [Products -> SUBSET {"text", "name"}]
      /\ \A x \in Passed : Fill!Texts(x) = {}
      /\ \A x \in filler.todo : Fill!Texts(x) \subseteq filler.read[x]
  <2>1. TypesPassed
    BY DEF ProductsInv
  <2>2. /\ filler.read \in [Products -> SUBSET {"text", "name"}]
        /\ \A x \in Passed : Fill!Texts(x) = {}
        /\ \A x \in filler.todo : Fill!Texts(x) \subseteq filler.read[x]
    BY <1>1, <2>1 DEF TypesPassed
  <2>3. Looked(filler.found)
    BY <1>1, <2>1 DEF TypesPassed
  <2>4. filler.found.kind \in {"text", "name"} /\ (filler.found.goes <=> ~Fill!Free(p))
    BY <1>1, <2>3, Zenon DEF Looked
  <2> QED  BY <2>2, <2>4
<1>3. copies' = IF filler.found.goes THEN [copies EXCEPT ![p][kind] = Fill!NoCopy] ELSE Fill!Converted(p, kind)
  BY <1>1, <1>2 DEF Fill!TypesWrite
<1> HIDE DEF kind
<1>4. Keeps /\ Fill!Texts(p)' = Fill!Texts(p) \ {kind}
  <2>1. CASE filler.found.goes
    <3>1. "id" \in Fill!Copies(p) /\ copies' = [copies EXCEPT ![p][kind] = Fill!NoCopy]
      BY <1>2, <1>3, <2>1 DEF Fill!Free
    <3>2. copies' = [copies EXCEPT ![p] = [k \in Fill!Kinds |-> IF k \in {kind} THEN Fill!NoCopy ELSE @[k]]]
      <4>1. copies[p] \in [Fill!Kinds -> Fill!Product \cup {Fill!NoCopy}]
        BY DEF ProductsInv, DataFits
      <4>2. [copies[p] EXCEPT ![kind] = Fill!NoCopy] =
                [k \in Fill!Kinds |-> IF k \in {kind} THEN Fill!NoCopy ELSE copies[p][k]]
        BY <4>1
      <4> QED  BY <3>1, <4>2
    <3>3. Keeps /\ Fill!Copies(p)' = Fill!Copies(p) \ {kind}
      <4>1. "id" \notin {kind} /\ DataFits
        BY <1>2 DEF ProductsInv
      <4> QED  BY <1>1, <3>1, <3>2, <4>1, DropKeeps
    <3> QED  BY <3>3 DEF Fill!Texts
  <2>2. CASE ~filler.found.goes
    <3>1. Fill!Free(p) /\ copies' = Fill!Converted(p, kind)
      BY <1>2, <1>3, <2>2
    <3>2. Keeps /\ Fill!Copies(p)' = IF kind \in Fill!Copies(p) THEN (Fill!Copies(p) \ {kind}) \cup {"id"}
                                    ELSE Fill!Copies(p)
      BY <1>1, <1>2, <3>1, ConvertKeeps DEF ProductsInv
    <3> QED  BY <3>2 DEF Fill!Texts
  <2> QED  BY <2>1, <2>2
<1>5. \A x \in Products : Fill!Texts(x)' \subseteq Fill!Texts(x)
  BY <1>4 DEF Keeps, KindsKept
<1>6. CASE filler.read[p] = {kind}
  <2>1. Fill!Last(p)
    BY <1>6 DEF Fill!TypesWrite, kind
  <2>2. \A x \in Passed \cup {p} : Fill!Texts(x)' = {}
    <3>1. p \in Passed \/ p \in filler.todo
      BY DEF Passed
    <3>2. Fill!Texts(p)' = {}
      BY <1>2, <1>4, <1>6, <3>1
    <3> QED  BY <1>2, <1>5, <3>2 DEF Passed
  <2>3. Went(p) => ShelvesPassed' /\ CopiesPassed' /\ TypesPassed' /\ DropsRead'
    <3> SUFFICES ASSUME Went(p) PROVE ShelvesPassed' /\ CopiesPassed' /\ TypesPassed' /\ DropsRead'
      OBVIOUS
    <3>1. filler'.stage = "types" /\ filler'.read = filler.read /\ filler'.found = None
          /\ filler'.todo = filler.todo \ {p} /\ Passed' \subseteq Passed \cup {p}
      BY <1>1, WentFits DEF ProductsInv
    <3>2. \A x \in filler'.todo : Fill!Texts(x)' \subseteq filler.read[x]
      BY <1>2, <1>5, <3>1 DEF ProductsInv, FillerFits
    <3> QED  BY <1>2, <2>2, <3>1, <3>2 DEF ShelvesPassed, CopiesPassed, TypesPassed, DropsRead
  <2>4. \A name \in Promisers(filler.stage) : filler.todo = {p} /\ name = filler.name => Promise(name)'
    <3> SUFFICES ASSUME filler.todo = {p} PROVE Promise("types")'
      BY <1>1 DEF Promisers
    <3> QED  BY <2>2 DEF Promise, Passed
  <2> QED  BY <1>4, <2>1, <2>3, <2>4, LastProducts
<1>7. CASE filler.read[p] # {kind}
  <2>1. filler' = [filler EXCEPT !.read[p] = @ \ {kind}, !.found = None] /\ done' = done
    BY <1>7 DEF Fill!TypesWrite, kind
  <2>2. /\ filler'.stage = filler.stage /\ filler'.name = filler.name /\ filler'.todo = filler.todo
        /\ DOMAIN filler' = DOMAIN filler /\ filler'.found = None
        /\ filler'.read = [filler.read EXCEPT ![p] = @ \ {kind}]
    BY <2>1 DEF ProductsInv, FillerFits
  <2>3. FillerFits'
    BY <2>2 DEF ProductsInv, FillerFits, Promisers
  <2>4. filler'.read \in [Products -> SUBSET {"text", "name"}]
    BY <1>2, <2>2
  <2>5. \A x \in filler.todo : Fill!Texts(x)' \subseteq filler'.read[x]
    BY <1>2, <1>4, <1>5, <2>2 DEF ProductsInv, FillerFits
  <2>6. \A x \in Passed : Fill!Texts(x)' = {}
    BY <1>2, <1>5 DEF Passed
  <2>7. TypesPassed'
    BY <2>2, <2>4, <2>5, <2>6 DEF TypesPassed, Passed
  <2>8. ShelvesPassed' /\ CopiesPassed' /\ DropsRead'
    BY <1>1, <2>2 DEF ShelvesPassed, CopiesPassed, DropsRead
  <2>9. \A name \in done' : Promise(name)'
    BY <1>4, <2>1, KeepsPromises DEF ProductsInv
  <2> QED  BY <1>4, <2>3, <2>7, <2>8, <2>9 DEF ProductsInv, Keeps
<1> QED  BY <1>6, <1>7

LEMMA KeepOneProducts ==
    ASSUME ProductsInv, NEW p \in Products, NEW k \in Fill!Kinds, Fill!KeepOne(p, k)
    PROVE  ProductsInv'
<1>1. filler.stage = "keep" /\ p \in filler.todo /\ k \in filler.read[p] /\ filler.found = None
      /\ UNCHANGED <<products, done, copied>>
  BY DEF Fill!KeepOne, Fill!At
<1>2. filler.read \in [Products -> SUBSET Fill!Kinds] /\ \A x \in filler.todo : filler.read[x] \subseteq Fill!Copies(x)
  BY <1>1 DEF ProductsInv, DropsRead
<1>3. CASE k # "id" /\ ~Fill!Free(p)
  <2>1. filler' = Fill!Idle /\ UNCHANGED copies
    BY <1>3 DEF Fill!KeepOne
  <2> QED  BY <1>1, <2>1, RestKeeps, IdleProducts DEF ProductsInv
<1>4. CASE k = "id" \/ Fill!Free(p)
  <2>1. filler' = [filler EXCEPT !.found = [of |-> p, kept |-> k]]
    BY <1>4 DEF Fill!KeepOne
  <2>2. /\ filler'.stage = filler.stage /\ filler'.name = filler.name /\ filler'.todo = filler.todo
        /\ filler'.read = filler.read /\ DOMAIN filler' = DOMAIN filler
        /\ filler'.found.of = p /\ filler'.found.kept = k
    BY <2>1 DEF ProductsInv, FillerFits
  <2>3. /\ Keeps /\ "id" \in Fill!Copies(p)' /\ "id" \notin Fill!Dropped(filler.read[p], k)
        /\ \A x \in Products \ {p} : Fill!Copies(x)' = Fill!Copies(x)
    <3>1. CASE k = "id"
      <4>1. UNCHANGED <<products, copies, copied>>
        BY <1>1, <3>1 DEF Fill!KeepOne
      <4>2. Keeps /\ \A x \in Products : Fill!Copies(x)' = Fill!Copies(x)
        BY <4>1, RestKeeps DEF ProductsInv
      <4> QED  BY <1>1, <1>2, <3>1, <4>2 DEF Fill!Dropped
    <3>2. CASE k # "id"
      <4>1. Fill!Free(p) /\ copies' = Fill!Converted(p, k) /\ k \in {"text", "name"}
        BY <1>4, <3>2 DEF Fill!KeepOne, Fill!Kinds
      <4>2. /\ Keeps /\ Fill!Copies(p)' = IF k \in Fill!Copies(p) THEN (Fill!Copies(p) \ {k}) \cup {"id"}
                                         ELSE Fill!Copies(p)
            /\ \A x \in Products \ {p} : Fill!Copies(x)' = Fill!Copies(x)
        BY <1>1, <4>1, ConvertKeeps DEF ProductsInv
      <4>3. k \in Fill!Copies(p) /\ "id" \notin filler.read[p]
        BY <1>1, <1>2, <4>1 DEF Fill!Free
      <4> QED  BY <4>2, <4>3 DEF Fill!Dropped
    <3> QED  BY <3>1, <3>2
  <2>4. FillerFits'
    BY <2>2 DEF ProductsInv, FillerFits, Promisers
  <2>5. DropsRead'
    <3>1. \A x \in filler.todo : x # p => filler.read[x] \subseteq Fill!Copies(x)'
      BY <1>2, <2>3 DEF ProductsInv, FillerFits
    <3>2. \A x \in filler'.todo :
              filler'.found = None \/ filler'.found.of # x => filler'.read[x] \subseteq Fill!Copies(x)'
      <4>1. filler'.found # None
        BY <2>1, <2>2, FoundAssumption DEF ProductsInv, FillerFits
      <4> QED  BY <2>2, <3>1, <4>1
    <3>3. filler'.found.of \in Products /\ "id" \in Fill!Copies(filler.found.of)'
          /\ "id" \notin Fill!Dropped(filler'.read[filler'.found.of], filler'.found.kept)
      BY <2>2, <2>3
    <3> QED  BY <1>2, <2>2, <3>2, <3>3 DEF DropsRead
  <2>6. ShelvesPassed' /\ CopiesPassed' /\ TypesPassed'
    BY <1>1, <2>2 DEF ShelvesPassed, CopiesPassed, TypesPassed
  <2>7. \A name \in done' : Promise(name)'
    BY <1>1, <2>3, KeepsPromises DEF ProductsInv
  <2> QED  BY <2>3, <2>4, <2>5, <2>6, <2>7 DEF ProductsInv, Keeps
<1> QED  BY <1>3, <1>4

LEMMA DropOthersProducts ==
    ASSUME ProductsInv, NEW p \in Products, Fill!DropOthers(p)
    PROVE  ProductsInv'
<1> DEFINE K == Fill!Dropped(filler.read[p], filler.found.kept)
<1>1. filler.stage = "keep" /\ filler.found # None /\ filler.found.of = p /\ UNCHANGED <<products, copied>>
      /\ copies' = [copies EXCEPT ![p] = [k \in Fill!Kinds |-> IF k \in K THEN Fill!NoCopy ELSE @[k]]]
      /\ Fill!Last(p)
  BY DEF Fill!DropOthers
<1>2. "id" \in Fill!Copies(p) /\ "id" \notin K /\ filler.read \in [Products -> SUBSET Fill!Kinds]
      /\ \A x \in filler.todo \ {p} : filler.read[x] \subseteq Fill!Copies(x)
  BY <1>1 DEF ProductsInv, DropsRead
<1> HIDE DEF K
<1>3. Keeps /\ \A x \in Products \ {p} : Fill!Copies(x)' = Fill!Copies(x)
  BY <1>1, <1>2, DropKeeps DEF ProductsInv
<1>4. Went(p) => ShelvesPassed' /\ CopiesPassed' /\ TypesPassed' /\ DropsRead'
  <2> SUFFICES ASSUME Went(p) PROVE ShelvesPassed' /\ CopiesPassed' /\ TypesPassed' /\ DropsRead'
    OBVIOUS
  <2>1. filler'.stage = "keep" /\ filler'.read = filler.read /\ filler'.found = None
        /\ filler'.todo = filler.todo \ {p}
    BY <1>1, WentFits DEF ProductsInv
  <2>2. \A x \in filler'.todo : filler'.read[x] \subseteq Fill!Copies(x)'
    BY <1>2, <1>3, <2>1 DEF ProductsInv, FillerFits
  <2> QED  BY <1>2, <2>1, <2>2 DEF ShelvesPassed, CopiesPassed, TypesPassed, DropsRead
<1>5. Promisers(filler.stage) = {}
  BY <1>1 DEF Promisers
<1> QED  BY <1>1, <1>3, <1>4, <1>5, LastProducts

-----------------------------------------------------------------------------

LEMMA NextProducts == QuietAssumption /\ ProductsInv /\ [Fill!Next]_fillVars => ProductsInv'
<1> SUFFICES ASSUME QuietAssumption, ProductsInv, [Fill!Next]_fillVars PROVE ProductsInv'
  OBVIOUS
<1>1. ASSUME NEW p \in Products,
             \/ Fill!Store(p) \/ Fill!Repair(p) \/ Fill!CopyOne(p) \/ Fill!PlaceOne(p) \/ Fill!LabelOne(p)
             \/ Fill!NamesOne(p) \/ Fill!TypesLook(p) \/ Fill!TypesWrite(p) \/ Fill!DropOthers(p)
             \/ Fill!MissingCopy(p) \/ Fill!MissingProduct(p)
             \/ \E k \in Fill!Kinds : Fill!KeepOne(p, k)
      PROVE  ProductsInv'
  BY <1>1, StoreProducts, RepairProducts, CopyOneProducts, PlaceProducts, LabelProducts, NamesProducts,
     TypesLookProducts, TypesWriteProducts, DropOthersProducts, MissingCopyProducts, MissingProductProducts,
     KeepOneProducts
<1>2. CASE \E p \in Products, place \in Fill!Places : Fill!Move(p, place)
  BY <1>2, MoveProducts
<1>3. CASE \E name \in {"phase1", "phase2", "phase3", "warehouses"} : Fill!StoreStart(name) \/ Fill!CopyStart(name)
  BY <1>3, StoreStartProducts, CopyStartProducts
<1>4. CASE Fill!PlaceStart \/ Fill!NamesStart \/ Fill!MissingStart
  BY <1>4, OtherStartProducts
<1>5. CASE Fill!Enhanced \/ Fill!TypesStart \/ Fill!KeepStart \/ Fill!Clean \/ Fill!Interrupt
  BY <1>5, EnhancedProducts, TypesStartProducts, KeepStartProducts, CleanProducts, InterruptProducts
<1>6. CASE UNCHANGED fillVars
  <2>1. UNCHANGED <<products, copies, filler, done, copied>>
    BY <1>6 DEF fillVars
  <2>2. Keeps /\ \A p \in Products : Fill!Copies(p)' = Fill!Copies(p)
    BY <2>1, RestKeeps DEF ProductsInv
  <2>3. \A name \in done' : Promise(name)'
    BY <2>1, <2>2, KeepsPromises DEF ProductsInv
  <2>4. FillerFits' /\ ShelvesPassed' /\ CopiesPassed'
    BY <2>1 DEF ProductsInv, FillerFits, ShelvesPassed, CopiesPassed, Passed, Fill!Copies, Fill!Broken
  <2>5. TypesPassed' /\ DropsRead'
    <3>1. Looked(filler.found) => Looked(filler.found)'
      BY <2>1 DEF Looked, Fill!Free, Fill!Copies
    <3>2. Passed' = Passed /\ \A p : Fill!Texts(p)' = Fill!Texts(p)
      BY <2>1 DEF Passed, Fill!Texts, Fill!Copies
    <3>3. TypesPassed /\ DropsRead
      BY DEF ProductsInv
    <3>4. TypesPassed'
      BY <2>1, <3>1, <3>2, <3>3 DEF TypesPassed
    <3>5. DropsRead'
      BY <2>1, <3>3 DEF DropsRead, Fill!Copies
    <3> QED  BY <3>4, <3>5
  <2> QED  BY <2>2, <2>3, <2>4, <2>5 DEF ProductsInv, Keeps
<1> QED  BY <1>1, <1>2, <1>3, <1>4, <1>5, <1>6 DEF Fill!Next

\* The scripts that brought products up to the present scheme keep what they promise with any
\* number of products, in any order and however interrupted: none takes a product's last copy
\* away but the one that takes all; after phase 1 and fix-tenant-warehouse-ids every product at
\* FP has a warehouse, after phases 2 and 3 every product has a copy with the tenant's id, after
\* fix-tenantid-types no copy has a text for it, and a copy says where its product is.
THEOREM PromisesAlwaysKept == QuietAssumption => (PartSpec => []PromisesKept)
<1> SUFFICES ASSUME QuietAssumption PROVE PartSpec => []PromisesKept
  OBVIOUS
<1>1. PartInit => ProductsInv
  BY InitProducts DEF PartInit
<1>2. ProductsInv /\ [UsersStep \/ ProductsStep \/ FieldsStep]_all => ProductsInv'
  <2>1. [UsersStep \/ ProductsStep \/ FieldsStep]_all => [Fill!Next]_fillVars
    BY DEF UsersStep, ProductsStep, FieldsStep, all
  <2> QED  BY <2>1, NextProducts
<1>3. ProductsInv => PromisesKept
  <2> SUFFICES ASSUME ProductsInv PROVE PromisesKept
    OBVIOUS
  <2> USE DEF ProductsInv
  <2>1. Fill!TypeOK
    BY DEF DataFits, FillerFits, Fill!TypeOK
  <2>2. Fill!CopiesKept /\ Fill!CopiesTrue
    BY DEF DataFits, TrueOf, Fill!CopiesKept, Fill!CopiesTrue
  <2>3. Fill!TextsGone /\ Fill!ShelvesFilled
    BY DEF Promise, Fill!TextsGone, Fill!ShelvesFilled, Fill!Broken
  <2>4. Fill!CopiesComplete
    BY DEF Promise, Fill!CopiesComplete, Fill!Source
  <2> QED  BY <2>1, <2>2, <2>3, <2>4 DEF PromisesKept, Fill!PromisesKept
<1> QED  BY <1>1, <1>2, <1>3, PTL DEF PartSpec

=============================================================================
