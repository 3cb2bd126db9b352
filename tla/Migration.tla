------------------------------ MODULE Migration ------------------------------
(***************************************************************************)
(* The scripts that take the users of a tenant out of the collection       *)
(* tenants, where each had a document of its own with the company's data   *)
(* in it, into the collection users, and the ones that undo it:            *)
(*                                                                         *)
(*    direct    scripts/migrate-direct.ts                                  *)
(*    tenant    scripts/migrate-tenant.ts                                  *)
(*    rollback  scripts/rollback-direct.ts                                 *)
(*    restore   scripts/rollback-migration.ts                              *)
(*    dedupe    scripts/cleanup-duplicates.ts                              *)
(*                                                                         *)
(* No script uses a transaction and any may be interrupted. They name      *)
(* their database: direct works on main, rollback and dedupe on firstPlug, *)
(* the other two on the one of the application.                            *)
(***************************************************************************)
EXTENDS Naturals, FiniteSets

CONSTANTS
    People,     \* e-mail addresses of the users of one tenant
    DocIds,     \* ids of documents of the collection tenants
    None,       \* no person
    MaxRuns     \* bound on the scripts that are started

ASSUME DocIdsAssumption == Cardinality(People) <= Cardinality(DocIds)
ASSUME NoneAssumption   == None \notin People \cup DocIds
ASSUME RunsAssumption   == MaxRuns \in Nat

VARIABLES
    database,   \* the database of the application
    docs,       \* collection tenants: who is embedded, is there a createdBy
    users,      \* collection users: the tenant of every person, None if there is no user
    office,     \* has the tenant a default office?
    script,     \* the script that runs, and what it read
    runs,       \* scripts started so far
    replaced    \* people that restore or dedupe removed from tenants

migrationState == <<database, docs, users, office, script, runs, replaced>>

NoDoc   == [is |-> FALSE, person |-> None, createdBy |-> FALSE]
Doc(p)  == [is |-> TRUE, person |-> p, createdBy |-> FALSE]
Clean   == [is |-> TRUE, person |-> None, createdBy |-> TRUE]
Stored  == {d \in DocIds : docs[d].is}
Embedding == {d \in Stored : docs[d].person # None}
Migrated  == {p \in People : users[p] # None}
Embedded  == {docs[d].person : d \in Embedding}

Scripts(db) == {"tenant", "restore"} \cup (IF db = "main" THEN {"direct"} ELSE {"rollback", "dedupe"})

\* A running script: its name, its next step, the documents and the people it
\* still has to go through, the document it keeps, all the documents it read.
Nothing == [name |-> "none", at |-> "none", docs |-> {}, people |-> {}, main |-> None, all |-> {}]
Is(name, at) == script.name = name /\ script.at = at
Go(s)   == script' = s
Finish  == Go(Nothing)
At(at)  == Go([script EXCEPT !.at = at])
Start(name) == script = Nothing /\ name \in Scripts(database) /\ runs < MaxRuns /\ runs' = runs + 1

Init ==
    /\ database \in {"main", "firstPlug"}
    /\ docs \in [DocIds -> {NoDoc} \cup {Doc(p) : p \in People}]
    /\ \A p \in People : Cardinality({d \in DocIds : docs[d] = Doc(p)}) = 1
    /\ users = [p \in People |-> None] /\ office = FALSE
    /\ script = Nothing /\ runs = 0 /\ replaced = {}

-----------------------------------------------------------------------------
\* direct: nothing of the tenant may have been migrated. The first document
\* becomes the tenant.
DirectStart ==
    /\ Start("direct") /\ Migrated = {} /\ Embedding # {}
    /\ \E main \in Embedding :
          Go([name |-> "direct", at |-> "insert", docs |-> Embedding, people |-> {}, main |-> main, all |-> Embedding])
    /\ UNCHANGED <<database, docs, users, office, replaced>>

\* tenant: none of the addresses may have a user, other users do not matter.
TenantStart ==
    /\ Start("tenant") /\ Stored # {} /\ Embedded \cap Migrated = {}
    /\ \E main \in Stored :
          Go([name |-> "tenant", at |-> "insert", docs |-> Stored, people |-> {}, main |-> main, all |-> Stored])
    /\ UNCHANGED <<database, docs, users, office, replaced>>

\* The address is required and has an index of its own.
Insertable(d) == docs[d].person # None /\ users[docs[d].person] = None

\* One user after the other; one that is refused ends the script.
Insert ==
    /\ script.name \in {"direct", "tenant"} /\ script.at = "insert"
    /\ \E d \in script.docs :
          IF Insertable(d)
          THEN /\ users' = [users EXCEPT ![docs[d].person] = script.main]
               /\ Go([script EXCEPT !.docs = @ \ {d}, !.at = IF script.docs = {d} THEN "office" ELSE "insert"])
          ELSE UNCHANGED users /\ Finish
    /\ UNCHANGED <<database, docs, office, runs, replaced>>

\* direct makes an office if there is none; tenant makes one, or fails on the
\* name of the one that is there.
Office ==
    /\ script.at = "office"
    /\ office' = TRUE
    /\ At("clean")
    /\ UNCHANGED <<database, docs, users, runs, replaced>>

CleanMain ==
    /\ script.at = "clean"
    /\ docs' = [docs EXCEPT ![script.main] = Clean]
    /\ IF script.name = "direct" /\ script.all # {script.main} THEN At("others") ELSE Finish
    /\ UNCHANGED <<database, users, office, runs, replaced>>

\* Mutant: the document of the tenant goes with the others.
OthersAll(all, main) == all
Others(all, main)    == all \ {main}

Without(D) == [d \in DocIds |-> IF d \in D THEN NoDoc ELSE docs[d]]

\* Only direct removes the documents of the other users.
DeleteOthers ==
    /\ Is("direct", "others")
    /\ docs' = Without(Others(script.all, script.main))
    /\ Finish
    /\ UNCHANGED <<database, users, office, runs, replaced>>

-----------------------------------------------------------------------------
\* rollback: one new document for every user, whatever is left of the old ones.
RollbackStart ==
    /\ Start("rollback") /\ Migrated # {}
    /\ Go([Nothing EXCEPT !.name = "rollback", !.at = "insert", !.people = Migrated])
    /\ UNCHANGED <<database, docs, users, office, replaced>>

RollbackInsert ==
    /\ Is("rollback", "insert")
    /\ \E p \in script.people, d \in DocIds \ Stored :
          /\ docs' = [docs EXCEPT ![d] = Doc(p)]
          /\ Go([script EXCEPT !.people = @ \ {p}, !.at = IF script.people = {p} THEN "users" ELSE "insert"])
    /\ UNCHANGED <<database, users, office, runs, replaced>>

RollbackUsers ==
    /\ Is("rollback", "users")
    /\ users' = [p \in People |-> None]
    /\ At("office gone")
    /\ UNCHANGED <<database, docs, office, runs, replaced>>

RollbackOffice ==
    /\ Is("rollback", "office gone")
    /\ office' = FALSE
    /\ At("tenant")
    /\ UNCHANGED <<database, docs, users, runs, replaced>>

\* The clean document is known by its createdBy; one is removed.
RollbackTenant ==
    /\ Is("rollback", "tenant")
    /\ IF \E d \in Stored : docs[d].createdBy
       THEN \E d \in Stored : docs[d].createdBy /\ docs' = Without({d})
       ELSE UNCHANGED docs
    /\ Finish
    /\ UNCHANGED <<database, users, office, runs, replaced>>

-----------------------------------------------------------------------------
\* restore: one user of one document, into that document, whoever is in it.
Restore ==
    /\ Start("restore")
    /\ \E d \in Stored, p \in Migrated :
          /\ users[p] = d
          /\ docs' = [docs EXCEPT ![d] = Doc(p)]
          /\ replaced' = replaced \cup ({docs[d].person} \ {None, p})
          /\ Go([Nothing EXCEPT !.name = "restore", !.at = "user", !.people = {p}])
    /\ UNCHANGED <<database, users, office>>

RestoreUser ==
    /\ Is("restore", "user")
    /\ users' = [p \in People |-> IF p \in script.people THEN None ELSE users[p]]
    /\ At("office gone")
    /\ UNCHANGED <<database, docs, office, runs, replaced>>

RestoreOffice ==
    /\ Is("restore", "office gone")
    /\ office' = FALSE /\ Finish
    /\ UNCHANGED <<database, docs, users, runs, replaced>>

\* dedupe: of several documents the oldest stays; no user does.
DedupeStart ==
    /\ Start("dedupe") /\ Cardinality(Stored) > 1
    /\ \E main \in Stored :
          Go([Nothing EXCEPT !.name = "dedupe", !.at = "users", !.main = main, !.all = Stored])
    /\ UNCHANGED <<database, docs, users, office, replaced>>

DedupeUsers ==
    /\ Is("dedupe", "users")
    /\ users' = [p \in People |-> None] /\ replaced' = replaced \cup Migrated
    /\ At("others")
    /\ UNCHANGED <<database, docs, office, runs>>

DedupeOthers ==
    /\ Is("dedupe", "others")
    /\ docs' = Without(script.all \ {script.main})
    /\ replaced' = replaced \cup ({docs[d].person : d \in script.all \ {script.main}} \ {None})
    /\ At("office gone")
    /\ UNCHANGED <<database, users, office, runs>>

DedupeOffice ==
    /\ Is("dedupe", "office gone")
    /\ office' = FALSE /\ Finish
    /\ UNCHANGED <<database, docs, users, runs, replaced>>

-----------------------------------------------------------------------------
\* A write fails, or the script is killed.
Interrupt ==
    /\ script # Nothing /\ Finish
    /\ UNCHANGED <<database, docs, users, office, runs, replaced>>

Next ==
    \/ DirectStart \/ TenantStart \/ Insert \/ Office \/ CleanMain \/ DeleteOthers
    \/ RollbackStart \/ RollbackInsert \/ RollbackUsers \/ RollbackOffice \/ RollbackTenant
    \/ Restore \/ RestoreUser \/ RestoreOffice
    \/ DedupeStart \/ DedupeUsers \/ DedupeOthers \/ DedupeOffice \/ Interrupt

-----------------------------------------------------------------------------
\* Properties.

\* Every variable keeps its shape.
TypeOK ==
    /\ docs \in [DocIds -> {NoDoc, Clean} \cup {Doc(p) : p \in People}]
    /\ users \in [People -> DocIds \cup {None}]
    /\ office \in BOOLEAN /\ runs \in 0 .. MaxRuns /\ replaced \subseteq People
    /\ script.docs \subseteq DocIds /\ script.people \subseteq People

\* Whatever runs after whatever and wherever it is interrupted, a person has a
\* user or a document, unless restore put somebody else in its place or dedupe
\* removed it: neither migration and not the rollback loses anybody.
NobodyLost == People \subseteq Migrated \cup Embedded \cup replaced

\* The document of tenants that a user belongs to exists: no script removes it,
\* or leaves the user behind when it does.
UsersResolve == \A p \in Migrated : users[p] \in Stored

\* No migration and no rollback loses a person or leaves a user without tenant.
PeopleKept == TypeOK /\ NobodyLost /\ UsersResolve

=============================================================================
