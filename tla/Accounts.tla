------------------------------- MODULE Accounts -------------------------------
(***************************************************************************)
(* The users of the platform and the tenants they belong to, from          *)
(* users.service.ts, tenants.service.ts, superadmin.service.ts and the     *)
(* older super-admin.service.ts. Three generations of routes write the     *)
(* same fields of a user: some give it a tenant, some a role, some both.   *)
(***************************************************************************)
EXTENDS Naturals, FiniteSets

CONSTANTS
    Users,       \* e-mail addresses, each with at most one document
    Tenants,     \* ids of tenants
    Names,       \* tenant names
    Callers,     \* requests in flight
    None,        \* the field is absent
    Null,        \* the field is there, with the value null
    Together     \* the kinds of requests that may overlap

VARIABLES
    users,       \* the documents of the collection users
    tenants,     \* the documents of the collection tenants
    calls,       \* what every request is doing
    wasSuper     \* users that assignTenantSuperAdmin once made superadmin

accountState == <<users, tenants, calls, wasSuper>>

Absent   == [tenant |-> None, name |-> None, role |-> None, status |-> None, isActive |-> FALSE, isDeleted |-> FALSE]
NoTenant == [name |-> None, isActive |-> FALSE]
Has(u)   == users[u] # Absent
Founded  == {t \in Tenants : tenants[t] # NoTenant}
Called(n) == {t \in Founded : tenants[t].name = n}

Kinds   == {"assign", "toggle", "found", "rename", "pause"}
Waiting == [kind |-> None, user |-> None, tenant |-> None, name |-> None, isActive |-> FALSE]

Do(r, c) == calls' = [calls EXCEPT ![r] = c]
End(r)   == Do(r, Waiting)
Starting(r, k) ==
    /\ calls[r] = Waiting
    /\ \A q \in Callers : calls[q] # Waiting => {k, calls[q].kind} \subseteq Together

Init ==
    /\ users = [u \in Users |-> Absent] /\ tenants = [t \in Tenants |-> NoTenant]
    /\ calls = [r \in Callers |-> Waiting] /\ wasSuper = {}

-----------------------------------------------------------------------------
\* Users: everything that takes one write.

\* create and createByProvider. A deleted user keeps its address.
Register(u) ==
    /\ ~Has(u)
    /\ users' = [users EXCEPT ![u] =
          [Absent EXCEPT !.role = "user", !.status = "pending", !.isActive = TRUE]]
    /\ UNCHANGED <<tenants, calls, wasSuper>>

\* activateUser asks for nothing.
Activate(u) ==
    /\ Has(u)
    /\ users' = [users EXCEPT ![u].status = "active"]
    /\ UNCHANGED <<tenants, calls, wasSuper>>

\* assignTenant and assignTenantToMultipleUsers: the role and the copy of the
\* tenant's name stay as they are.
AssignTenant(U, t) ==
    /\ \A u \in U : Has(u)
    /\ t \in Founded
    /\ users' = [u \in Users |->
          IF u \in U THEN [users[u] EXCEPT !.tenant = t, !.status = "active"] ELSE users[u]]
    /\ UNCHANGED <<tenants, calls, wasSuper>>

\* assignTenantSuperAdmin: a superadmin has null where others have a tenant.
Promote(u) ==
    /\ Has(u)
    /\ users' = [users EXCEPT ![u].tenant = Null, ![u].name = Null, ![u].role = "superadmin", ![u].status = "active"]
    /\ wasSuper' = wasSuper \cup {u}
    /\ UNCHANGED <<tenants, calls>>

Employ(u, t) ==
    /\ Has(u) /\ t \in Founded
    /\ users' = [users EXCEPT ![u].tenant = t, ![u].name = tenants[t].name, ![u].role = "user", ![u].status = "active"]
    /\ UNCHANGED <<tenants, calls, wasSuper>>

\* Mutant: a superadmin keeps its tenant field.
StrippedKept(user) == [user EXCEPT !.tenant = Null, !.name = Null]
Stripped(user)     == [user EXCEPT !.tenant = None, !.name = None]

\* updateUserSuperAdmin takes the tenant from a new superadmin, and gives none
\* back to one that is no longer.
UpdateRole(u, role) ==
    /\ Has(u)
    /\ users' = [users EXCEPT ![u] =
          [(IF role = "superadmin" THEN Stripped(@) ELSE @) EXCEPT !.role = role]]
    /\ UNCHANGED <<tenants, calls, wasSuper>>

SoftDelete(u) ==
    /\ Has(u)
    /\ users' = [users EXCEPT ![u].isDeleted = TRUE, ![u].isActive = FALSE]
    /\ UNCHANGED <<tenants, calls, wasSuper>>

-----------------------------------------------------------------------------
\* Requests that read first.

\* toggleActiveStatus: of deleted users too.
Toggle(r, u) ==
    /\ Starting(r, "toggle") /\ Has(u)
    /\ Do(r, [Waiting EXCEPT !.kind = "toggle", !.user = u, !.isActive = ~users[u].isActive])
    /\ UNCHANGED <<users, tenants, wasSuper>>

ToggleWrite(r) ==
    /\ calls[r].kind = "toggle"
    /\ users' = [users EXCEPT ![calls[r].user].isActive = calls[r].isActive,
                              ![calls[r].user].status = IF calls[r].isActive THEN "active" ELSE "inactive"]
    /\ End(r)
    /\ UNCHANGED <<tenants, wasSuper>>

Assignable(u) == Has(u) /\ ~users[u].isDeleted /\ users[u].tenant \in {None, Null}

\* assignTenantToUser, the older route: an active tenant for a user without one.
Assign(r, u, t) ==
    /\ Starting(r, "assign") /\ t \in Founded /\ tenants[t].isActive /\ Assignable(u)
    /\ Do(r, [Waiting EXCEPT !.kind = "assign", !.user = u, !.tenant = t])
    /\ UNCHANGED <<users, tenants, wasSuper>>

AssignWrite(r) ==
    /\ calls[r].kind = "assign"
    /\ users' = [users EXCEPT ![calls[r].user].tenant = calls[r].tenant, ![calls[r].user].status = "active"]
    /\ End(r)
    /\ UNCHANGED <<tenants, wasSuper>>

\* createTenant: no index guards the name.
Found(r, n) ==
    /\ Starting(r, "found") /\ Called(n) = {} /\ Founded # Tenants
    /\ Do(r, [Waiting EXCEPT !.kind = "found", !.name = n])
    /\ UNCHANGED <<users, tenants, wasSuper>>

FoundWrite(r) ==
    /\ calls[r].kind = "found"
    /\ \E t \in Tenants \ Founded : tenants' = [tenants EXCEPT ![t] = [name |-> calls[r].name, isActive |-> TRUE]]
    /\ End(r)
    /\ UNCHANGED <<users, wasSuper>>

Renamable(t, n)       == t \in Founded /\ Called(n) \subseteq {t}

\* updateTenant. The users keep their copy of the old name.
Rename(r, t, n) ==
    /\ Starting(r, "rename") /\ Renamable(t, n)
    /\ Do(r, [Waiting EXCEPT !.kind = "rename", !.tenant = t, !.name = n])
    /\ UNCHANGED <<users, tenants, wasSuper>>

RenameWrite(r) ==
    /\ calls[r].kind = "rename"
    /\ tenants' = [tenants EXCEPT ![calls[r].tenant].name = calls[r].name]
    /\ End(r)
    /\ UNCHANGED <<users, wasSuper>>

\* toggleTenantActiveStatus, and deleteTenant, which only pauses the tenant.
Pause(r, t) ==
    /\ Starting(r, "pause") /\ t \in Founded
    /\ \E a \in {FALSE, ~tenants[t].isActive} :
          Do(r, [Waiting EXCEPT !.kind = "pause", !.tenant = t, !.isActive = a])
    /\ UNCHANGED <<users, tenants, wasSuper>>

PauseWrite(r) ==
    /\ calls[r].kind = "pause"
    /\ tenants' = [tenants EXCEPT ![calls[r].tenant].isActive = calls[r].isActive]
    /\ End(r)
    /\ UNCHANGED <<users, wasSuper>>

Next ==
    \/ \E u \in Users :
          \/ Register(u) \/ Activate(u) \/ Promote(u) \/ SoftDelete(u)
          \/ \E t \in Tenants : Employ(u, t)
          \/ \E role \in {"user", "superadmin"} : UpdateRole(u, role)
    \/ \E U \in (SUBSET Users) \ {{}}, t \in Tenants : AssignTenant(U, t)
    \/ \E r \in Callers :
          \/ ToggleWrite(r) \/ AssignWrite(r) \/ FoundWrite(r) \/ RenameWrite(r) \/ PauseWrite(r)
          \/ \E u \in Users : Toggle(r, u) \/ \E t \in Tenants : Assign(r, u, t)
          \/ \E n \in Names : Found(r, n) \/ \E t \in Tenants : Rename(r, t, n)
          \/ \E t \in Tenants : Pause(r, t)

-----------------------------------------------------------------------------
\* Properties.

\* Every variable keeps its shape.
TypeOK ==
    /\ users \in [Users -> {Absent} \cup
          [tenant : Tenants \cup {None, Null}, name : Names \cup {None, Null}, role : {"user", "superadmin"},
           status : {"pending", "active", "inactive"}, isActive : BOOLEAN, isDeleted : BOOLEAN]]
    /\ tenants \in [Tenants -> {NoTenant} \cup [name : Names, isActive : BOOLEAN]]
    /\ \A r \in Callers : calls[r].kind \in Kinds \cup {None}
    /\ wasSuper \subseteq Users

\* Two tenants never have the same name, and with it the same database.
TenantNamesUnique == \A n \in Names : Cardinality(Called(n)) <= 1

\* Every user in service without a tenant is on the list of users to give one to,
\* or is a superadmin. Except a former superadmin: its null counts as a tenant, and
\* it is among the users that have one, with nothing to show for it.
Listed ==
    \A u \in Users :
        (Has(u) /\ ~users[u].isDeleted /\ users[u].isActive /\ users[u].tenant \notin Tenants)
            => users[u].tenant = None \/ users[u].role = "superadmin" \/ u \in wasSuper

\* Users and tenants fit together.
AccountsFit == TypeOK /\ TenantNamesUnique /\ Listed

=============================================================================
