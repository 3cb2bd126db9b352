-------------------------- MODULE MCAdministration --------------------------
(***************************************************************************)
(* What is kept outside the databases of the tenants, for TLC: the         *)
(* warehouses of a country (Warehouses), the connections to the databases  *)
(* (Connections), and the users and tenants (Accounts). They share no      *)
(* state, so in a behaviour one moves, and the others stay where they are. *)
(***************************************************************************)
EXTENDS Warehouses, FiniteSets

CONSTANTS Callers, Tenants, MaxCached, Retries, None, Timer, Owner, Traffic,
          Users, Companies, Names, Null, Together

ASSUME ConnectionConstants ==
    /\ MaxCached \in Nat \ {0} /\ Retries \in Nat \ {0}
    /\ Timer # Owner /\ {Timer, Owner} \cap Callers = {}
    /\ Tenants \cap (Callers \cup {None}) = {}
    /\ Traffic \subseteq {"alone", "together"}

VARIABLES
    part,
    cache, recent, asks, closers, raced, lost, failed, stopping, traffic,
    users, tenants, calls, wasSuper

Cache   == INSTANCE Connections WITH Requests <- Callers

\* There are finitely many of both, and no request is a call of closeTenantConnection.
ASSUME CallersAssumption ==
    /\ IsFiniteSet(Callers) /\ IsFiniteSet(Tenants)
    /\ Callers \cap [by : Cache!Closers, tenant : Tenants] = {}

Account == INSTANCE Accounts WITH Tenants <- Companies

\* None is neither the name of a tenant nor a kind of request.
ASSUME AccountConstants == None \notin Names \cup Account!Kinds

\* A field of spaces passes @IsNotEmpty and is blank to isWarehouseComplete.
NoneBlank == {{}}
AnyBlank  == SUBSET Fields

\* Everything the routes of warehouses offer but the deprecated PATCH, and crashes.
CurrentOrCrash == {"initialize", "create", "data", "delete", "toggle", "crash"}

cacheVars   == <<cache, recent, asks, closers, raced, lost, failed, stopping, traffic>>
accountVars == <<users, tenants, calls, wasSuper>>
all         == <<part, vars, cacheVars, accountVars>>

WarehousesStep  == part = "warehouses" /\ Next /\ UNCHANGED <<part, cacheVars, accountVars>>
CacheStep(Step) == part = "cache" /\ Step /\ UNCHANGED <<part, vars, accountVars>>
AccountStep     == part = "accounts" /\ Account!Next /\ UNCHANGED <<part, vars, cacheVars>>

PartInit ==
    /\ part \in {"warehouses", "cache", "accounts"}
    /\ Init /\ Cache!Init /\ Account!Init
    /\ part # "cache" => traffic = "alone"
PartNext == WarehousesStep \/ CacheStep(Cache!Next) \/ AccountStep

\* The fairness of Connections.
PartFair ==
    /\ \A r \in Callers : WF_all(CacheStep(Cache!Create(r) \/ Cache!CreateFails(r)))
    /\ \A by \in Cache!Closers, t \in Tenants : WF_all(CacheStep(Cache!Closed(Cache!Closer(by, t))))
    /\ WF_all(CacheStep(Cache!DestroyNext))

PartSpec == PartInit /\ [][PartNext]_all /\ PartFair

\* No connection is lost, and the limit is kept, unless calls overlap (see Connections).
CacheSound == Cache!CacheSound

\* Every call for a connection ends, and the shutdown closes all (see Connections).
CallsEnd == Cache!CallsEnd

\* Users and tenants fit together (see Accounts).
AccountsFit == Account!AccountsFit

=============================================================================
