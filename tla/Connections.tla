----------------------------- MODULE Connections -----------------------------
(***************************************************************************)
(* The cache of database connections of TenantConnectionService: one       *)
(* connection per tenant, at most MaxCached of them, the least recently    *)
(* used one closed to make room, idle ones closed every minute.            *)
(*                                                                         *)
(* Node runs everything up to an await without interruption: the look into *)
(* the cache, the choice of a victim and the call that begins to close it  *)
(* are one action; the end of the closing and what follows it are others.  *)
(***************************************************************************)
EXTENDS Naturals, FiniteSets, Sequences, Functions

CONSTANTS
    Tenants,     \* names of tenants
    Requests,    \* requests that may ask for a connection at the same time
    MaxCached,   \* MAX_CACHED_TENANT_CONNECTIONS
    Retries,     \* attempts to create a connection
    None,        \* no tenant
    Timer,       \* the periodic cleanup
    Owner,       \* onModuleDestroy
    Traffic      \* how requests may arrive in a run

VARIABLES
    cache,      \* what the map holds for a tenant
    recent,     \* lastUsed: tenants, and requests with the time they asked, oldest first
    asks,       \* the calls of getTenantConnection that wait
    closers,    \* the calls of closeTenantConnection that wait
    raced,      \* tenants for which calls in flight overlap, or have
    lost,       \* tenants that left a connection open and in no map without that
    failed,     \* has a closing failed?
    stopping,   \* is the application shutting down?
    traffic     \* the arrivals this behaviour has

vars == <<cache, recent, asks, closers, raced, lost, failed, stopping, traffic>>

-----------------------------------------------------------------------------
\* Values.

Closers == Requests \cup {Timer, Owner}

\* A call: the tenant it asks for, what it waits for, and its failed attempts.
Idle == [tenant |-> None, at |-> "idle", attempt |-> 0]
Asked(t, at) == [tenant |-> t, at |-> at, attempt |-> 0]
Ask  == [tenant : Tenants \cup {None}, at : {"idle", "evict", "create"}, attempt : 0 .. Retries - 1]

Cached       == {t \in Tenants : cache[t] # "none"}
Asking(r)    == asks[r].at # "idle"
Closer(by, t) == [by |-> by, tenant |-> t]

\* Calls for t that found no connection, and calls that are closing one.
Under(t, a, c) == {r \in Requests : a[r].tenant = t} \cup {x \in c : x.tenant = t}
Overlapping(a, c) ==
    {t \in Tenants : \/ Cardinality(Under(t, a, c)) > 1
                     \/ t \in raced /\ Under(t, a, c) # {}}

\* s without x, which it has once at most.
Place(s, x)   == CHOOSE i \in DOMAIN s : s[i] = x
Without(s, x) ==
    IF x \notin Range(s) THEN s
    ELSE [i \in 1 .. Len(s) - 1 |-> IF i < Place(s, x) THEN s[i] ELSE s[i + 1]]

Refreshed(t)      == Append(Without(recent, t), t)

\* The least recently used tenant of the cache.
First  == CHOOSE i \in DOMAIN recent : recent[i] \in Cached /\ \A j \in 1 .. i - 1 : recent[j] \notin Cached
Oldest == recent[First]

Init ==
    /\ cache = [t \in Tenants |-> "none"]
    /\ recent = <<>>
    /\ asks = [r \in Requests |-> Idle]
    /\ closers = {} /\ raced = {} /\ lost = {} /\ failed = FALSE
    /\ stopping = FALSE
    /\ traffic \in Traffic

\* The ghosts: who overlaps, and whose connection is open and in no map by now.
Calls   == raced' = Overlapping(asks', closers')
Lose(t) == lost' = IF cache[t] = "open" THEN lost \cup ({t} \ raced) ELSE lost

-----------------------------------------------------------------------------
\* getTenantConnection.

\* Mutant: the map is not looked at.
FoundNever(t) == FALSE
Found(t)      == t \in Cached

Hit(r, t) ==
    /\ Found(t)
    /\ recent' = Refreshed(t)
    /\ UNCHANGED <<cache, asks, closers>>

HasRoom       == Cardinality(Cached) < MaxCached

Miss(r, t) ==
    /\ ~Found(t)
    /\ recent' = Append(recent, r)
    /\ IF HasRoom
       THEN /\ asks' = [asks EXCEPT ![r] = Asked(t, "create")]
            /\ UNCHANGED <<cache, closers>>
       ELSE /\ asks' = [asks EXCEPT ![r] = Asked(t, "evict")]
            /\ cache' = [cache EXCEPT ![Oldest] = "closing"]
            /\ closers' = closers \cup {Closer(r, Oldest)}

GetTenantConnection(r) ==
    /\ ~Asking(r) /\ ~stopping
    /\ traffic = "alone" => \A s \in Requests : ~Asking(s)
    /\ \E t \in Tenants : Hit(r, t) \/ Miss(r, t)
    /\ UNCHANGED <<lost, failed, stopping, traffic>>
    /\ Calls

\* The connection is stored with the time at which it was asked for, over
\* whatever the map holds by now.
Create(r) ==
    /\ asks[r].at = "create"
    /\ LET t == asks[r].tenant IN
          /\ Lose(t)
          /\ cache' = [cache EXCEPT ![t] = "open"]
          /\ recent' = [i \in 1 .. Len(Without(recent, t)) |->
                           IF Without(recent, t)[i] = r THEN t ELSE Without(recent, t)[i]]
    /\ asks' = [asks EXCEPT ![r] = Idle]
    /\ UNCHANGED <<closers, failed, stopping, traffic>>
    /\ Calls

\* Mutant: the count starts again at its end.
RetriedForEver(ask) == [ask EXCEPT !.attempt = (@ + 1) % Retries]

\* Another attempt after a second, or an error for the caller.
Retried(ask) == IF ask.attempt + 1 < Retries THEN [ask EXCEPT !.attempt = @ + 1] ELSE Idle

CreateFails(r) ==
    /\ asks[r].at = "create"
    /\ asks' = [asks EXCEPT ![r] = Retried(@)]
    /\ recent' = IF Retried(asks[r]) = Idle THEN Without(recent, r) ELSE recent
    /\ UNCHANGED <<cache, closers, lost, failed, stopping, traffic>>
    /\ Calls

-----------------------------------------------------------------------------
\* closeTenantConnection, after its await.

\* The entry of the tenant goes, whichever connection it holds by now and
\* whether or not there was an error.
Removed(t, error) ==
    /\ cache' = [cache EXCEPT ![t] = "none"]
    /\ recent' = Without(recent, t)

Closed(c) ==
    /\ c \in closers
    /\ \E error \in BOOLEAN :
          /\ error => ~failed          \* bound: one failure
          /\ failed' = (failed \/ error)
          /\ Removed(c.tenant, error)
    /\ Lose(c.tenant)
    /\ closers' = closers \ {c}
    /\ asks' = IF c.by \in Requests THEN [asks EXCEPT ![c.by].at = "create"] ELSE asks
    /\ UNCHANGED <<stopping, traffic>>
    /\ Calls

\* The tenants whose lastUsed is old enough are the first of the order. A
\* cleanup comes a minute after the one before, which has ended by then.
CleanupConnections ==
    /\ ~stopping
    /\ \A c \in closers : c.by # Timer
    /\ \E n \in 1 .. Len(recent) :
          LET idle == {recent[i] : i \in 1 .. n} \cap Cached IN
             /\ idle # {}
             /\ cache' = [t \in Tenants |-> IF t \in idle THEN "closing" ELSE cache[t]]
             /\ closers' = closers \cup {Closer(Timer, t) : t \in idle}
    /\ UNCHANGED <<recent, asks, lost, failed, stopping, traffic>>
    /\ Calls

\* Scripts end with app.close(), when nothing is asked any more: the
\* connections are closed one after the other.
Shutdown ==
    /\ ~stopping
    /\ \A r \in Requests : ~Asking(r)
    /\ stopping' = TRUE
    /\ UNCHANGED <<cache, recent, asks, closers, raced, lost, failed, traffic>>

NextToClose         == Cached

DestroyNext ==
    /\ stopping
    /\ \A c \in closers : c.by # Owner
    /\ \E t \in NextToClose :
          /\ cache' = [cache EXCEPT ![t] = "closing"]
          /\ closers' = closers \cup {Closer(Owner, t)}
    /\ UNCHANGED <<recent, asks, lost, failed, stopping, traffic>>
    /\ Calls

Continue == \/ \E r \in Requests : Create(r) \/ CreateFails(r)
            \/ \E c \in closers : Closed(c)
            \/ DestroyNext

Next ==
    \/ \E r \in Requests : GetTenantConnection(r) \/ Create(r) \/ CreateFails(r)
    \/ \E c \in closers : Closed(c)
    \/ CleanupConnections \/ Shutdown \/ DestroyNext

Spec == Init /\ [][Next]_vars

\* Node runs every continuation that is ready, and the driver ends every close.
Fairness ==
    /\ \A r \in Requests : WF_vars(Create(r) \/ CreateFails(r))
    /\ \A by \in Closers, t \in Tenants : WF_vars(Closed(Closer(by, t)))
    /\ WF_vars(DestroyNext)

FairSpec == Spec /\ Fairness

-----------------------------------------------------------------------------
\* Properties.

\* Every variable keeps its shape.
TypeOK ==
    /\ cache \in [Tenants -> {"none", "open", "closing"}]
    /\ recent \in Seq(Tenants \cup Requests)
    /\ asks \in [Requests -> Ask]
    /\ closers \subseteq [by : Closers, tenant : Tenants]
    /\ raced \subseteq Tenants /\ lost \subseteq Tenants /\ failed \in BOOLEAN
    /\ stopping \in BOOLEAN /\ traffic \in Traffic

\* A connection that is being closed stays in the map only as long as somebody
\* waits to take it out, so no tenant is served a dead connection for good.
ClosingIsWatched ==
    \A t \in Tenants : cache[t] = "closing" => \E c \in closers : c.tenant = t

\* The map never holds more connections than the limit, as long as the requests
\* ask one at a time, wherever the cleanup comes in between.
LimitKept == traffic = "alone" => Cardinality(Cached) <= MaxCached

\* A connection is lost, open and in no map, only after calls for its tenant
\* overlapped: two that found nothing, or two that closed. (One whose closing
\* fails leaves the map as well; whether it is open is up to the driver.)
OnlyRacesLeak == lost = {}

\* Every cached tenant has one time of use, and only calls in flight have another.
OrderExact ==
    /\ IsInjective(recent)
    /\ Range(recent) = Cached \cup {r \in Requests : Asking(r)}

\* Every call for a connection ends, with a connection or with an error.
AsksEnd == \A r \in Requests : Asking(r) ~> ~Asking(r)

\* After a shutdown no connection stays open, but for those lost before.
ShutdownCloses == stopping ~> Cached = {}

\* The map and what hangs on it: the limit, the order of use, connections that are
\* being closed and connections that are lost.
CacheSound == TypeOK /\ ClosingIsWatched /\ LimitKept /\ OnlyRacesLeak /\ OrderExact

\* Every call ends, and a shutdown closes what there is.
CallsEnd == AsksEnd /\ ShutdownCloses

=============================================================================
