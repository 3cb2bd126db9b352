# First Plug platform API: a verification project in TLA+

The API (NestJS, MongoDB through Mongoose, one database per tenant) keeps a
company's assets: who has each product, where it is, and how it travels between
employees, offices and the First Plug (FP) warehouse. This directory models what
of it is hard to get right by testing. TLC checks the models on small instances;
TLAPS proves, for every value of the constants, the theorems of section 4.

## 1. Inventory

### The parts and how they interact

| part | state it keeps | operations | properties that make it correct |
|---|---|---|---|
| **Shipments** (`shipments.service.ts`) | the `shipments` collection: status, ends, products, dates, copies of both addresses, `isDeleted` | create or consolidate, reschedule (and merge), cancel | a product is in one shipment under way; a merge loses nothing; a final status is final |
| **Logistics** (`logistics.sevice.ts`) | none of its own: it writes shipments, products, members | the consequences of every change: product status, the `activeShipment` flags, copied addresses | flags, statuses and copies agree with the shipments |
| **Address listeners** (`shipments/listeners`) | events waiting | a member's or an office's address has changed | the copies inside editable shipments are fresh, their status follows |
| **Products**, **Assignments** (`products.service.ts`, `assignments.service.ts`) | the `products` collection, `members.products[]` | create, import, edit, move, offboard, reassign, delete | a product is in exactly one document, a serial number in one product, nothing is lost with a member |
| **Members** | names, e-mails, addresses, `activeShipment`, team, products | create, import, edit, delete | no product waits for a member that is there; no edit while a shipment is on its way |
| **Offices** (`offices.service.ts`) | the `offices` collection, `isDefault` | set up, create, edit, toggle default, delete | one live default office; a deletion is whole; names reach products and copies |
| **Warehouses** (`warehouses.service.ts`) | one document per country with an array of warehouses | create, edit, complete, activate, deactivate, delete, initialise a country | at most one active warehouse, and a complete one |
| **Placement** (warehouse assignment, `lastAssigned`, name synchronisation) | office, warehouse and location of products | choose a warehouse, spread a new name | a product is in one kind of place, in the country it came from; names arrive |
| **Global collection** (`global-product-sync.service.ts`) | a copy of every product across tenants | upsert after each change, mark as deleted | agrees with the product |
| **Tenant connections** (`tenant-connection.service.ts`) | a cache of database connections | get, evict, close when idle, shut down | none lost, not above the limit, every call ends |
| **Order and quote numbers** | two counters per tenant | next number; rewrite an order id | no number twice; an id keeps its number |
| **Quotes** and their **attachments** | `quotes`, images in Cloudinary | upload, add, delete, cancel and clean up | live quotes keep their images, cancelled ones lose them |
| **Teams** | `teams`, `members.team` | create, import, share, delete | references resolve, names and colours differ |
| **Users and tenants** | `users`, `tenants` | register, activate, assign, promote, pause, delete | nobody falls off every list; tenant names differ |
| **Scripts** (`scripts/`, `src/src/scripts/migration`) | all of the above | migrate, roll back, backfill, correct; interrupted and run again | nobody lost; each script keeps what it promises |
| **Auth, history, orders, metrics, mail, Slack, storage** | simple documents or none | create, read, send | no protocol among them |

A request enters through a controller, runs in a service, and calls other services;
between any two database calls there is an `await`, where other requests run. The
transactions the code opens (`startTransaction`, `withTransaction`) cover some of the
calls: an assignment uses two, a cancellation none, and the copies in the global
collection are written from within a transaction but are no part of it. Edits of
addresses, warehouses and offices emit events on EventEmitter2 whose listeners run
afterwards, on their own. Nothing retries or repairs what a crash has cut short.

### What is hard

* one fact in many copies: the status of a shipment decides the status and flag of
  every product in it and the flags of both its ends, and is itself decided by copies
  of two addresses; the name of an office or a warehouse stands in every product in
  it, and again in the global collection;
* read, await, write: checks are made on documents that were loaded earlier;
* a shipment knows a member by the full name and the e-mail the member had when it was made,
  and is looked for by those of today;
* moves between two collections are an insert and a delete, and the delete looks for
  an e-mail, not for the document that was read;
* the two transactions of an assignment, with other requests between them;
* copies written before a commit that may fail;
* events handled after, between and in another order than the requests that cause them;
* flags that must be unique (default office, active warehouse) kept by clear and set;
* Mongoose saves only the changed fields, and compares versions only sometimes;
* scripts that write one document at a time and are run again after an interruption;
* a crash between two saves.

`PROJECT.json` lists each of them as a hazard, at its line, with the property that
would catch it or the reason why none does.

## 2. The modules

| module | models |
|---|---|
| `Shipments` | shipments, logistics, moves with and without a shipment, and what of members, offices, superadmin and the address listeners touches a shipment |
| `Catalog` | where products are stored, member documents, copies; overlapping transactions |
| `Custody` | what the catalog promises; `Catalog` implements it |
| `Placement` | office, warehouse and location of a product, names of warehouses |
| `Snapshots` | the snapshots a shipment keeps of its products, and the listener that renews them |
| `Offices` | the offices of a tenant, the default one, their names in products and copies |
| `Warehouses` | the warehouses of one country |
| `Connections` | the cache of tenant connections |
| `Numbers` | the counters of quotes and orders, and order ids |
| `Quotes` | quotes and images |
| `Teams` | teams and who is in them |
| `Accounts` | users and tenants |
| `Migration`, `Backfill`, `Corrections` | the scripts |
| `MCShipments`, `MCOffices`, `MCCatalog` | sets of operations and statuses, and symmetry, for the runs |
| `MCPlacement` | `Warehouses`, `Placement` and `Snapshots` for one run |
| `MCAdministration` | `Warehouses`, `Connections` and `Accounts` for one run |
| `MCDesk` | `Numbers`, `Quotes` and `Teams` for one run |
| `MCMigrations` | the three modules of scripts for one run |
| `Shipments_proofs`, `Placement_proofs`, `Offices_proofs`, `Administration_proofs`, `Catalog_proofs`, `CatalogCopies_proofs`, `Desk_proofs`, `Migrations_proofs` | the theorems |

Modules that meet in an MC module share no state: its variable `part` says which of
them moves in a behaviour. They divide the life of a product as the code's concerns
divide: `Shipments` has who holds it, its status and its locks; `Catalog` its document,
its serial number, its deletion and its copy; `Placement` its location; `Offices` the
name of its office. What one of them leaves out, another has.

All follow one pattern. A request is a little process, `requests[r]` (`calls[r]`) says
where it is and what it has read; reads that directly follow one another are one
action, a write or a transaction is an action of its own, and where a module has
crashes the process may die between any two. Most define, beside each operator of
interest, what it would be with a plausible mistake in it; such definitions are marked
"Mutant" and used only to see that a property notices.

### Shipments

State and code:

| variable | in the code |
|---|---|
| `shipments` | the collection, in order of creation. An address is reduced to "is it complete?", both desirable dates to one date |
| `products` | a product wherever it is stored: `holders` is the set of documents that contain it (a place in the pool, or a member), with its status and two flags |
| `flagged` | `activeShipment` of a member, `activeShipments` of an office |
| `complete` | is the stored address of a member or office complete? |
| `called` | the full name and the e-mail of a member, numbered from 0 for each |
| `events` | emitted address events whose listener has not run; those about members carry the e-mail |
| `requests` | where each request in flight is, with what it has read |
| `renamed` | not in the code: the members who were given another name or e-mail while flagged |

A shipment refers to an office by its id and to a member by strings: `origin` and
`destination` hold the full name, the details an e-mail, both as they were when the
shipment was made (`originCalled`, `destinationCalled`). The listener looks for shipments
by the present name (`AtOrigin`, `AtDestination`), flags are cleared by the stored e-mail
(`HasEmail`, `Reached`) or, for the owner of a product, by either (`HasName`), and a product
joins a shipment between the same names (`Consolidatable`).

Actions and code: `Prepare`, `Consolidate`, `Create`, `Abort` and `Settle` are
`ProductsService.update` with `fp_shipment` (the reads, the first transaction in its
two outcomes, its failure, and the second transaction); `Move` is the same without a
shipment, one transaction. `Load` is the check with which a cancellation, a reschedule
or a superadmin's status change begins, `Cancel`, `SetStatus`, `FindTarget`,
`SaveTarget`, `DeleteMerged` and `Redate` its saves. What these owe afterwards is a list
of tasks, each a read (`Count`, `ReadProduct`, `FindHolder`) and then a write
(`WriteFlag`, `WriteProduct`), in the order the code calls them. `UpdateMember`,
`CheckOffice` and `UpdateOffice` edit an address (`UpdateMember` the name and the e-mail as
well), `UpdateDefaultOffice` that of the default office, without a check; `HandleEvent` is
the listener, one transaction.
`Patch` is the status written by the older super-admin API (`auth/super-admin`), which
checks nothing and leaves every flag as it is. `Crash` ends a request anywhere.

The first transaction of an assignment saves the product, so MongoDB aborts it if the
product has changed since it was read: `products[p] = seen` is a guard, and `Abort` is the
other outcome. Saves outside a transaction are blind, as in the code. Two members never
have the same name or the same e-mail at one time. Two listed simplifications: a change of
the address that leaves it as complete as it was changes nothing here, and a product
settled while its holder's e-mail changes keeps the old `assignedEmail` in the code, which
only `Catalog` has (`astray`).

### Warehouses

One document per country. Every operation loads it (`Load`), changes the array in
memory (`WithNew`, `WithData`, `Edited`, `Deleted`, `Activated`, `Deactivated`) and
saves (`Save`). `Save` does what Mongoose does: a pure push is sent as `$push` and
bumps the version; changes of elements are sent as `$set` of those fields, are refused
if the version is not the loaded one, and do not bump it; both together send the whole
array. A required field is blank or not; the model treats a required field that was
filled and stays filled as not sent, so an edit that replaces one text by another does
not restore what another request has blanked meanwhile. `deactivateWarehouse` has no
route and no caller and is not modelled. The soft-delete plugin of the tenants' models
(a library) is external: `findById` does not find deleted documents.

### Catalog and Custody

`pool` is the products collection, `people` the members with the products embedded in
them, `copies` the global collection. A handler begins a transaction (`Begin` takes a
snapshot), reads and writes its view of the two collections, and commits. MongoDB's rule
is external: whoever writes a document that another holds, or that has changed since the
snapshot, is aborted (`Conflict`). Copies are written at once, in the actions between.
`CreateLook`/`CreateWrite`, `ImportLook`/`ImportWrite`, `StockLook`/`StockWrite` and
`SupplyLook`/`SupplyWrite` create products by the four routes; a body may have blanks
around a serial number of `Spaced`, and then the look-up, made with what was typed, finds
nothing (`Overlooked`), while the number is stored trimmed; `EditLook` with `EditInPool`
or `EditInMember` change one; `Ordered` and `MoveItem` are the moves, one or several
(`Relocations` offboards a member, `Reassignments` is the bulk route), by way of
`FromPool`, `FromMember`, `ToMember`, `ToPool` and `Giving`; `DeleteWrite`, `DeleteMark`
and `DeleteDetach` delete; `JoinWrite`, `EnrolWrite` and `EnrolAttach` create members and
attach the products that wait for their e-mail; `ReaddressWrite` and
`DismissLook`/`DismissWrite` change and delete them. The soft-delete plugin (a library)
excludes deleted documents from `find` and `count` only; `findOne`, `findById` and
`updateMany` see them, and the model does too.

`Custody` knows one variable, where each product is. `Catalog!Kept` maps the two
collections to it: what requests commit makes products appear once, moves them in
single steps and never brings a deleted one back.

### Placement

A product has a location, an office, a warehouse (`stock`: country, which one, name,
status) and what it was last assigned to (`Leaving`, the `lastAssigned` helper). A move
is `MoveWithinPool`, `MoveToPool` or `MoveToMember`, then `CopyMove` and `CommitMove`.
`Origin` is `assignWarehouseIfNeeded`, `Opened` and `Chosen` choose a warehouse of the
country. `Rename` (the route of today) and `RenameSilently` (the deprecated PATCH, which
announces nothing) save a new name, `NewName`, and `Toggle` is the superadmin's too;
`SpreadToCopies` and
`SpreadToTenant` the listener of a new name, which nobody waits for; `Arrive` is the
receipt of a shipment as far as it writes the copy.

### Snapshots

One shipment, the products it may carry and their snapshots. `Join` and `Settle` are the
two transactions of an assignment, the second of which takes the snapshot; `EditLook`,
`EditWrite` and `Announce` are `updateEntity`, which emits an event; `ListenProduct`,
`ListenShipment` and `ListenSave` the listener, of which several runs may overlap, and
`TimePasses` the end of the two seconds in which it drops further events of a product.
`Readdress` and `SetStatus` change the status. `version` is Mongoose's `__v`: a snapshot
is replaced in its place only if no array has grown since, and added in any case.
`behind` remembers the products whose snapshot the code gives up on (see below).

### Offices

Every handler of `offices.service.ts` in its order of reads and writes, with the CSV
coordinator and the superadmin's `updateTenantOffice`: making sure a default office
exists, clearing the flag everywhere before it is set, renaming and passing the name on
to products and copies, and the deletion, which destroys the non-recoverable products
of the office before it asks for active shipments. `refused` and `bypassed` remember
the offices whose deletion was refused and those renamed by the route that passes
nothing on.

### Connections

`cache` is the map; what runs between two awaits is one action: the look-up with the
choice of a victim and the call that begins to close it. `Create`, `CreateFails` (with
its retries) and `Closed` are the continuations; `CleanupConnections` runs every
minute, `Shutdown` and `DestroyNext` are `onModuleDestroy`. `lastUsed` is an order of
use: a call takes its time before it inserts, so it stands in the order itself.

### Numbers, Quotes and Teams

`Numbers` has the atomic `$inc` of quotes and the read-then-write of orders in a
transaction, and the rewriting of an order id from its last four characters. The four
digits are three numbers in the run, so that they are exceeded. `Quotes` has the images
of an IT Support service: upload, adding and deleting one, cancellation with its
clean-up in the background, and failures of Cloudinary and of the database. A push into
an element of a `Mixed` array stores nothing, for Mongoose does not notice it; the
images of such an upload are `stray`. `Teams` has every route of teams and the parts of
`members.service.ts` that give a member a team; the import draws colours in a loop.

### Accounts

`users` and `tenants`. A dozen routes of three generations give users a tenant, a role
or a status, each looking at other fields, and write an absent tenant as absent or as
`null`. `wasSuper` remembers former superadmins.

### Migration, Backfill, Corrections

Each script is a procedure: a stage, what is left to do, what it has read. Any may be
interrupted between two writes and started again, in any order with the others.
`Migration` moves people between `tenants` and `users` and back; scripts name their
database, and not all the same one. `Backfill` gives products warehouses, offices and
copies, while the application moves products between the scripts and during those of
`Serving`. `Corrections` turns names of countries into codes and fills in conditions.

## 3. What the runs check

All bounds are in the configurations. One product is enough for what concerns a single
product; two are used where products share a shipment, an office or a serial number. There
is one member (two for relocations and for products that change hands), and in `moves` one
office and the warehouse as well, so that every kind of move exists; in `lifecycle` the
member has two names and two e-mails (`MaxNames`) to take in turn. Two shipments allow
consolidation and a second shipment of one product, three allow a merge beside a third.
With one request in flight the runs interleave it with the listeners and, where the run
says so, with crashes; with two they interleave requests at every await. The required
fields of a warehouse are alike, so one field stands for the five; three warehouses are
needed for a choice among candidates.

| run | states | shows |
|---|---|---|
| `lifecycle` | 0.5 M | with one request at a time and listeners at any moment, while the member's name, e-mail and address change: every flag, copy and status agrees with the shipments when all is quiet, final statuses are final; under `FairSpec`, requests end and changed addresses arrive |
| `statuses` | violation | the listener puts a shipment on hold that a superadmin is sending |
| `rescheduling` | 0.9 M | between an office and the warehouse, merging on two dates loses no product at either save; a product on its way stays; no product is left in two shipments |
| `moves` | 5.8 M | all kinds of moves, while the addresses of members and offices are edited, the default office's too: nothing stays locked, flags of members and offices are exact, and shipments have the addresses of their ends |
| `concurrent` | 2.7 M | two requests over one product and two members, interleaved at every await and dying anywhere, with cancellations and shipments ended by a patch: one holder |
| `catalog` | 3.9 M | one home for a product in every traffic; serial numbers (one of them typed with blanks), copies and waiting products when requests come one after the other; `Custody` is implemented |
| `initialization` | 1.9 M | two requests and a new country: it gets its default warehouse. Products through the warehouses of two countries, offices and members: place, copy and name of the warehouse agree. Products edited while they are shipped: one snapshot for each, which comes to tell what the product is |
| `offices` | 7.9 M | one live default office, unique names, whole deletions, names that arrive: one request at a time with crashes, or two at a time without deletions |
| `administration` | 0.2 M | warehouses one request at a time with crashes: one active, complete, replaced if it can be, deleted ones stay deleted. Connections: none lost but by a race, every call ends. Users and tenants fit |
| `desk` | 1.1 M | numbers unique and kept by order ids; live quotes keep their images, cancelled ones lose them in the end; teams and members fit and imports end |
| `migrations` | 4.6 M | every script interrupted anywhere and run again in any order: nobody lost, promises kept, corrections complete |
| `member_edited` | violation | the address of a member is edited while a shipment to it is on its way |

Other bounds, and why they suffice. `offices`: three offices (two live ones and one that
is deleted), two names, so that they collide. `catalog`: two products, one of which must
be given back, two members, three e-mails so that one belongs to nobody; two serial
numbers, one of which is sometimes typed with blanks, given in the traffic `assets` only,
whose requests come alone, for of overlapping ones nothing is said about numbers; that
traffic begins with every member employed. `initialization`: one product moves and
another, of another tenant, stays in the warehouse of Argentina, so that a new name has
two tenants to reach; one new name for each warehouse, one copy that fails to be written,
one crash; a shipped product is not moved before it arrives; two edits of two products
that a shipment may carry, so that one comes too soon and one is overtaken by the growth
of the shipment, and one failure. `administration`: three tenants for a cache of two.
`desk`: four numbers with three that "four digits" tell apart. `migrations`: two persons,
two products, five scripts per behaviour.

Deadlock is checked where a system with nothing in flight can always take another
request: in all runs of `MCShipments` that pass. In the others ids, names or numbers run
out, a script is the last, or the application shuts down.

Symmetry is used where no action tells values apart and no liveness is checked:
products and dates in `rescheduling`, requests and e-mails in `catalog`, names, requests
and offices in `offices`.

### Where the code and the repository disagree

Two runs are there for a violation, each with one request at a time.

`member_edited`: `validateIfMemberCanBeModified` (`logistics.sevice.ts:108`) looks for an
e-mail in fields that hold names, so the refusal its message promises (line 120) never
happens, and the address of a member changes while a shipment to the member is on its way.

`statuses`: a superadmin sends a shipment (`superadmin.service.ts:328` checks what was
loaded). Before the status is written a listener finds the address no longer complete and
puts the shipment and its product on hold. "On The Way" is then written over "On Hold", and
the product stays "In Transit - Missing Data", where the table at `.augment-config.md:532`,
under the heading "Sincronización Obligatoria" (line 526), has "In Transit".

The passing runs are bounded by more of the kind. Each of these is a change of
constants of the run (or of a set its MC module defines), and TLC then refutes the property
named, if need be added to the run; they say why a run leaves an operation out:

| change | refuted | because |
|---|---|---|
| `statuses`: two requests, only `{"assign", "cancel"}`, no listener therefore | `ProductStatusMatchesShipment` | a cancel between the two transactions of an assignment (`logistics.sevice.ts:333`): In Transit is written over what the cancel reset, with no shipment left, contrary to the table at `.augment-config.md:530` |
| `rescheduling`: two requests, `{"assign", "reschedule"}`, a member, three products | `MergeLosesNothing` | a product joins a shipment that is being merged away (`shipments.service.ts:746`) and is in none, though the answer at line 808 says it is consolidated |
| `moves`: two requests, `{"relocate"}`, three members | `OneHolder` | two relocations of one product write different documents (`assignments.service.ts:1144`) and both keep it; `.augment-config.md:1430` asks that there be no duplicates |
| `concurrent`: without `"crash"` and `"patch"`, deadlock not checked | `OneActiveShipmentPerProduct` | a cancellation counts the shipments of a product and unlocks it in two steps (`logistics.sevice.ts:1318`); one that is shipped in between loses its lock and may be shipped again |
| `administration`: two requests for warehouses | `AtMostOneActive` | two activations from one version of the document (`warehouses.service.ts:1034`), contrary to `docs/WAREHOUSE-UPDATE-SUMMARY.md:80` |
| `rescheduling`: a member, `"assign"` and `"return"` | `OneActiveShipmentPerProduct`, `OnTheWayStays` | an employee's product in a shipment in preparation may be returned, contrary to `.augment-config.md:665`; the guard then sees one of its two shipments |
| `statuses`: only `{"assign", "setStatus"}`, `SetStatuses <- AllButPreparation` | `ProductStatusMatchesShipment` | a superadmin's "On Hold" leaves the products In Transit |
| `lifecycle`: `"patch"` | `TerminalIsFinal` | the older super-admin API writes any status over any other |
| `lifecycle`: a second request | `TerminalIsFinal`, `FlagsExact` | check and write, or count and write, are not one step |
| `lifecycle`: `"crash"` | `FlagsExact` | nothing completes what was cut short |
| `administration`: `"edit"` | `ActiveKept` | the deprecated PATCH deactivates without looking for another |
| `administration`: `NewBlanks <- AnyBlank` | `ActiveIsComplete` | a warehouse is created active with a field of spaces |
| `administration`: `"found"` in `Together`, or `"rename"` and a third name | `AccountsFit` | no unique index on the name of a tenant, which is looked up first |
| `initialization`: `"crash"` | `CountryHasWarehouse` | a country is made in two saves |
| `initialization`: two `Editors` | `SnapshotsFit` | an edit looks whether its product is in a shipment, the product joins one and has its snapshot taken, and the edit, written between or after, is announced to nobody (`products.service.ts:1482`) |
| `offices`: `"unset"` in `DefaultChanges` | `OfficesFit` | `PATCH /offices/:id` may take the flag from the default office and hand it to none |
| `catalog`: `"deleted"` in `Addresses` | `ProductsFit` | `findOne` finds deleted members, and a product is given to one |
| `catalog`: `"move"` in the traffic `together` | `OneHome` | two moves of an employee's product insert it in two places and take it from one |
| `catalog`: a traffic `{"create", "return", "move", "readdress", "join", "delete"}`, three members, four e-mails | `Implements` | a move looks for the giver by e-mail and leaves a product that has an old one with its member as well (`astray`); deleted in the pool, it is back with the second holder |
| `desk`: `"create"`, `"import"`, `"delete"` or `"bulk"` in `Together` | `TeamsFit` | two requests choose one free colour, or a member joins a team between the look at its members and its deletion |
| `migrations`: `"phase3"` or `"types"` in `Serving` | `PromisesKept` | the script writes a copy of a product that has moved on, or leaves a text where the application has written a copy with an id since the script looked |

### What the properties leave out

A property that is true of the code only with an exception names it, and TLC refutes it
without. `renamed` members, given another name or e-mail while their flag is up, lose their
shipments: the listener looks for shipments by the present name (`logistics.sevice.ts:1826`)
and finds none, a change of the name alone is announced to nobody, and the flag is cleared
by the e-mail a shipment has stored (`logistics.sevice.ts:1580`), which may be nobody's
any more. Copies then stay old and flags up with one request at a time
(`EndFlagsExact`, `DetailsFresh`, `AddressesArrive`). A serial number of `Spaced` may be
stored twice: `products.service.ts:345` looks it up as typed and line 383 stores it trimmed,
and the routes of the superadmin do likewise (`superadmin.service.ts:1182`). The new name of a
warehouse does not arrive (`NamesArrive`) if it is `missed`, saved by the deprecated PATCH
(`warehouses.service.ts:695`), which emits no event, or its news died with the process; nor
in a product that is `crossed`, on its way to the warehouse while the name changed, or
edited while it spread: such a product writes the old name back. `astray` products
(with another e-mail than their member) may have two homes, for `removeProductFromMember`
looks for the e-mail. `undone` ones have the copy of a move that was aborted afterwards.
Former superadmins (`wasSuper`) have a tenant of `null`, which counts as one. Offices
renamed by the route of the default office (`bypassed`) pass no name on. A deletion that
was `refused` has destroyed products. The connections of `LimitKept` are asked for one at
a time: overlapping calls exceed the limit that the comment at `tenant-connection.service.ts:9`
states. A product that was `edited` while it was shipped writes "in transit" back into its
copy. From number 10000 on, an order id is rewritten with its last four digits only
(`logistics.sevice.ts:2543`), so ids may lose their number or be refused. A snapshot may
stay `behind` when two edits of a product come within two seconds, when a run of the
listener overlaps with another edit, a change of status or the growth of its shipment
(the `VersionError` is only logged), or when the edit comes while the shipment is on its
way; attributes alone are never compared.

Met on the way, and built into the models as the code has it: `PATCH /offices/default`
edits the address of an office without a look at its shipments, contrary to
`.augment-config.md:944`; the listener of members' addresses also rewrites shipments that
were merged away and deleted; the first of two quotes that create the counter together
fails at `quotes.service.ts:267`; images of a single upload stay in no quote; the import
of teams never ends when the file needs more colours than are free; `PUT
/:memberId/change-member/:teamId` swaps its arguments and cannot succeed; a product
created in "Our office" without an `officeId` names no office (`products.service.ts:371`),
while an import takes the default one; `fix-product-condition` sets "Optimal" in the
copies of members' products, whatever the products say; `multi-office-enhanced` looks for
the global collection in another database; `migrate-direct` refuses for ever after a crash
past its first insert, and its rollback works on another database;
`cleanup-duplicate-global-products` stops at a product whose newest copy has a text for an
id, until `fix-tenantid-types` has run.

### Fairness

`FairSpec` of `Shipments` assumes weak fairness of the steps with which a request goes on
and of the listener: Node runs every callback that is ready, and MongoDB answers or
fails. Weak fairness is enough, since only a request itself disables its next step: its
own step (`Continue`) and its failure (`Abort`) are taken together. For the same reason
`Connections` assumes it of the end of a creation (success or failure together), of the
end of a closing and of the loop of the shutdown, and `Quotes` of the clean-up that runs
in the background. No fairness is assumed of requests arriving, of the periodic cleanup,
and none of crashes or failures.

## 4. What is proved

| theorem | assumptions | statement |
|---|---|---|
| `Shipments_proofs!TypeCorrect` | those on the constants | `Spec => []TypeOK`, any number of requests |
| `Shipments_proofs!StatusFollows` | no rescheduling; the superadmin sets no editable status | `Spec => []StatusFollowsDetails`, any number of requests, crashes and events |
| `Shipments_proofs!OneHolderAlways` | `HolderAssumption`: relocations only if `Serial` | `Spec => []OneHolder`, any number of requests and crashes |
| `Shipments_proofs!OneActiveAlways` | `TravelAssumption` | `Spec => []OneActiveShipmentPerProduct` |
| `Shipments_proofs!OnTheWayAlways` | `TravelAssumption` | `Spec => OnTheWayStays` |
| `Shipments_proofs!MergesLoseNothing` | `TravelAssumption` | `Spec => MergeLosesNothing` |
| `Shipments_proofs!LetGoAlways` | `FlagsAssumption`: one request at a time (`Serial`), no `Patch`, no `Crash` | `Spec => []LetGo` |
| `Shipments_proofs!FlagsExactAlways` | `FlagsAssumption`, `TravelAssumption` | `Spec => []FlagsExact` |
| `Shipments_proofs!DescribesEndsAlways` | these two and `DetailsAssumption` | `Spec => []ShipmentDescribesEnds` |
| `Placement_proofs!PlacesAlwaysFit` | those on the constants | `PartSpec => []PlacesFit`, any number of products, offices, members and countries, renamings at any moment, a lost copy and a crash included |
| `Placement_proofs!SnapshotsAlwaysFit` | `OneEditor`: one edit or assignment at a time | `PartSpec => []SnapshotsFit`, any number of products, edits, overlapping runs of the listener and changes of status, a failure included |
| `Offices_proofs!OfficesAlwaysFit` | `KeepsDefault`: no `"unset"` in `DefaultChanges` | `Spec => []OfficesFit`, crashes included |
| `Offices_proofs!DeletionsAlwaysWhole` | those on the constants | `Spec => []DeletionsWhole`, crashes included |
| `Offices_proofs!OfficesAlwaysAgree` | those on the constants | `Spec => []OfficesAgree` |
| `Administration_proofs!TypeCorrect` | those on the constants | `Spec => []TypeOK`, any number of requests |
| `Administration_proofs!OneActive` | `Serial` | `Spec => [](AtMostOneActive /\ HasActiveExact)` |
| `Administration_proofs!ActiveComplete` | `Serial`, no new warehouse with a blank field | `Spec => []ActiveIsComplete` |
| `Administration_proofs!KeepsActive` | `Serial`, no `Edit` | `Spec => ActiveKept` |
| `Administration_proofs!HasWarehouse` | no `Crash` | `Spec => []CountryHasWarehouse`, any number of requests |
| `Administration_proofs!AccountsAlwaysFit` | `NamesAssumption`: neither `"found"` nor `"rename"` in `Together` | `PartSpec => []AccountsFit`, any number of users, tenants and requests |
| `Administration_proofs!CacheAlwaysSound` | finitely many tenants and requests | `PartSpec => []CacheSound`, any number of them and any limit |
| `Catalog_proofs!TypesKept` | `OverlapAssumption` | `Spec => []TypeOK`, any number of overlapping requests |
| `Catalog_proofs!ProductsHaveOneHome` | `OverlapAssumption` | `Spec => []OneHome`, any number of overlapping requests |
| `Catalog_proofs!CatalogKeepsCustody` | `CustodyAssumption`: `OverlapAssumption`, and requests that come one at a time do not both delete products and give members other e-mails | `Spec => Implements`, any number of products, members and overlapping requests |
| `Catalog_proofs!ProductsAlwaysFit` | `ProductsAssumption`: `OverlapAssumption`, no product created under the e-mail of a deleted member | `Spec => []ProductsFit`, any number of products, members and requests, a failure included |
| `CatalogCopies_proofs!CopiesAlwaysAgree` | `OverlapAssumption` | `Spec => []CopiesAgree`, any number of products, members and requests |
| `Desk_proofs!NumbersAlwaysTell` | those on the constants | `Spec => []NumbersTell`, any number of requests |
| `Desk_proofs!ImagesAlwaysFit` | those on the constants | `PartSpec => []ImagesFit`, any number of quotes, images and requests, failures included |
| `Desk_proofs!TeamsAlwaysFit` | `TeamsAssumption`: neither `"create"` nor `"import"` in `Together`, and not both a deletion of teams and an assignment of members | `PartSpec => []TeamsFit`, any number of teams, members and requests |
| `Migrations_proofs!PeopleAlwaysKept` | those on the constants | `PartSpec => []PeopleKept`, any number of people, documents and runs |
| `Migrations_proofs!PromisesAlwaysKept` | `QuietAssumption`: neither `"phase3"` nor `"types"` in `Serving` | `PartSpec => []PromisesKept`, any number of products |
| `Migrations_proofs!CorrectionsEnd` | those on the constants | `PartSpec => []CorrectionsComplete`, any number of members, shipments and products |

The arguments. *Types* of `Shipments`: `TypeOK` alone is not inductive, for a request
carries the number of the shipment it has loaded; `RequestsFit` adds that this number
is the number of a stored shipment (shipments are never removed). *Status*: the
listener recomputes the status of what it touches, creation starts from the same
rule, and every other write either leaves preparation or leaves the status alone;
that the listener and a stale save do not undo each other is why no assumption on the
number of requests is needed, and why rescheduling, which saves a status computed
from an old read, must be excluded. *Warehouses*: in `IInv`, what a request has loaded is
what is stored (`SeenIsStored`), so a save stores exactly the array the operation
computed; each operation on the array is a lemma: it leaves at most one active,
complete, undeleted warehouse if it finds at most one. TLC refutes each serial theorem
for two requests, so `Serial` is needed. That somebody takes over (`KeepsActive`) rests on
`findBestActiveCandidate` finding a candidate whenever there is one (`BestExists`), which
takes the least priority and then the least index (`LeastNatural`, from the
well-foundedness of the naturals). `HasWarehouse` needs no `Serial`: a country without a
warehouse is one whose maker is between its two saves (`Promised`); the second is a pure
push, which no version stops, and no other save shortens the list.

*Accounts*: a request reads a user or a tenant and writes it later, and no index helps it.
`HasSeen` says what of its reading lasts: neither users nor tenants are ever taken away,
a user's document is only filled, and that a name is free lasts because those who look
for one are alone (`NamesAlone`); the two counterexamples of section 3 are the two ways
to drop that assumption. That nobody but a superadmin, former or present, has `Null` for a
tenant, which is in no list, is `Nulls`.

*Connections*: `RacesInv` says what a call in flight may still rely on after its await.
For a tenant whose calls have not overlapped there is one call at most (`OneWaits`), and
it finds the map as it was when it looked: nothing for its tenant if it makes a
connection, the connection being closed if it closes one. So what it overwrites or takes
out is not open, and nothing is lost; the set `raced` of the others only has to be shown to
hold them (`NotRaced`, which counts two calls with the theorems on cardinalities). The
limit needs more than the number of connections: a request that waits to put its own in
the map has a place, and a closing that a request waits for will leave one (`LimitInv`),
which neither the cleanup nor the shutdown takes away. The order of use has no tenant or
request twice (`OrderInv`), so taking one out of it (`WithoutFits`) removes all there was.

*One holder* of `Shipments`: a request in `prepared` has seen the product with the
document it means to take it from (`Relies`); if that has changed, the first transaction
is aborted. The second transaction finds a product of the pool gone when somebody has
moved it (`Misses`), and then leaves everything as it is. For a product that an employee
hands to another there is no such document, so a relocation relies on nobody else having
written, which is `HolderAssumption`.

*One shipment*: the guards of a move look at two flags of the product, and the flags are
saved apart from the shipment. `TravelInv` says when they can be trusted: a product in a
shipment under way has both flags up and is with one of its two ends, and two such
shipments exist only while one is being merged away, with its products already in the
other (`TakenOver`). For that, what every request has read is related to what is stored: a
prepared product is of the pool and was seen unlocked, what was loaded of a shipment still
holds, a task that will free a product finds it in no shipment, and a product that is
still to be handed over is locked and in no shipment but an editable one that goes the
same way. The steps are sorted by what they leave alone (`Lighter`, `LocksHeld`,
`PlacesHeld`, `MergesKept`, `EditableKept`), so that a step has to say which of these it
respects and the frame lemmas do the rest. `OnTheWayStays` and `MergeLosesNothing` are
read off the same invariant: a product on its way is locked and no request has a task for
it, and a shipment is only deleted when it is taken over. Each clause of
`TravelAssumption` has its counterexample in section 3: products of employees may be
shipped twice (`"return"`); a cancellation next to another request unlocks what the other
has locked (`"cancel"`), and so does a superadmin's status, which ends in the same count
and unlock; a reschedule next to another request merges away what has just joined; a merge
that dies between its two saves leaves its products in two shipments; a patch may revive a
shipment whose products are free. Within it are the runs `lifecycle` and `rescheduling`,
and `concurrent` but for the cancellations.

*Flags* of `Shipments`: between the save of a shipment and the end of its request the
flags are wrong, so the invariant says up to what: a flag of a member or an office is
exact unless a count of it is still on a list of tasks (`Due`), and a product is locked
only if it is in a shipment under way or a task will free it (`Freed`). All this is said of
`Findable` ends: offices, and members who have not been `renamed`. Of a member it must be
known that a count by the stored e-mail counts everything and reaches the member:
`CalledInv` says that a shipment under way, and what a request has read of it, knows such a
member by the present name and e-mail (a member who is renamed with the flag down is in no
shipment under way, or would be in `renamed`). A member's flag, moreover, is never down
while a shipment involves the member (`EndsFlagged`), for the listener is called for flagged
members only. The work is in the second half, which
relates what a request has read to what is stored: the count that a task has taken is
still the count when it is written (`ReadingHolds`), everyone whom a shipment that ends
involved and everything that it carried is on the list (`EndedOwes`), a product whose
shipment is merged away is in the one that takes it over, and a product still to be
handed over is in a shipment that involves its new holder (`SettleHolds`). Once no
request is in flight nothing is owed, and the flags are exact; that a product *in* a
shipment is locked is the invariant of the previous paragraph. With a second request, a
crash or a patch TLC refutes `LetGo` within a hundred to a thousand states.

*Copied addresses* of `Shipments`: a copy that differs from the address is one for which
an event waits (`Awaited`) that tells of its member by the present e-mail (`Tells`), or
one of a renamed member. A change of a member's address that is announced to nobody is one
of a member whose flag is down, and so of nobody in a shipment: this is where the flags
are needed. The listener copies the address of its subject to every end at which it is,
which it finds by the name (`CalledInv`), and leaves the others as they wait. For a member
it reads the address again, for an office it believes the event, so events about offices
must be current (`EventsCurrent`): `DetailsAssumption` asks that no office is edited or
that one event is handled before the next (with two waiting, the older may be handled
last, and TLC refutes `ShipmentDescribesEnds`). It also asks that a superadmin does not
put a shipment back into preparation, where it would be with the addresses it had when it
left. The run `lifecycle` satisfies the three assumptions; the theorem covers, beyond it,
any number of members, offices, products, dates and shipments, moves without a shipment,
reschedules with their merges, and any number of waiting events of members.

*Places*: a move decides at once what the product becomes (`Decide`), writes its copy and
then the product, and a new name of a warehouse reaches copies and tenants one after the
other. `PlacesInv` says what is between: what a move has decided is well placed, is in the
country the product came from, tells the name its warehouse has now, and says nothing of
an office or a warehouse only if the product said nothing of it before (`MoveFits`) —
which is what makes the copy, for which an untold place stays as it was, tell the same as
the product (`CopyOf`). A copy tells what its product is, or what a move that has written
the copy is about to make of it (`Told`, `CopiesFit`). A name that is spreading is the one
the warehouse has; of a product in that warehouse, the copy has it once the copies are
through, and the product has it unless its tenant is still to be told (`NameFits`). That
the warehouse is in the right country is a fact about each kind of move (`Origins` and the
lemmas on decisions): one from an office looks there first, one from a member finds the
member as the last holder. A product whose move was decided before its warehouse got a new
name (`NameChanged`), or that is edited while the name spreads, writes the old name after
it: it is `crossed`, and left out. TLC found no state of the run `initialization` without
`PlacesInv`.

*Snapshots*: that the snapshots tell the truth when nothing is under way says nothing of
how they get there, so `SnapInv` speaks of those who still write. What an edit or an
assignment has read holds until it goes on (`EditFits`), which is where `OneEditor` is
needed; the assignment that has let its product join finds no snapshot of it yet. A run
of the listener holds the product as it is now, unless the product is behind
(`RunFits`), and the index it found is still that of its product, for snapshots are
replaced in place or added at the end, never moved (`Extends`). Then, of each product in
the shipment (`SnapshotFits`): it has a snapshot, or its assignment is about to take one
or has failed to; and unless it is behind, the snapshot says what the product says or
somebody will still write it (`ToTell`). A second snapshot of a product could only come
from a listener or a change of status that finds none, so only after an assignment that
failed. What a change of status makes of the list is a fact about `createSnapshots`
(`RefreshedFits`). With two editors TLC refutes the property (section 3). TLC found no
state of the run `initialization` without `SnapInv`. `MaxEdits` only bounds the run: the
theorem holds for every value of it.

*Offices*: each handler clears, writes and copies in calls of its own, so `IInv` says of
every request in flight what it has found out that still holds, in three layers. In any
traffic (`CommonInv`): if there are live offices and none is the default one, some request
is about to set one, or to look for one (`WillSet`) — the office it will write is still
live, for requests that overlap delete nothing. One request at a time (`AloneInv`): one
office is the default one, none where a request is about to set one (`FlagStands`); a
deleted office is empty, because a deletion has in hand exactly what is left in its office
(`HandStands`). As long as none has died (`WholeInv`): names differ, though setting up a
default office does not look for its name, because there is no other office then
(`NameStands`); what is destroyed is still with its deletion, went with its office or was
in vain (`Destroyed`); and a name or a copy that is behind is one that a request is about
to pass on (`Named`, `Owes`), where a product being destroyed is the only one its deletion
can mark (`CopyStands`). Every action is first brought into a normal form, what it does to
`offices`, `products`, `copies` and its own request (`StepForm`), and sorted by what it
writes, so that most conjuncts need one step for each of the five kinds. `KeepsDefault` is
needed for the default office, and through it for the names: with `"unset"` TLC refutes
`OfficesFit`.

*One home* of `Catalog`: a product is moved by a transaction that writes the document
it leaves and the one it enters, so the invariant has to speak of what a transaction in
flight has read and written. Its parts: outside the documents that it or somebody else
has written since, the snapshot of a request is the stored collections
(`SnapshotValid`), and no two requests hold one document, which is MongoDB's rule
(`Conflict`); among the documents a request has written, a product is at most once, and
if it is there, it was there before, unless the request makes it (`OneAfter`) — with a
half-way state for the deletion of a member's product, which is in the pool before it
is taken from the member; and only members that are there have products. A commit then
replaces documents with one home by documents with one home. `OverlapAssumption` says
that a move, a bulk reassignment or the offboarding of a member does not run next to
other requests: `assignments.service.ts` looks for who gives the product away outside
the transaction (`Giving`), and TLC refutes `OneHome` as soon as a move or an
offboarding may overlap. Each of them alone is covered, and so is any overlap of the
others.

*Custody*: next to the invariant of *One home*, `CustodyInv` says what each request in
flight does to the documents it has written: a product that was among them still is, and
one that was not only if it moved in from another, which a request does alone (`Keeps`);
a creation makes all that it has written, and moves nothing (`Makes`); a deletion has one
product, which is there until it commits (`DeletesOne`); and what is about to move is not
deleted (`TodoLive`). Of the collections it says that nobody holds a
deleted product. A commit replaces the written documents, and as nobody else has written
them in the meantime, the collections before and after it are `Related`: everything
stays somewhere, or products appear that were nowhere, or one is deleted and the rest
is where it was. `RelatedIsKept` maps each of the three to a step of `Custody` or a
stutter; every other step of a request leaves the collections alone. `CustodyAssumption` is
there because of the counterexample in section 3; the run satisfies it, for of its
traffics one at a time `assets` deletes and `staff` gives other e-mails. TLC found no
state of the run `catalog` without `CustodyInv`.

*Products fit*: the collections hold the three properties only because the request in
flight knows what it needs for them, and `FitInv` says what. The views it speaks of are
`ViewSettled`: a serial number, but for those of `Spaced`, is of one product
(`SerialsDiffer`), a deleted member has
nothing to give back (`GivenBack`), nobody waits for a member who is there
(`NoneWaits`), and, which the last one needs and no property says, members have e-mails
of their own (`EmailsDiffer`). What is settled are the collections and also what a
transaction has put together but not committed: its view is theirs except for what it
has written, so a commit makes its view the collections' (`CommitSettles`), and a
failure leaves them as they were. Of what a request has looked up it says that it is
still so (`FilesFit`, `EditsFit`, `StaffFit`): the serial number is free when the
product is inserted or edited, unless it is one of `Spaced`, which the look-up may miss;
the e-mail of a product for the pool belongs to nobody,
who is being dismissed has nothing to give back. Members are imported in two steps, the
member and then what waits for it, so in between, and for good once something has
failed, products may wait (`SparedNow`, `SparedThen`): the exceptions of the property.
Most steps move one product and keep its serial number (`Shifts`); what a new member
attaches has its own argument (`AttachedSettled`), for it takes all that waits.
`ProductsAssumption` excludes the counterexample of section 3. TLC found no state
of the run `catalog` without `FitInv`.

*Copies*: a copy is written in an action of its own, between the writes of a transaction
whose outcome is open, so `CopyInv` says of the request in flight what its copies agree with
(`CopyFits`). A product the request has still to copy (`sync`) will agree, once it has been
copied (`CopyBy`), with what there is after the commit (`Outcome`); of the others the copy
agrees with that already; and of those it has neither copied nor still to copy it agrees
also with what there is now, which is what stays if the request is aborted. A deletion is
the exception, for it writes the copy before it takes the product from its member
(`HalfMarked`). Everything is said for a request that comes alone and sees what is stored
(`Certain`), and as long as none has failed half-way; the products whose copy an aborted
request leaves behind are in `undone`. TLC found no state of the run `catalog` without
`CopyInv`.

*Numbers*: what a request holds is either a counter value nobody
else has, because the `$inc` gave it, or one it read in a transaction that will be
aborted if the counter has moved; an order id once given keeps the number with which it
was made, also after it has been rewritten from its last digits, as long as the digits
suffice.

*Images*: an image has one owner at most, a quote, a request that has uploaded it and not
yet handed it over, or nobody any more (`Apart`, `AllOwned`), and an owner has known it
since the upload (`Known`), so a new one is nobody's. What is ever deleted is in the first
service of a quote: what a request was asked to delete, and what the clean-up of a
cancelled quote has found there (`ToDelete`). That is why a quote that nobody cancels keeps
its images with any number of requests, wherever one fails, and why the images of a second
service stay. The limit of images per service needs the sizes of what is being uploaded
(`Uploading`), which the theorems on cardinalities give step by step.

*Teams*: `AskFits` says what a request has in hand and still may rely on when it writes: a
team that members are put into exists, one that is being deleted has no living member, a
colour to be given is free unless one was given again. Each lasts as long as no request of
a certain other kind moves (`AskLasts`), and `TeamsAssumption` with `Overlap` says that none
does. What an import has picked are as many free colours as teams that have got one; so
while one has none, and the colours suffice, one is left that its loop accepts
(`ImportsGoOn`). That the loop then ends is a matter of chance, and not stated. Two imports,
or a deletion next to an assignment, refute the property (section 3).

*Scripts*: the theorems are about `PartSpec` of `MCMigrations`, so that they name the
properties of its run; every step of it is a step of one of the three modules. In
`Migration`, `Forth` says of a script on the way there that the documents it read are
still stored and that everybody embedded in those it is through with has a user: the
documents go only when all have one. `Back` says the opposite of a script on the way
back: who still has a user is still to be inserted, and users go when all are embedded.
Whether the run before ended does not matter, for a script that starts again reads anew.
In `Backfill`, the scripts keep four things whatever they do (`Keeps`): a copy is true
(`TrueOf`, for a copy without the tenant's id only where there is none with it), a copy
with the id stays or is made, no text comes back, and no product becomes bare. Every
step but `Clean` is one that keeps them, so what an ended script has promised
(`Promise`) lasts, and a script that runs needs only to say of the products it is
through with that they are as it promises (`ShelvesPassed`, `CopiesPassed`,
`TypesPassed`), and of what it has read that it still holds: phase 3 must find the
products as it read them; a member's product that has moved since phase 2 read it has a
copy from the move, which the script then finds or leaves; `duplicates` keeps the copy
with the id when it drops the others (`DropsRead`). `QuietAssumption` is what the
counterexamples of section 3 ask for. In `Corrections`, what each stage is through with is
corrected, and a later stage knows it of everything that the earlier ones were to do
(`CountriesThrough`, `EndsThrough`, `ConditionThrough`). TLC found no state of the run
`migrations` without the three invariants.

Out of the prover's reach, and left to TLC: liveness (`RequestsEnd`, `AddressesArrive`,
`CallsEnd`, `CancelledIsClean`), which needs fairness and ENABLED, and facts that need
induction over a sequence. `MembersKeepAddressInTransit`
and `ProductStatusMatchesShipment` are refuted by TLC. Only model-checked, with one request
at a time: `TerminalIsFinal` and `DeletedForGood`, which then follow from the checks that
requests begin with.

## 5. What is not modelled

* The texts of addresses, prices, histories, Slack messages, mails and websocket
  notices: no property is about them.
* What else the body of a patch by the older super-admin API may overwrite (ends,
  details, products): only its status is modelled. Likewise the `activeShipment` and
  `products` that the body of `PATCH /members/:id` might set.
* That two members have the same full name, by which the code cannot tell them apart.
* Attributes, conditions and prices of products, their listings, exports and the
  migrations of prices and recoverability: no decision of the modelled services reads
  them.
* Authentication: tokens and guards depend on time and cryptography and change no state
  that is modelled. Widgets and configurations of tenants likewise.
* Orders, history, warehouse metrics, public quotes: append-only or read-only.
* The addresses that `processDataWipeService` fills into a quote.
* Code that no route and no caller reaches: `deactivateWarehouse`,
  `transferProductBetweenMembers`, `handleUnknownEmailToMemberUpdate`, `updateLegacy`
  and `softDelete` of offices, the deletion of quotes; and a script whose constructor is
  commented out, so that it cannot connect.
* Tenant connections are cached by every module that provides the service itself
  (`quotes.module.ts:33` and three others), each for itself; one cache is modelled.

## 6. Plan

Done: shipments and what hangs on them, the catalog with its abstract specification,
placement, snapshots, offices, warehouses, connections, numbers, quotes, teams, accounts,
scripts.

Every safety property of a passing run is proved but `TerminalIsFinal`, `DeletedForGood`
and `DetailsFresh` on its own, which is proved as part of `ShipmentDescribesEnds`.

Next: what remains true of products when returns and relocations overlap with other
requests, where `OneActiveShipmentPerProduct` fails.
