------------------------------- MODULE Backfill -------------------------------
(***************************************************************************)
(* The scripts that brought the products of a tenant up to the present     *)
(* scheme: a warehouse for every product at FP, an office for every one at *)
(* an office, a copy of each in the global collection, with the tenant's   *)
(* id in it and not a text. In src/src/scripts/migration:                  *)
(*                                                                         *)
(*    phase1      warehouses for the products that have none               *)
(*    phase2      copies of the products of members                        *)
(*    phase3      copies of the products of the pool                       *)
(*    offices     offices for products, then for copies                    *)
(*    enhanced    offices for products, in a transaction; the copies it    *)
(*                means to write are in a database of another name         *)
(*    names       fix-tenant-ids: copies with the tenant's name for its id *)
(*                                                                         *)
(* and in scripts:                                                         *)
(*                                                                         *)
(*    warehouses  fix-tenant-warehouse-ids                                 *)
(*    missing     fix-missing-fpwarehouse                                  *)
(*    types       fix-tenantid-types                                       *)
(*    duplicates  cleanup-duplicate-global-products                        *)
(*    clean       clean-and-remigrate                                      *)
(*                                                                         *)
(* The application moves products between the scripts, and during those of *)
(* Serving. A move takes the copy along (see Catalog).                     *)
(***************************************************************************)
EXTENDS FiniteSets

CONSTANTS
    Products,
    None,
    Serving      \* scripts during which the application goes on working

VARIABLES
    products,    \* where every product is, and its warehouse and office
    copies,      \* the copies of each, by what they have for the tenant's id
    script,      \* the script that runs, its stage, what it has to do and has read
    done,        \* scripts that ran to their end, of those that promise something
    copied       \* products that have had a copy since the last clean

backfillState == <<products, copies, script, done, copied>>

Kinds   == {"id", "text", "name"}
Refs    == {None, "gone", "there"}      \* a warehouse that exists, or does not
Places  == {"member", "warehouse", "office"}
Product == [at : Places, warehouse : Refs, office : {None, "there"}]
NoCopy  == [at |-> None, warehouse |-> None, office |-> None]
Idle    == [name |-> None, stage |-> None, todo |-> {}, read |-> None, found |-> None]

\* sourceCollection.
Source(place) == IF place = "member" THEN "members" ELSE "products"
Copies(p)     == {k \in Kinds : copies[p][k] # NoCopy}
Texts(p)      == Copies(p) \ {"id"}
Bare(q)       == q.at = "warehouse" /\ q.warehouse = None
Homeless(q)   == q.at = "office" /\ q.office = None

\* Products of before the scheme: without warehouse or office, some with copies
\* that have the tenant's id as a text, or its name.
Init ==
    /\ products \in [Products -> {q \in Product : (q.warehouse # None => q.at = "warehouse") /\ q.office = None}]
    /\ copies \in [Products -> [Kinds -> {NoCopy} \cup {[NoCopy EXCEPT !.at = place] : place \in Places}]]
    /\ \A p \in Products : /\ "id" \notin Copies(p)
                           /\ \A k \in Copies(p) : copies[p][k].at = products[p].at
    /\ script = Idle /\ done = {} /\ copied = {p \in Products : Copies(p) # {}}

-----------------------------------------------------------------------------
\* How a script goes through its list: stage by stage, one document after the
\* other. It may be interrupted between any two writes.
Begin(name, stage, todo, read) ==
    /\ script = Idle
    /\ script' = [name |-> name, stage |-> stage, todo |-> todo, read |-> read, found |-> None]
    /\ UNCHANGED <<products, copies, done, copied>>

At(stage, p) == script.stage = stage /\ p \in script.todo

Promising == {"phase1", "phase2", "phase3", "warehouses", "types"}

End     == script' = Idle /\ done' = done \cup ({script.name} \cap Promising)
Goes(p) == script' = [script EXCEPT !.todo = @ \ {p}, !.found = None] /\ UNCHANGED done

\* After p comes the rest of the list, then the end.
Last(p) == IF script.todo = {p} THEN End ELSE Goes(p)

\* After p comes the rest of the list, then the next stage, over every product.
ThenStage(p, stage) ==
    IF script.todo # {p} THEN Goes(p)
    ELSE script' = [script EXCEPT !.stage = stage, !.todo = Products] /\ UNCHANGED done

Interrupt ==
    /\ script # Idle
    /\ script' = Idle
    /\ UNCHANGED <<products, copies, done, copied>>

Put(p, k, c) == copies' = [copies EXCEPT ![p][k] = c] /\ copied' = copied \cup {p}
Become(p, q) == products' = [products EXCEPT ![p] = q]

\* The application: a product moves; its copy is made, or follows.
Move(p, place) ==
    LET q == [at |-> place, warehouse |-> IF place = "warehouse" THEN "there" ELSE None,
              office |-> IF place = "office" THEN "there" ELSE None]
    IN  /\ script = Idle \/ script.name \in Serving
        /\ place # products[p].at
        /\ Become(p, q) /\ Put(p, "id", q)
        /\ UNCHANGED <<script, done>>

-----------------------------------------------------------------------------
\* phase1, and the first part of warehouses: products at FP without a warehouse
\* get the default one (updateMany).
StoreStart(name) == name \in {"phase1", "warehouses"} /\ Begin(name, "store", Products, None)

Store(p) ==
    /\ At("store", p)
    /\ IF Bare(products[p]) THEN Become(p, [products[p] EXCEPT !.warehouse = "there"]) ELSE UNCHANGED products
    /\ IF script.name = "phase1" THEN Last(p) ELSE ThenStage(p, "repair")
    /\ UNCHANGED <<copies, copied>>

\* Warehouses that are gone give way to the default one of their country (here
\* every country has one).
Broken(p) == products[p].warehouse = "gone"

Repair(p) ==
    /\ At("repair", p)
    /\ IF Broken(p) THEN Become(p, [products[p] EXCEPT !.warehouse = "there"]) ELSE UNCHANGED products
    /\ Last(p)
    /\ UNCHANGED <<copies, copied>>

-----------------------------------------------------------------------------
\* phase2 and phase3 read their products at once, and write one copy after the
\* other as the products were then.
CopyStart(name) ==
    LET P == {p \in Products : Source(products[p].at) = (IF name = "phase2" THEN "members" ELSE "products")} IN
    /\ name \in {"phase2", "phase3"} /\ P # {}
    /\ Begin(name, "copy", P, products)

\* The copy is looked up by the tenant's id, the product and the collection; one
\* of the other collection is not found, and the index refuses to insert a second.
Found(p) == "id" \in Copies(p) /\ Source(copies[p]["id"].at) = Source(script.read[p].at)

Copyable(p) == Found(p) \/ "id" \notin Copies(p)

\* Neither phase writes an office. A copy of what is at FP has its warehouse, or
\* the default one if that is gone.
NewCopy(p) ==
    LET q == script.read[p] IN
    [at |-> q.at, office |-> copies[p]["id"].office,
     warehouse |-> IF q.at = "warehouse" /\ q.warehouse # None THEN "there" ELSE None]

CopyOne(p) ==
    /\ At("copy", p)
    /\ IF Copyable(p) THEN Put(p, "id", NewCopy(p)) ELSE UNCHANGED <<copies, copied>>
    /\ Last(p)
    /\ UNCHANGED products

-----------------------------------------------------------------------------
\* offices: products at an office get the default one, then copies that say so.
\* They are found by the tenant's name, whatever they have for its id.
PlaceStart == Begin("offices", "place", Products, None)

PlaceOne(p) ==
    /\ At("place", p)
    /\ IF Homeless(products[p]) THEN Become(p, [products[p] EXCEPT !.office = "there"]) ELSE UNCHANGED products
    /\ ThenStage(p, "label")
    /\ UNCHANGED <<copies, copied>>

LabelOne(p) ==
    /\ At("label", p)
    /\ copies' = [copies EXCEPT ![p] =
          [k \in Kinds |-> IF Homeless(@[k]) THEN [@[k] EXCEPT !.office = "there"] ELSE @[k]]]
    /\ Last(p)
    /\ UNCHANGED <<products, copied>>

\* enhanced: a transaction over the products. Its connection for the copies leads
\* to the database tenant_firstPlug, where there are none.
Enhanced ==
    /\ script = Idle
    /\ products' = [p \in Products |-> IF Homeless(products[p]) THEN [products[p] EXCEPT !.office = "there"]
                                       ELSE products[p]]
    /\ UNCHANGED <<copies, script, done, copied>>

-----------------------------------------------------------------------------
\* A copy gets the tenant's id in place of the text k, if no other has it.
Free(p) == "id" \notin Copies(p)

Converted(p, k) == [copies EXCEPT ![p]["id"] = copies[p][k], ![p][k] = NoCopy]

\* names: updateMany over the copies with the name; the first the index refuses
\* stops it.
NamesStart == Begin("names", "names", {p \in Products : "name" \in Copies(p)}, None) /\ script'.todo # {}

NamesOne(p) ==
    /\ At("names", p)
    /\ IF "name" \in Copies(p) /\ Free(p) THEN copies' = Converted(p, "name") ELSE UNCHANGED copies
    /\ IF "name" \in Copies(p) /\ ~Free(p) THEN script' = Idle /\ UNCHANGED done ELSE Last(p)
    /\ UNCHANGED <<products, copied>>

\* types: every copy that had a text goes if there is one with the id, and is
\* converted if not. It looks first, and writes afterwards.
TypesStart ==
    /\ \E p \in Products : Texts(p) # {}
    /\ Begin("types", "types", {p \in Products : Texts(p) # {}}, [p \in Products |-> Texts(p)])

\* Mutant: the copy with a text is always the one to go.
GoesAlways(p) == TRUE

\* What findOne says of a copy with the id.
Goer(p) == ~Free(p)

TypesLook(p) ==
    /\ At("types", p) /\ script.found = None
    /\ \E k \in script.read[p] : script' = [script EXCEPT !.found = [of |-> p, kind |-> k, goes |-> Goer(p)]]
    /\ UNCHANGED <<products, copies, done, copied>>

TypesWrite(p) ==
    LET f == script.found IN
    /\ script.stage = "types" /\ f # None /\ f.of = p
    /\ copies' = CASE f.goes            -> [copies EXCEPT ![p][f.kind] = NoCopy]
                   [] ~f.goes /\ Free(p) -> Converted(p, f.kind)
                   [] OTHER              -> copies        \* an error; on with the next
    /\ IF script.read[p] = {f.kind} THEN Last(p)
       ELSE script' = [script EXCEPT !.read[p] = @ \ {f.kind}, !.found = None] /\ UNCHANGED done
    /\ UNCHANGED <<products, copied>>

-----------------------------------------------------------------------------
\* duplicates: of several copies the newest stays. It is given the tenant's id
\* before the others are deleted: if one of those has the id, the index refuses
\* and the script ends there.
Twice(p) == Cardinality(Copies(p)) \notin {0, 1}

KeepStart ==
    /\ \E p \in Products : Twice(p)
    /\ Begin("duplicates", "keep", {p \in Products : Twice(p)}, [p \in Products |-> Copies(p)])

Dropped(kinds, kept) == kinds \ {kept}

KeepOne(p, k) ==
    /\ At("keep", p) /\ k \in script.read[p] /\ script.found = None
    /\ IF k = "id" THEN /\ UNCHANGED copies
                        /\ script' = [script EXCEPT !.found = [of |-> p, kept |-> k]]
       ELSE IF Free(p) THEN /\ copies' = Converted(p, k)
                            /\ script' = [script EXCEPT !.found = [of |-> p, kept |-> k]]
       ELSE script' = Idle /\ UNCHANGED copies
    /\ UNCHANGED <<products, done, copied>>

\* The others go, by their _id.
DropOthers(p) ==
    LET f == script.found IN
    /\ script.stage = "keep" /\ f # None /\ f.of = p
    /\ copies' = [copies EXCEPT ![p] =
          [k \in Kinds |-> IF k \in Dropped(script.read[p], f.kept) THEN NoCopy ELSE @[k]]]
    /\ Last(p)
    /\ UNCHANGED <<products, copied>>

-----------------------------------------------------------------------------
\* missing: copies at FP without a warehouse get the default one, and so does the
\* product of the pool they are a copy of, wherever it is by now.
MissingStart ==
    /\ \E p \in Products : \E k \in Copies(p) : Bare(copies[p][k])
    /\ Begin("missing", "missing", {p \in Products : \E k \in Copies(p) : Bare(copies[p][k])}, None)

MissingCopy(p) ==
    /\ At("missing", p) /\ script.found = None
    /\ copies' = [copies EXCEPT ![p] = [k \in Kinds |->
          IF Bare(@[k]) THEN [@[k] EXCEPT !.warehouse = "there"] ELSE @[k]]]
    /\ script' = [script EXCEPT !.found = [of |-> p]]
    /\ UNCHANGED <<products, done, copied>>

MissingProduct(p) ==
    /\ script.stage = "missing" /\ script.found = [of |-> p]
    /\ IF Source(products[p].at) = "products" THEN Become(p, [products[p] EXCEPT !.warehouse = "there"])
       ELSE UNCHANGED products
    /\ Last(p)
    /\ UNCHANGED <<copies, copied>>

\* clean: every copy goes; phases 2 and 3 are to be run again.
Clean ==
    /\ script = Idle
    /\ copies' = [p \in Products |-> [k \in Kinds |-> NoCopy]]
    /\ copied' = {} /\ done' = done \ {"phase2", "phase3"}
    /\ UNCHANGED <<products, script>>

Next ==
    \/ \E p \in Products, place \in Places : Move(p, place)
    \/ \E name \in {"phase1", "phase2", "phase3", "warehouses"} : StoreStart(name) \/ CopyStart(name)
    \/ PlaceStart \/ Enhanced \/ NamesStart \/ TypesStart \/ KeepStart \/ MissingStart \/ Clean \/ Interrupt
    \/ \E p \in Products :
          \/ Store(p) \/ Repair(p) \/ CopyOne(p) \/ PlaceOne(p) \/ LabelOne(p)
          \/ NamesOne(p) \/ TypesLook(p) \/ TypesWrite(p) \/ DropOthers(p)
          \/ MissingCopy(p) \/ MissingProduct(p)
          \/ \E k \in Kinds : KeepOne(p, k)

-----------------------------------------------------------------------------
\* The variables have their types (script.read and script.found are those of its stage).
TypeOK ==
    /\ products \in [Products -> Product]
    /\ \A p \in Products, k \in Kinds : copies[p][k] \in Product \cup {NoCopy}
    /\ script.todo \subseteq Products /\ copied \subseteq Products

\* No script takes the last copy of a product away, save the one that takes all:
\* whatever order they run in, and wherever one is interrupted.
CopiesKept == \A p \in copied : Copies(p) # {}

\* After fix-tenantid-types no copy has a text for the tenant's id.
TextsGone == "types" \in done => \A p \in Products : Texts(p) = {}

\* After phase 1 every product at FP has a warehouse, and after
\* fix-tenant-warehouse-ids it is one that exists.
ShelvesFilled ==
    /\ done \cap {"phase1", "warehouses"} # {} => \A p \in Products : ~Bare(products[p])
    /\ "warehouses" \in done => \A p \in Products : products[p].warehouse # "gone"

\* After phases 2 and 3 every product has a copy with the tenant's id.
CopiesComplete == {"phase2", "phase3"} \subseteq done => \A p \in Products : "id" \in Copies(p)

\* A copy with the tenant's id says where the product is.
CopiesTrue == \A p \in Products : "id" \in Copies(p) => copies[p]["id"].at = products[p].at

\* The scripts keep what they promise, in any order and however interrupted.
PromisesKept == TypeOK /\ CopiesKept /\ TextsGone /\ ShelvesFilled /\ CopiesComplete /\ CopiesTrue

=============================================================================
