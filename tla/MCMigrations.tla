---------------------------- MODULE MCMigrations ----------------------------
(***************************************************************************)
(* The scripts for TLC: those that move users out of the collection        *)
(* tenants (Migration), those that bring products up to the present scheme *)
(* (Backfill) and those that correct single fields (Corrections). They     *)
(* share no state, so in a behaviour one of them moves, and the others     *)
(* rest in one of their initial states.                                    *)
(***************************************************************************)
EXTENDS Migration

CONSTANTS Products, Serving, Items

\* None is neither what is written somewhere nor a stage of a script.
ASSUME WordsAssumption == None \notin
    {"member", "warehouse", "office", "gone", "there", "id", "text", "name",
     "phase1", "phase2", "phase3", "warehouses", "types",
     "store", "repair", "copy", "place", "label", "names", "keep", "missing",
     "code", "odd", "Optimal", "Defective", "countries", "ends", "condition",
     "own", "pool", "members", "copies"}

VARIABLES part, products, copies, filler, done, copied,
          country, ends, condition, held, corrector, corrected

Fill    == INSTANCE Backfill WITH script <- filler
Correct == INSTANCE Corrections WITH run <- corrector, done <- corrected

\* Nor is it what a script has found.
ASSUME FoundAssumption == None \notin [of : Products, kept : Fill!Kinds]

fillVars    == <<products, copies, filler, done, copied>>
correctVars == <<country, ends, condition, held, corrector, corrected>>
all         == <<part, migrationState, fillVars, correctVars>>

UsersStep    == part = "users" /\ Next /\ UNCHANGED <<part, fillVars, correctVars>>
ProductsStep == part = "products" /\ Fill!Next /\ UNCHANGED <<part, migrationState, correctVars>>
FieldsStep   == part = "fields" /\ Correct!Next /\ UNCHANGED <<part, migrationState, fillVars>>

\* Some initial state of each.
UsersRest ==
    /\ database = "main"
    /\ docs = CHOOSE f \in [DocIds -> {NoDoc} \cup {Doc(p) : p \in People}] :
                  \A p \in People : Cardinality({d \in DocIds : f[d] = Doc(p)}) = 1
ProductsRest ==
    /\ products = [p \in Products |-> [at |-> "office", warehouse |-> None, office |-> None]]
    /\ copies = [p \in Products |-> [k \in Fill!Kinds |-> Fill!NoCopy]]
FieldsRest ==
    /\ country = [i \in Items |-> [w \in Correct!Where |-> "code"]]
    /\ ends = [i \in Items |-> [e \in Correct!Ends |-> "code"]]
    /\ condition = [i \in Items |-> [w \in Correct!Where |-> "Optimal"]]
    /\ held = [i \in Items |-> FALSE]

PartInit ==
    /\ part \in {"users", "products", "fields"}
    /\ part # "users" => UsersRest
    /\ part # "products" => ProductsRest
    /\ part # "fields" => FieldsRest
    /\ Init /\ Fill!Init /\ Correct!Init

PartSpec == PartInit /\ [][UsersStep \/ ProductsStep \/ FieldsStep]_all

\* The scripts for products keep what they promise (see Backfill).
PromisesKept == Fill!PromisesKept

\* What has been gone through to the end is corrected (see Corrections).
CorrectionsComplete == Correct!CorrectionsComplete

=============================================================================
