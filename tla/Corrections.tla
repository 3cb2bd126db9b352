------------------------------ MODULE Corrections ------------------------------
(***************************************************************************)
(* Three scripts that correct the data of a tenant, and may be interrupted *)
(* between any two writes and started again:                               *)
(*                                                                         *)
(*    countries  fix-member-country-codes: a code for the country's name   *)
(*               in members, then in the copies of their products          *)
(*               (fix-office-country-codes does the same for the offices   *)
(*               written in products)                                      *)
(*    ends       fix-shipment-country-codes: the same in both ends of      *)
(*               shipments                                                 *)
(*    condition  fix-product-condition: "Optimal" for products without a   *)
(*               condition, then for copies without one                    *)
(*                                                                         *)
(* Between the scripts the application writes countries and conditions,    *)
(* and gives and takes products.                                           *)
(***************************************************************************)
EXTENDS FiniteSets

CONSTANTS
    Items,       \* a member, its product and a shipment to it go by one name
    None

VARIABLES
    country,     \* of members, and of the copies: what is written there
    ends,        \* of shipments: the country of either end
    condition,   \* of products and of their copies
    held,        \* whether a member has the product, or the pool
    run,         \* the script that runs, its stage, and what it has to do
    done         \* what has been gone through to the end

correctionState == <<country, ends, condition, held, run, done>>

Forms      == {None, "code", "name", "odd"}    \* an odd name is in no list
Where      == {"own", "copy"}
Ends       == {"origin", "destination"}
Conditions == {None, "Optimal", "Defective"}
Idle       == [script |-> None, stage |-> None, todo |-> {}]

\* As the application writes it now.
Fresh(f) == \A i \in Items : \A x \in DOMAIN f[i] : f[i][x] \in {"code", "Optimal"}

\* The scripts correct different things: one of the three is as it was long ago.
Init ==
    /\ country \in [Items -> [Where -> Forms]]
    /\ ends \in [Items -> [Ends -> Forms \ {None}]]
    /\ condition \in [Items -> [Where -> Conditions]]
    /\ \/ Fresh(country) /\ Fresh(ends)
       \/ Fresh(country) /\ Fresh(condition)
       \/ Fresh(ends) /\ Fresh(condition)
    /\ held \in [Items -> BOOLEAN]
    /\ run = Idle /\ done = {}

-----------------------------------------------------------------------------
\* How a script goes on: over all items at each of its stages.
Begin(script, stage) ==
    /\ run = Idle
    /\ run' = [script |-> script, stage |-> stage, todo |-> Items]
    /\ UNCHANGED <<country, ends, condition, held, done>>

At(stage, i) == run.stage = stage /\ i \in run.todo

\* After i the rest, after that the next stage, after the last the end.
Go(i, next) ==
    IF run.todo # {i} THEN run' = [run EXCEPT !.todo = @ \ {i}] /\ UNCHANGED done
    ELSE IF next = None THEN run' = Idle /\ done' = done \cup {run.script}
    ELSE run' = [run EXCEPT !.stage = next, !.todo = Items] /\ UNCHANGED done

Interrupt ==
    /\ run # Idle
    /\ run' = Idle
    /\ UNCHANGED <<country, ends, condition, held, done>>

\* The application knows codes, and writes the copy along with what it writes.
EditCountry(i) ==
    /\ run = Idle
    /\ country' = [country EXCEPT ![i] = [w \in Where |-> "code"]]
    /\ UNCHANGED <<ends, condition, held, run, done>>

EditProduct(i, c) ==
    /\ run = Idle /\ c # None
    /\ condition' = [condition EXCEPT ![i] = [w \in Where |-> c]]
    /\ held' = [held EXCEPT ![i] = ~@]
    /\ UNCHANGED <<country, ends, run, done>>

-----------------------------------------------------------------------------
\* Written otherwise than by two capitals.
Wrong(form) == form \notin {None, "code"}

\* countryCodes[...]: nothing for an odd name.
Coded(form) == IF form = "name" THEN "code" ELSE form

\* With no member to correct the script ends before it has looked at the copies.
CountriesStart == (\E i \in Items : Wrong(country[i]["own"])) /\ Begin("countries", "own")

\* Mutant: the copies are left to the application.
AfterMembersEnd(w) == None

AfterMembers(w) == IF w = "own" THEN "copy" ELSE None

CountryOne(i, w) ==
    /\ At(w, i)
    /\ country' = [country EXCEPT ![i][w] = Coded(@)]
    /\ Go(i, AfterMembers(w))
    /\ UNCHANGED <<ends, condition, held>>

EndsStart == (\E i \in Items, e \in Ends : Wrong(ends[i][e])) /\ Begin("ends", "ends")

\* A shipment with an odd name at either end is left as it is.
EndsOne(i) ==
    /\ At("ends", i)
    /\ ends' = IF \E e \in Ends : ends[i][e] = "odd" THEN ends
               ELSE [ends EXCEPT ![i] = [e \in Ends |-> Coded(@[e])]]
    /\ Go(i, None)
    /\ UNCHANGED <<country, condition, held>>

-----------------------------------------------------------------------------
ConditionStart == Begin("condition", "pool")

Filled(c) == IF c = None THEN "Optimal" ELSE c

\* First the products of the pool (updateMany), then those of members.
ConditionOne(i, stage) ==
    /\ stage \in {"pool", "members"} /\ At(stage, i)
    /\ condition' = IF held[i] = (stage = "members") THEN [condition EXCEPT ![i]["own"] = Filled(@)]
                    ELSE condition
    /\ Go(i, IF stage = "pool" THEN "members" ELSE "copies")
    /\ UNCHANGED <<country, ends, held>>

\* Then the copies. A copy's product is looked up in the pool alone: a copy of a
\* member's product becomes "Optimal", whatever the product is.
ConditionCopy(i) ==
    /\ At("copies", i)
    /\ condition' = IF condition[i]["copy"] # None THEN condition
                    ELSE [condition EXCEPT ![i]["copy"] = IF held[i] THEN "Optimal" ELSE condition[i]["own"]]
    /\ Go(i, None)
    /\ UNCHANGED <<country, ends, held>>

Next ==
    \/ CountriesStart \/ EndsStart \/ ConditionStart \/ Interrupt
    \/ \E i \in Items :
          \/ EditCountry(i) \/ EndsOne(i) \/ ConditionCopy(i)
          \/ \E c \in Conditions : EditProduct(i, c)
          \/ \E w \in Where : CountryOne(i, w)
          \/ \E stage \in {"pool", "members"} : ConditionOne(i, stage)

-----------------------------------------------------------------------------
\* The variables have their types.
TypeOK ==
    /\ country \in [Items -> [Where -> Forms]]
    /\ condition \in [Items -> [Where -> Conditions]]
    /\ run.todo \subseteq Items /\ done \subseteq {"countries", "ends", "condition"}

\* Once the countries have been gone through to the end, no name is left that
\* has a code: neither in a member nor in a copy, whatever was interrupted before.
CountriesCoded == "countries" \in done => \A i \in Items, w \in Where : country[i][w] # "name"

\* After fix-shipment-country-codes a name that has a code is left only in a
\* shipment whose other end has none.
EndsCoded == "ends" \in done =>
    \A i \in Items : (\E e \in Ends : ends[i][e] = "name") => (\E e \in Ends : ends[i][e] = "odd")

\* After fix-product-condition every product and every copy has a condition, also
\* the products that went from the pool to a member and back between its runs.
ConditionsFilled == "condition" \in done => \A i \in Items, w \in Where : condition[i][w] # None

\* What has been gone through to the end is corrected.
CorrectionsComplete == TypeOK /\ CountriesCoded /\ EndsCoded /\ ConditionsFilled

=============================================================================
