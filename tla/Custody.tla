------------------------------- MODULE Custody -------------------------------
(***************************************************************************)
(* What the catalog promises about where the products of a tenant are: a   *)
(* product appears once, is then in the pool or with one member at every   *)
(* moment, moves from one place to another in a single step, possibly      *)
(* together with others, and a deleted product never comes back.           *)
(***************************************************************************)
CONSTANTS
    Products,    \* assets
    Members      \* members of the tenant

VARIABLE place   \* where each product is

Live   == Members \cup {"pool"}
Places == Live \cup {"nowhere", "deleted"}

Init == place \in [Products -> Places]

Appear ==
    \E S \in SUBSET {p \in Products : place[p] = "nowhere"} :
        \E at \in [S -> Live] :
            place' = [p \in Products |-> IF p \in S THEN at[p] ELSE place[p]]

Move ==
    \E S \in SUBSET {p \in Products : place[p] \in Live} :
        \E to \in [S -> Live] :
            place' = [p \in Products |-> IF p \in S THEN to[p] ELSE place[p]]

Delete(p) ==
    /\ place[p] \in Live
    /\ place' = [place EXCEPT ![p] = "deleted"]

Next == Appear \/ Move \/ \E p \in Products : Delete(p)

Spec == Init /\ [][Next]_place

=============================================================================
