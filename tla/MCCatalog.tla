----------------------------- MODULE MCCatalog -----------------------------
(***************************************************************************)
(* Catalog for TLC: every operation one at a time with one failure, or the *)
(* overlapping ones two at a time.                                         *)
(***************************************************************************)
EXTENDS Catalog, TLC

MCOperations ==
    [assets   |-> {"create", "import", "stock", "supply", "edit", "move", "return", "bulk", "delete"},
     staff    |-> {"create", "move", "offboard", "join", "enrol", "readdress", "dismiss"},
     together |-> {"edit", "return", "delete", "join"}]

Symmetry == Permutations(Requests) \cup Permutations(Emails)

=============================================================================
