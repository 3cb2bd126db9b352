----------------------------- MODULE MCOffices -----------------------------
(***************************************************************************)
(* Offices for TLC: every operation, alone with crashes or two at a time.  *)
(***************************************************************************)
EXTENDS Offices, TLC

Symmetry == Permutations(Names) \cup Permutations(Requests) \cup Permutations(Offices)

=============================================================================
