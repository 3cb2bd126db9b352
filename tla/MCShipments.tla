---------------------------- MODULE MCShipments ----------------------------
(***************************************************************************)
(* Shipments for TLC. The runs differ in the operations users may issue, in *)
(* the places there are and in how many requests are in flight.            *)
(***************************************************************************)
EXTENDS Shipments, TLC

\* What a superadmin may set a shipment to. The first is the way a shipment
\* normally goes; the second lets it be put on hold as well.
ForwardStatuses   == {OnTheWay, Received, Cancelled}
AllButPreparation == ForwardStatuses \cup {OnHold}
EndStatuses       == {Received, Cancelled}

\* Products and dates are alike. Used where no liveness is checked.
Symmetry == Permutations(Products) \cup Permutations(Dates)

=============================================================================
