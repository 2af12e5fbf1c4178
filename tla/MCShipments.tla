----------------------------- MODULE MCShipments -----------------------------
(* Shipments on small instances: the sets are model values, given in the cfgs. *)
EXTENDS Shipments, TLC

\* Orders, ids and handlers are interchangeable (safety runs only).
Symmetry == Permutations(Order) \cup Permutations(Uuid) \cup Permutations(Handler)
==============================================================================
