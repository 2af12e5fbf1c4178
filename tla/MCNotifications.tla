--------------------------- MODULE MCNotifications ---------------------------
(* Notifications on small instances: the sets are model values, given in the  *)
(* cfgs.                                                                      *)
EXTENDS Notifications, TLC

\* Orders and workers are interchangeable (safety runs only).
Symmetry == Permutations(Order) \cup Permutations(Worker)
==============================================================================
