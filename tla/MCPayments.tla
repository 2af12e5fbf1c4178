------------------------------ MODULE MCPayments ------------------------------
(* Payments on small instances: the sets are model values, given in the cfgs. *)
EXTENDS Payments, TLC

\* Keys, payment ids and handlers are interchangeable (safety runs only).
Symmetry == Permutations(Key) \cup Permutations(PaymentId) \cup Permutations(Handler)
===============================================================================
