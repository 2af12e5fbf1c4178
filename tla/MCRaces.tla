-------------------------------- MODULE MCRaces --------------------------------
(* CheckoutRaces on small instances: the sets are model values, given in the cfg. *)
EXTENDS CheckoutRaces, TLC

\* Keys, payment ids and handlers are interchangeable.
Symmetry == Permutations(Key) \cup Permutations(PaymentId) \cup Permutations(Handler)
===============================================================================
