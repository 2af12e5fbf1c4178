------------------------------ MODULE MCStorefront ------------------------------
(* What the customer is shown and told, on small instances: the checkout form   *)
(* (Checkout), the pictures of the items (Images) and the emails (Notifications *)
(* with two workers).  The three share no state, so that a behaviour is one of  *)
(* one part: the others stay as they begin, and the numbers of states add up    *)
(* instead of multiplying.                                                      *)
EXTENDS Notifications, Checkout, Images

VARIABLE part   \* the part that runs

StorefrontInit ==
  /\ part \in {"emails", "checkout", "images"}
  /\ Init /\ CheckoutInit /\ ImagesInit
  /\ part # "checkout" => cart = EmptyCart

StorefrontNext ==
  /\ UNCHANGED part
  /\ \/ part = "emails" /\ Next /\ UNCHANGED <<checkoutVars, imagesVars>>
     \/ part = "checkout" /\ CheckoutNext /\ UNCHANGED <<vars, imagesVars>>
     \/ part = "images" /\ ImagesNext /\ UNCHANGED <<vars, checkoutVars>>

StorefrontSpec ==
  StorefrontInit /\ [][StorefrontNext]_<<part, vars, checkoutVars, imagesVars>>
================================================================================
