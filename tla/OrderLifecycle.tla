---------------------------- MODULE OrderLifecycle ----------------------------
(***************************************************************************)
(* What the shop promises about the status of an order, without requests,  *)
(* payments or notices: an order is confirmed or dispatched only after the *)
(* customer was charged for it, and waits for money again only after       *)
(* YooKassa canceled one of its payments.  A charge is never forgotten.    *)
(* Module Payments implements this contract.                               *)
(***************************************************************************)
EXTENDS ShopTypes

CONSTANT Key

VARIABLES
  status,   \* Order.status, "absent" before the checkout
  charged,  \* orders a payment of which succeeded at YooKassa
  refused   \* orders a payment of which was canceled at YooKassa

lifecycleVars == <<status, charged, refused>>

Init ==
  /\ status = [k \in Key |-> "absent"]
  /\ charged = {}
  /\ refused = {}

Placed(k) == status[k] # "absent"

MoveTo(k, s) ==
  /\ status' = [status EXCEPT ![k] = s]
  /\ UNCHANGED <<charged, refused>>

Place(k) == ~Placed(k) /\ MoveTo(k, "PENDING_PAYMENT")

Charge(k) ==
  /\ Placed(k)
  /\ charged' = charged \cup {k}
  /\ UNCHANGED <<status, refused>>

Refuse(k) ==
  /\ Placed(k)
  /\ refused' = refused \cup {k}
  /\ UNCHANGED <<status, charged>>

Confirm(k) == k \in charged /\ Placed(k) /\ MoveTo(k, "PAID")

Dispatch(k) == k \in charged /\ Placed(k) /\ MoveTo(k, "FULFILLMENT_PENDING")

Reopen(k) == k \in refused /\ Placed(k) /\ MoveTo(k, "PENDING_PAYMENT")

Close(k) ==
  \E s \in {"SHIPPED", "DELIVERED", "CANCELLED"} : Placed(k) /\ MoveTo(k, s)

Next ==
  \E k \in Key : \/ Place(k) \/ Charge(k) \/ Refuse(k) \/ Confirm(k)
                 \/ Dispatch(k) \/ Reopen(k) \/ Close(k)

Spec == Init /\ [][Next]_lifecycleVars
===============================================================================
