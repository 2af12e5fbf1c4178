------------------------------- MODULE Parcels -------------------------------
(***************************************************************************)
(* What the shop promises about the shipments of its orders, without       *)
(* calls, locks or polls: it shows an order as shipped only with a parcel  *)
(* the delivery service has for this order, and writes to the customer     *)
(* only when a parcel of the order has a number.  As long as every call    *)
(* to the service is answered, an order has one parcel, and what is shown  *)
(* stays.  Module Shipments implements this contract.                      *)
(***************************************************************************)
CONSTANTS Order, Uuid, None

VARIABLES
  parcels,   \* the parcels of each order that were ever registered
  numbered,  \* orders a parcel of which has a number
  shown,     \* the parcel an order is shown with, or None
  told,      \* orders whose customer is written to
  answered   \* no call to the delivery service failed

parcelVars == <<parcels, numbered, shown, told, answered>>

Init ==
  /\ parcels = [o \in Order |-> {}]
  /\ numbered = {}
  /\ shown = [o \in Order |-> None]
  /\ told = {}
  /\ answered = TRUE

\* An id is given once; a second parcel only after a call failed.
Register(o, u) ==
  /\ \A p \in Order : u \notin parcels[p]
  /\ answered => parcels[o] = {}
  /\ parcels' = [parcels EXCEPT ![o] = @ \cup {u}]
  /\ UNCHANGED <<numbered, shown, told, answered>>

Number(o) ==
  /\ parcels[o] # {}
  /\ numbered' = numbered \cup {o}
  /\ UNCHANGED <<parcels, shown, told, answered>>

Show(o, u) ==
  /\ u \in parcels[o]
  /\ answered => shown[o] \in {None, u}
  /\ shown' = [shown EXCEPT ![o] = u]
  /\ UNCHANGED <<parcels, numbered, told, answered>>

Hide(o) ==
  /\ ~answered
  /\ shown' = [shown EXCEPT ![o] = None]
  /\ UNCHANGED <<parcels, numbered, told, answered>>

Tell(o) ==
  /\ o \in numbered
  /\ told' = told \cup {o}
  /\ UNCHANGED <<parcels, numbered, shown, answered>>

LoseCall ==
  /\ answered' = FALSE
  /\ UNCHANGED <<parcels, numbered, shown, told>>

Next ==
  \/ \E o \in Order :
       \/ \E u \in Uuid : Register(o, u) \/ Show(o, u)
       \/ Number(o) \/ Hide(o) \/ Tell(o)
  \/ LoseCall

Spec == Init /\ [][Next]_parcelVars
===============================================================================
