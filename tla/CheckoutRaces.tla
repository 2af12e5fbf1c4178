---------------------------- MODULE CheckoutRaces ----------------------------
(***************************************************************************)
(* What module Payments promises about repeated checkouts.                 *)
(*                                                                         *)
(* Nothing makes the checkout requests of one key take turns: the form's   *)
(* isSubmitting belongs to the component, so that a form that was closed   *)
(* and opened again submits the key it had while the first request is      *)
(* still served, and its finally frees it when the client gives up.        *)
(* Between reading the order and storing YooKassa's answer a checkout may  *)
(* therefore meet another one of its key, and either may make a payment    *)
(* the other does not see (yookassa.service.ts:52-152).                    *)
(*                                                                         *)
(* The variable raced remembers the payments this happened to.  No guard   *)
(* reads it: the behaviours are those of Payments, and the properties say  *)
(* what they all keep for every payment that was made alone.               *)
(***************************************************************************)
EXTENDS Payments

VARIABLE raced  \* payments some checkout worked on while another was about to

racesVars == <<vars, raced>>

\* The checkout has a payment of its own in the making, or asks for it again.
OwnStep == {"link", "awaitCreate", "applyCreate", "awaitRestore", "applyRestore"}

\* It has, or it found nothing to reuse and is about to.
RaceStep == OwnStep \cup {"new"}

\* The payments that are being made beside another checkout of their order.
Racing ==
  {p \in PaymentId : \E g, h \in Handler :
     /\ g # h /\ handler[g].key = handler[h].key
     /\ handler[g].pc \in OwnStep /\ handler[g].pay = p
     /\ handler[h].pc \in RaceStep}

RacesInit == Init /\ raced = {}

RacesNext == Next /\ raced' = raced \cup Racing'

RacesSpec == RacesInit /\ [][RacesNext]_racesVars

-------------------------------------------------------------------------------
\* Properties

\* Two links of one order that can be, or were, paid exist only if the checkouts
\* that made them met: repeating a checkout after any answer, loss, restored
\* payment or death reuses what the customer holds (resolveCheckoutPayment).
TwoLinksNeedARace ==
  \A p, q \in links \ raced :
    /\ payment[p].key = payment[q].key
    /\ {provider[p], provider[q]} \subseteq {"pending", "succeeded"}
    => p = q

\* Money taken is money the order knows about: a charged payment that was made
\* alone is the order's current one, whatever other checkouts of the order race
\* later, so that its webhook and status check are not ignored as stale
\* (handleYouKassaWebhook, markCurrentPaymentOrderPaid).
ChargedAloneIsCurrent ==
  \A p \in PaymentId \ raced :
    provider[p] = "succeeded" => order[payment[p].key].current = p

-------------------------------------------------------------------------------
\* The inductive invariant behind both

\* The customer can pay p or did, or a repeated checkout would give its link.
Alive(p) == /\ provider[p] # "canceled"
            /\ p \in links \/ Reusable(payment[p])

NothingAlive(k) == \A p \in PaymentsOf(k) \ raced : ~Alive(p)

\* YooKassa knows a payment whose link was handed out; what was made alone and
\* can be paid, or was, is what a repeated checkout reuses.
LinkInv(p) ==
  /\ p \in links \/ payment[p].url => provider[p] # "absent"
  /\ provider[p] = "succeeded" => p \in links
  /\ p \notin raced /\ Alive(p) =>
       order[payment[p].key].current = p /\ Reusable(payment[p])

\* A checkout makes a payment only when none made alone is alive; until it has
\* stored the answer, the order's payment is its own or another one met it.  A
\* status check is about a payment the customer was sent to.
SessionInv(h) ==
  LET r == handler[h]
  IN  /\ r.pc \in RaceStep => NothingAlive(r.key)
      /\ r.pc \in OwnStep \ {"link"} /\ r.pay \notin raced =>
           order[r.key].current = r.pay
      /\ r.pc = "respond" => provider[r.pay] # "absent"
      /\ r.pc = "respond" /\ r.pay \notin raced =>
           Reusable(payment[r.pay]) \/ provider[r.pay] = "canceled"
      /\ r.pc \in {"awaitCheck", "applyCheck"} => r.pay \in links

SessionsInv ==
  /\ Racing \subseteq raced
  /\ \A p \in PaymentId : LinkInv(p)
  /\ \A h \in Handler : SessionInv(h)

\* The current payment of an order, the links its customer holds and the checkouts
\* in progress agree on every payment that was made alone, whichever request dies
\* where, so that a repeated checkout finds what the customer may still pay
\* (resolveCheckoutPayment).
RacesInv == IInv /\ SessionsInv
===============================================================================
