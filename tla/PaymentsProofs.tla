---------------------------- MODULE PaymentsProofs ----------------------------
(***************************************************************************)
(* Proofs about module Payments, for any sets of keys, payments and        *)
(* handlers and any number of faults.                                      *)
(*                                                                         *)
(* A handler acts on what it read before its last await.  The proof says   *)
(* why that is safe for charges: what the other handlers and YooKassa do   *)
(* meanwhile only adds to what it read (Grows), so what it remembers stays *)
(* true (HandlerStable).  Each action then has to re-establish the         *)
(* invariant for the rows it writes and for its own handler only.          *)
(*                                                                         *)
(* The second half is about CheckoutRaces.  Checkouts of one key may meet, *)
(* so the invariant speaks of the payments that were made alone: what of   *)
(* them is alive is the order's current payment, and a checkout that is    *)
(* about to replace the current payment knows that none of them is alive,  *)
(* for whatever rises beside it has met it and is remembered in raced.     *)
(***************************************************************************)
EXTENDS CheckoutRaces, TLAPS

\* Rows are not deleted nor moved to another order, outcomes are final.
Grows ==
  /\ \A p \in PaymentId : payment[p].status # "absent" =>
       payment'[p].status # "absent" /\ payment'[p].key = payment[p].key
  /\ \A p \in PaymentId : provider[p] # "absent" => provider'[p] # "absent"
  /\ \A p \in PaymentId : provider[p] \in Final => provider'[p] = provider[p]
  /\ \A k \in Key : order[k].status # "absent" => order'[k].status # "absent"

\* Money taken for an order is never forgotten.
LEMMA ChargedStable ==
  ASSUME IInv, Grows, NEW k \in Key, Charged(k)
  PROVE  Charged(k)'
<1>1. PICK p \in PaymentsOf(k) : provider[p] = "succeeded"
  BY DEF Charged
<1>2. p \in PaymentId /\ payment[p].key = k
  BY <1>1 DEF PaymentsOf
<1>3. payment[p].status # "absent"
  BY <1>1, <1>2 DEF IInv, PaymentInv
<1>4. payment'[p].key = k /\ provider'[p] = "succeeded"
  BY <1>1, <1>2, <1>3 DEF Grows, Final
<1>. QED
  BY <1>2, <1>4 DEF Charged, PaymentsOf

\* A handler that is waiting keeps its part of the invariant.
LEMMA HandlerStable ==
  ASSUME IInv, Grows, NEW h \in Handler, handler'[h] = handler[h]
  PROVE  HandlerInv(h)'
<1>1. HandlerInv(h) /\ handler[h] \in Request
  BY DEF IInv, TypeOK
<1>2. handler[h].pc = "ship" => Charged(handler[h].key)'
  BY <1>1, ChargedStable DEF HandlerInv
<1>. QED
  BY <1>1, <1>2 DEF HandlerInv, Grows, Final

\* It is enough to look at the rows and at the handler that moved.
LEMMA OneHandler ==
  ASSUME IInv, TypeOK', Grows,
         \A g \in Handler : handler'[g] = handler[g] \/ HandlerInv(g)',
         \A p \in PaymentId : PaymentInv(p)',
         \A k \in Key : OrderInv(k)'
  PROVE  IInv'
<1>1. ASSUME NEW g \in Handler, handler'[g] = handler[g] PROVE HandlerInv(g)'
  BY <1>1, HandlerStable
<1>. QED
  BY <1>1 DEF IInv

\* A step that only moves its handler, and may acknowledge a notice.
LEMMA LocalStep ==
  ASSUME IInv, NEW h \in Handler, NEW req \in Request, Become(h, req),
         notices' \subseteq notices,
         UNCHANGED <<order, payment, provider, requested, links>>,
         faults' \in 0..MaxFaults,
         HandlerInv(h)'
  PROVE  IInv'
<1>1. TypeOK'
  BY DEF IInv, TypeOK, Become
<1>2. Grows
  BY DEF Grows
<1>3. \A g \in Handler : g # h => handler'[g] = handler[g]
  BY DEF Become, IInv, TypeOK
<1>4. \A p \in PaymentId : PaymentInv(p)'
  BY DEF IInv, PaymentInv
<1>5. \A k \in Key : OrderInv(k)'
  BY DEF IInv, OrderInv, Charged, PaymentsOf
<1>. QED
  BY <1>1, <1>2, <1>3, <1>4, <1>5, OneHandler

LEMMA IdleRequest == Idle \in Request
BY DEF Idle, Request, Role, Step

\* An answered request leaves nothing to check.
LEMMA BecomeIdle ==
  ASSUME IInv, NEW h \in Handler, Become(h, Idle), notices' \subseteq notices,
         UNCHANGED <<order, payment, provider, requested, links>>,
         faults' \in 0..MaxFaults
  PROVE  IInv'
<1>1. handler'[h] = Idle
  BY DEF Become, IInv, TypeOK
<1>2. HandlerInv(h)'
  BY <1>1 DEF HandlerInv, Idle
<1>. QED
  BY <1>2, IdleRequest, LocalStep

LEMMA FinishIdle ==
  ASSUME IInv, NEW h \in Handler, Finish(h),
         UNCHANGED <<order, payment, provider, requested, links, faults>>
  PROVE  IInv'
<1>1. notices' \subseteq notices
  BY DEF Finish
<1>2. faults' \in 0..MaxFaults
  BY DEF IInv, TypeOK
<1>. QED
  BY <1>1, <1>2, BecomeIdle DEF Finish
-------------------------------------------------------------------------------
\* The invariant holds initially and each action keeps it.

LEMMA InitInv == Init => IInv
<1>. SUFFICES ASSUME Init PROVE IInv
  OBVIOUS
<1>. USE DEF Init, NoOrder, NoPayment, Idle
<1>1. TypeOK
  BY PaymentsAssumption DEF TypeOK, Order, Payment, Request, Role, Step
<1>2. \A p \in PaymentId : PaymentInv(p)
  BY DEF PaymentInv
<1>3. \A k \in Key : OrderInv(k)
  BY DEF OrderInv
<1>4. \A h \in Handler : HandlerInv(h)
  BY DEF HandlerInv
<1>. QED
  BY <1>1, <1>2, <1>3, <1>4 DEF IInv

LEMMA ResolveInv ==
  ASSUME IInv, NEW h \in Handler, NEW k \in Key, order[k].status # "absent",
         Resolve(h, k),
         UNCHANGED <<order, payment, provider, links, notices, faults>>
  PROVE  IInv'
<1>. DEFINE p == order[k].current
            pc == resolveCheckoutPayment(p)
            req == [role |-> "checkout", pc |-> pc, key |-> k, pay |-> p,
                    ans |-> "absent"]
<1>1. p \in PaymentId \cup {None} /\ OrderInv(k)
  BY DEF IInv, TypeOK, Order
<1>2. pc \in {"new", "respond", "awaitRestore"} /\ (pc # "new" => p # None)
  BY DEF resolveCheckoutPayment
<1>3. req \in Request
  BY <1>1, <1>2 DEF Request, Role, Step
<1>4. handler' = [handler EXCEPT ![h] = req]
  BY DEF Resolve, Become
<1>5. /\ requested' = IF pc = "awaitRestore" THEN requested \cup {p} ELSE requested
      /\ requested' \subseteq PaymentId
  BY <1>1, <1>2 DEF Resolve, IInv, TypeOK
<1>6. TypeOK'
  BY <1>3, <1>4, <1>5 DEF IInv, TypeOK
<1>7. Grows
  BY DEF Grows
<1>8. handler'[h] = req /\ \A g \in Handler : g # h => handler'[g] = handler[g]
  BY <1>4 DEF IInv, TypeOK
<1>9. HandlerInv(h)'
  BY <1>1, <1>2, <1>8 DEF HandlerInv, OrderInv
<1>10. \A q \in PaymentId : PaymentInv(q)'
  BY <1>1, <1>2, <1>5 DEF IInv, PaymentInv, OrderInv
<1>11. \A j \in Key : OrderInv(j)'
  BY DEF IInv, OrderInv, Charged, PaymentsOf
<1>. QED
  BY <1>6, <1>7, <1>8, <1>9, <1>10, <1>11, OneHandler
\* The steps of a request that only move it on.
LEMMA ReadInv ==
  ASSUME IInv, NEW h \in Handler,
         \/ \E k \in Key : CheckoutUnknownKey(h, k) \/ RetryShipment(h, k)
         \/ InsertConflict(h) \/ HookOrder(h) \/ MarkRead(h)
         \/ ProviderAnswers(h)
         \/ \E p \in PaymentId :
              WebhookArrives(h, p) \/ CheckOpen(h, p) \/ CheckSucceeded(h, p)
  PROVE  IInv'
<1>. DEFINE r == handler[h]
<1>1. r \in Request /\ HandlerInv(h) /\ faults \in 0..MaxFaults
  BY DEF IInv, TypeOK
<1>2. \A req : Become(h, req) => handler'[h] = req
  BY DEF Become, IInv, TypeOK
<1>3. \A pc : Goto(h, pc) <=> Become(h, [r EXCEPT !.pc = pc])
  BY DEF Goto, Become, IInv, TypeOK
<1>4. \A k \in Key : Charged(k) /\ UNCHANGED <<payment, provider>> => Charged(k)'
  BY DEF Charged, PaymentsOf
<1>5. ASSUME NEW k \in Key, CheckoutUnknownKey(h, k) PROVE IInv'
  <2>. DEFINE req == [Idle EXCEPT !.role = "checkout", !.pc = "insert", !.key = k]
  <2>1. req \in Request
    BY DEF Request, Role, Step, Idle
  <2>2. HandlerInv(h)'
    BY <1>2, <1>5 DEF CheckoutUnknownKey, HandlerInv, Idle
  <2>. QED
    BY <1>1, <1>5, <2>1, <2>2, LocalStep DEF CheckoutUnknownKey
<1>6. ASSUME NEW k \in Key, RetryShipment(h, k) PROVE IInv'
  <2>. DEFINE req == [Idle EXCEPT !.role = "retry", !.pc = "ship", !.key = k]
  <2>1. req \in Request
    BY DEF Request, Role, Step, Idle
  <2>2. Charged(k) /\ order[k].status # "absent"
    <3>1. OrderInv(k) /\ order[k] \in Order
      BY DEF IInv, TypeOK
    <3>2. CASE order[k].status \in {"PAID", "FULFILLMENT_PENDING"}
      BY <3>1, <3>2 DEF OrderInv
    <3>3. CASE /\ order[k].current # None
               /\ payment[order[k].current].status = "SUCCEEDED"
      <4>. DEFINE p == order[k].current
      <4>1. p \in PaymentId /\ payment[p].key = k /\ PaymentInv(p)
        BY <3>1, <3>3 DEF OrderInv, Order, IInv
      <4>2. provider[p] = "succeeded" /\ order[k].status # "absent"
        BY <3>3, <4>1 DEF PaymentInv
      <4>. QED
        BY <4>1, <4>2 DEF Charged, PaymentsOf
    <3>. QED
      BY <1>6, <3>2, <3>3 DEF RetryShipment, CanRetryShipment
  <2>3. HandlerInv(h)'
    BY <1>2, <1>4, <1>6, <2>2 DEF RetryShipment, HandlerInv, Idle
  <2>. QED
    BY <1>1, <1>6, <2>1, <2>3, LocalStep DEF RetryShipment
<1>7. ASSUME InsertConflict(h) PROVE IInv'
  <2>1. [r EXCEPT !.pc = "load"] \in Request
    BY <1>1 DEF Request, Step
  <2>2. handler'[h] = [r EXCEPT !.pc = "load"]
    BY <1>2, <1>3, <1>7 DEF InsertConflict
  <2>3. HandlerInv(h)'
    BY <1>1, <1>7, <2>2 DEF InsertConflict, At, HandlerInv, Request
  <2>. QED
    BY <1>1, <1>3, <1>7, <2>1, <2>3, LocalStep DEF InsertConflict
<1>8. ASSUME HookOrder(h) PROVE IInv'
  <2>. DEFINE next == IF r.ans = "succeeded" THEN "markRead" ELSE "hookReopen"
  <2>1. CASE Finish(h)
    BY <1>8, <2>1, FinishIdle DEF HookOrder
  <2>2. CASE Goto(h, next) /\ UNCHANGED notices
    <3>1. [r EXCEPT !.pc = next] \in Request
      BY <1>1 DEF Request, Step
    <3>2. handler'[h] = [r EXCEPT !.pc = next]
      BY <1>2, <1>3, <2>2
    <3>3. HandlerInv(h)'
      BY <1>1, <1>8, <3>2 DEF HookOrder, At, HandlerInv, Request, Final
    <3>. QED
      BY <1>1, <1>3, <1>8, <2>2, <3>1, <3>3, LocalStep DEF HookOrder
  <2>. QED
    BY <1>8, <2>1, <2>2 DEF HookOrder
<1>9. ASSUME MarkRead(h) PROVE IInv'
  <2>. DEFINE next == IF order[r.key].status = "PAID" THEN "ship" ELSE "markWrite"
  <2>1. [r EXCEPT !.pc = next] \in Request
    BY <1>1 DEF Request, Step
  <2>2. Charged(r.key) /\ r.key \in Key
    BY <1>1, <1>9 DEF MarkRead, At, HandlerInv, Charged, PaymentsOf
  <2>3. handler'[h] = [r EXCEPT !.pc = next]
    <3>1. Become(h, [r EXCEPT !.pc = next])
      BY <1>3, <1>9 DEF MarkRead
    <3>. QED
      BY <1>2, <3>1
  <2>5. PICK k \in Key : k = r.key /\ Charged(k)
    BY <2>2
  <2>6. Charged(k)'
    BY <1>4, <1>9, <2>5 DEF MarkRead
  <2>4. HandlerInv(h)'
    BY <1>1, <1>9, <2>3, <2>5, <2>6
    DEF MarkRead, At, HandlerInv, Request, Charged, PaymentsOf
  <2>. QED
    BY <1>1, <1>3, <1>9, <2>1, <2>4, LocalStep DEF MarkRead
<1>10. ASSUME ProviderAnswers(h) PROVE IInv'
  <2>. DEFINE req == [r EXCEPT !.pc = AfterAnswer(r.pc), !.ans = provider[r.pay]]
  <2>1. r.pay \in PaymentId /\ provider[r.pay] \in ProviderStatus
    BY <1>1, <1>10 DEF ProviderAnswers, Awaiting, HandlerInv, IInv, TypeOK
  <2>2. /\ r.pc \in Awaiting
        /\ AfterAnswer(r.pc) \in {"applyCreate", "applyRestore", "applyHook", "applyCheck"}
        /\ AfterAnswer(r.pc) = "applyHook" => r.pc = "awaitHook"
    BY <1>10 DEF ProviderAnswers, Awaiting, AfterAnswer
  <2>3. req \in Request
    BY <1>1, <2>1, <2>2 DEF Request, Step
  <2>4. handler'[h] = req
    BY <1>2, <1>10 DEF ProviderAnswers
  <2>5. HandlerInv(h)'
    BY <1>1, <1>10, <2>1, <2>2, <2>4
    DEF ProviderAnswers, HandlerInv, Awaiting, Request, ProviderStatus
  <2>. QED
    BY <1>1, <1>10, <2>3, <2>5, LocalStep DEF ProviderAnswers
<1>11. ASSUME NEW p \in PaymentId, NEW pc \in {"awaitHook", "awaitCheck", "markRead"},
              NEW role \in Role, p \in notices \cup links,
              Become(h, [role |-> role, pc |-> pc, key |-> payment[p].key,
                         pay |-> p, ans |-> "absent"]),
              pc = "awaitHook" => p \in notices,
              pc = "markRead" => payment[p].status = "SUCCEEDED",
              UNCHANGED <<order, payment, provider, requested, links, notices, faults>>
       PROVE  IInv'
  <2>1. PaymentInv(p) /\ payment[p].status # "absent"
    BY <1>11 DEF IInv, PaymentInv
  <2>2. payment[p].key \in Key /\ order[payment[p].key].status # "absent"
    BY <2>1 DEF PaymentInv
  <2>3. [role |-> role, pc |-> pc, key |-> payment[p].key, pay |-> p,
         ans |-> "absent"] \in Request
    BY <1>11, <2>2 DEF Request, Step
  <2>4. HandlerInv(h)'
    BY <1>2, <1>11, <2>1, <2>2 DEF HandlerInv, PaymentInv
  <2>. QED
    BY <1>1, <1>11, <2>3, <2>4, LocalStep
<1>12. ASSUME NEW p \in PaymentId, WebhookArrives(h, p) PROVE IInv'
  BY <1>11, <1>12 DEF WebhookArrives, Role
<1>13. ASSUME NEW p \in PaymentId, CheckOpen(h, p) PROVE IInv'
  BY <1>11, <1>13 DEF CheckOpen, CheckArrives, Role
<1>14. ASSUME NEW p \in PaymentId, CheckSucceeded(h, p) PROVE IInv'
  BY <1>11, <1>14 DEF CheckSucceeded, CheckArrives, Role
<1>. QED
  BY <1>5, <1>6, <1>7, <1>8, <1>9, <1>10, <1>12, <1>13, <1>14
\* The row of the order a handler, or the admin, gives a new status.
LEMMA OrderWrite ==
  ASSUME IInv, NEW k \in Key, NEW s \in OrderStatus,
         s \in {"PAID", "FULFILLMENT_PENDING"} => Charged(k),
         order' = [order EXCEPT ![k].status = s],
         notices' \subseteq notices,
         UNCHANGED <<payment, provider, requested, links, faults>>,
         handler' \in [Handler -> Request],
         \A g \in Handler : handler'[g] = handler[g] \/ HandlerInv(g)'
  PROVE  IInv'
<1>1. order' \in [Key -> Order] /\ s # "absent"
  BY DEF IInv, TypeOK, Order, OrderStatus
<1>2. \A j \in Key : /\ order'[j].current = order[j].current
                     /\ order'[j].status = IF j = k THEN s ELSE order[j].status
  BY DEF IInv, TypeOK, Order
<1>3. TypeOK'
  BY <1>1 DEF IInv, TypeOK
<1>4. Grows
  BY <1>1, <1>2 DEF Grows
<1>5. \A p \in PaymentId : PaymentInv(p)'
  BY <1>1, <1>2 DEF IInv, PaymentInv
<1>6. ASSUME NEW j \in Key PROVE OrderInv(j)'
  <2>1. Charged(j) => Charged(j)'
    BY DEF Charged, PaymentsOf
  <2>. QED
    BY <1>2, <2>1 DEF IInv, OrderInv
<1>. QED
  BY <1>3, <1>4, <1>5, <1>6, OneHandler

\* The row of the payment a handler gives a new status.
LEMMA PaymentWrite ==
  ASSUME IInv, NEW p \in PaymentId, NEW row \in Payment, payment[p].status # "absent",
         row.key = payment[p].key, row.status # "absent",
         row.status = "SUCCEEDED" => provider[p] = "succeeded",
         row.status = "CANCELED" => provider[p] = "canceled",
         payment' = [payment EXCEPT ![p] = row],
         requested' \subseteq requested,
         UNCHANGED <<order, provider, links, notices, faults>>,
         handler' \in [Handler -> Request],
         \A g \in Handler : handler'[g] = handler[g] \/ HandlerInv(g)'
  PROVE  IInv'
<1>1. \A q \in PaymentId : payment'[q] = IF q = p THEN row ELSE payment[q]
  BY DEF IInv, TypeOK
<1>2. TypeOK'
  BY DEF IInv, TypeOK
<1>3. Grows
  BY <1>1 DEF Grows
<1>4. \A q \in PaymentId : PaymentInv(q)'
  BY <1>1 DEF IInv, PaymentInv
<1>5. ASSUME NEW k \in Key PROVE OrderInv(k)'
  <2>1. Charged(k) => Charged(k)'
    BY <1>3, ChargedStable
  <2>2. order[k].current \in PaymentId \cup {None}
    BY DEF IInv, TypeOK, Order
  <2>. QED
    BY <1>1, <2>1, <2>2 DEF IInv, OrderInv
<1>. QED
  BY <1>2, <1>3, <1>4, <1>5, OneHandler
-------------------------------------------------------------------------------
\* The steps that write rows.

\* Facts about a handler that is past the order's creation.
LEMMA AtWork ==
  ASSUME IInv, NEW h \in Handler, handler[h].pc \notin {"idle", "insert"}
  PROVE  /\ handler[h] \in Request /\ HandlerInv(h)
         /\ handler[h].key \in Key /\ order[handler[h].key].status # "absent"
         /\ handler[h].pc \notin {"load", "new", "ship"} =>
              /\ handler[h].pay \in PaymentId
              /\ payment[handler[h].pay] \in Payment
              /\ payment[handler[h].pay].status # "absent"
              /\ payment[handler[h].pay].key = handler[h].key
BY DEF IInv, TypeOK, HandlerInv

LEMMA Moves ==
  ASSUME IInv, NEW h \in Handler, NEW req \in Request, Become(h, req)
  PROVE  /\ handler' \in [Handler -> Request]
         /\ handler'[h] = req
         /\ \A g \in Handler : g # h => handler'[g] = handler[g]
BY DEF IInv, TypeOK, Become

LEMMA GotoBecome ==
  ASSUME IInv, NEW h \in Handler, NEW pc \in Step, Goto(h, pc)
  PROVE  /\ [handler[h] EXCEPT !.pc = pc] \in Request
         /\ Become(h, [handler[h] EXCEPT !.pc = pc])
BY DEF IInv, TypeOK, Goto, Become, Request

LEMMA InsertOrderInv ==
  ASSUME IInv, NEW h \in Handler, InsertOrder(h)
  PROVE  IInv'
<1>. DEFINE r == handler[h]
            req == [r EXCEPT !.pc = "load"]
<1>1. r \in Request /\ r.pc = "insert" /\ r.key \in Key /\ HandlerInv(h)
  BY DEF InsertOrder, At, HandlerInv, IInv, TypeOK
<1>2. req \in Request /\ Become(h, req)
  BY GotoBecome DEF InsertOrder, Step
<1>3. /\ handler' \in [Handler -> Request] /\ handler'[h] = req
      /\ \A g \in Handler : g # h => handler'[g] = handler[g]
  BY <1>2, Moves
<1>4. order' = [order EXCEPT ![r.key].status = "PENDING_PAYMENT"]
  BY DEF InsertOrder
<1>5. order'[r.key].status = "PENDING_PAYMENT"
  BY <1>1, <1>4 DEF IInv, TypeOK, Order
<1>6. HandlerInv(h)'
  BY <1>1, <1>3, <1>5 DEF HandlerInv, Request
<1>. QED
  BY <1>1, <1>3, <1>4, <1>6, OrderWrite DEF InsertOrder, OrderStatus

LEMMA CreatePaymentInv ==
  ASSUME IInv, NEW h \in Handler, CreatePayment(h)
  PROVE  IInv'
<1>. DEFINE r == handler[h]
<1>1. /\ r \in Request /\ HandlerInv(h)
      /\ r.key \in Key /\ order[r.key].status # "absent"
  BY AtWork DEF CreatePayment, At
<1>2. PICK p \in PaymentId :
        /\ payment[p].status = "absent"
        /\ payment' = [payment EXCEPT ![p] = FreshPayment(r.key)]
        /\ Become(h, [r EXCEPT !.pc = "link", !.pay = p, !.ans = "absent"])
  BY DEF CreatePayment
<1>. DEFINE req == [r EXCEPT !.pc = "link", !.pay = p, !.ans = "absent"]
<1>3. /\ FreshPayment(r.key) \in Payment
      /\ FreshPayment(r.key).key = r.key /\ FreshPayment(r.key).status = "PENDING"
  BY <1>1 DEF FreshPayment, NoPayment, Payment, PaymentStatus
<1>4. \A q \in PaymentId :
        payment'[q] = IF q = p THEN FreshPayment(r.key) ELSE payment[q]
  BY <1>2 DEF IInv, TypeOK
<1>5. req \in Request
  BY <1>1 DEF Request, Step
<1>6. /\ handler' \in [Handler -> Request] /\ handler'[h] = req
      /\ \A g \in Handler : g # h => handler'[g] = handler[g]
  BY <1>2, <1>5, Moves
<1>7. TypeOK'
  BY <1>2, <1>3, <1>6 DEF CreatePayment, IInv, TypeOK
<1>8. Grows
  BY <1>2, <1>4 DEF CreatePayment, Grows
<1>9. HandlerInv(h)'
  BY <1>1, <1>3, <1>4, <1>6 DEF CreatePayment, HandlerInv, Request
<1>10. \A q \in PaymentId : PaymentInv(q)'
  BY <1>1, <1>2, <1>3, <1>4 DEF CreatePayment, IInv, PaymentInv
<1>11. ASSUME NEW k \in Key PROVE OrderInv(k)'
  <2>1. Charged(k) => Charged(k)'
    BY <1>8, ChargedStable
  <2>2. order[k].current \in PaymentId \cup {None}
    BY DEF IInv, TypeOK, Order
  <2>. QED
    BY <1>2, <1>4, <2>1, <2>2 DEF CreatePayment, IInv, OrderInv
<1>. QED
  BY <1>6, <1>7, <1>8, <1>9, <1>10, <1>11, OneHandler

LEMMA LinkPaymentInv ==
  ASSUME IInv, NEW h \in Handler, LinkPayment(h)
  PROVE  IInv'
<1>. DEFINE r == handler[h]
            req == [r EXCEPT !.pc = "awaitCreate"]
<1>1. /\ r \in Request /\ HandlerInv(h) /\ r.pc = "link"
      /\ r.key \in Key /\ order[r.key].status # "absent"
      /\ r.pay \in PaymentId /\ payment[r.pay].status # "absent"
      /\ payment[r.pay].key = r.key
  BY AtWork DEF LinkPayment, At
<1>2. req \in Request /\ Become(h, req)
  BY GotoBecome DEF LinkPayment, Step
<1>3. /\ handler' \in [Handler -> Request] /\ handler'[h] = req
      /\ \A g \in Handler : g # h => handler'[g] = handler[g]
  BY <1>2, Moves
<1>4. \A k \in Key : /\ order'[k].status = order[k].status
                     /\ order'[k].current = IF k = r.key THEN r.pay
                                                        ELSE order[k].current
  BY <1>1 DEF LinkPayment, IInv, TypeOK, Order
<1>5. TypeOK'
  BY <1>1, <1>3 DEF LinkPayment, IInv, TypeOK, Order
<1>6. Grows
  BY <1>4 DEF LinkPayment, Grows
<1>7. HandlerInv(h)'
  BY <1>1, <1>3, <1>4 DEF LinkPayment, HandlerInv, Request
<1>8. \A q \in PaymentId : PaymentInv(q)'
  BY <1>1, <1>4 DEF LinkPayment, IInv, PaymentInv
<1>9. ASSUME NEW k \in Key PROVE OrderInv(k)'
  <2>1. Charged(k) => Charged(k)'
    BY <1>6, ChargedStable
  <2>. QED
    BY <1>1, <1>4, <2>1 DEF LinkPayment, IInv, OrderInv
<1>. QED
  BY <1>3, <1>5, <1>6, <1>7, <1>8, <1>9, OneHandler
\* A row written from an answer of the provider keeps the invariant.
LEMMA UpdateRow ==
  ASSUME NEW s \in ProviderStatus, NEW row \in Payment
  PROVE  LET new == buildPaymentUpdateFromProvider(row, s)
         IN  /\ new \in Payment /\ new.key = row.key /\ new.status # "absent"
             /\ new.status = "SUCCEEDED" => s = "succeeded"
             /\ new.status = "CANCELED" => s = "canceled"
BY DEF buildPaymentUpdateFromProvider, mapYooKassaStatus, Payment, PaymentStatus,
       ProviderStatus

LEMMA ApplyInv ==
  ASSUME IInv, NEW h \in Handler,
         ApplyCreate(h) \/ ApplyRestore(h) \/ ApplyCheck(h)
  PROVE  IInv'
<1>. DEFINE r == handler[h]
            row == buildPaymentUpdateFromProvider(payment[r.pay], r.ans)
<1>1. /\ r.pc \in {"applyCreate", "applyRestore", "applyCheck"}
      /\ payment' = [payment EXCEPT ![r.pay] = row]
      /\ UNCHANGED <<order, provider, requested, links, notices, faults>>
  BY DEF ApplyCreate, ApplyRestore, ApplyCheck, At, UpdateFromProvider
<1>2. /\ r \in Request /\ HandlerInv(h)
      /\ r.key \in Key /\ order[r.key].status # "absent"
      /\ r.pay \in PaymentId /\ payment[r.pay] \in Payment
      /\ payment[r.pay].status # "absent" /\ payment[r.pay].key = r.key
  BY <1>1, AtWork
<1>3. r.ans \in ProviderStatus /\ (r.ans \in Final => provider[r.pay] = r.ans)
  BY <1>1, <1>2 DEF HandlerInv
<1>4. /\ row \in Payment /\ row.key = payment[r.pay].key /\ row.status # "absent"
      /\ row.status = "SUCCEEDED" => provider[r.pay] = "succeeded"
      /\ row.status = "CANCELED" => provider[r.pay] = "canceled"
  BY <1>2, <1>3, UpdateRow DEF Final
<1>5. payment'[r.pay] = row
  BY <1>1, <1>2 DEF IInv, TypeOK
<1>6. \/ Become(h, Idle)
      \/ \E pc \in {"respond", "new"} : Become(h, [r EXCEPT !.pc = pc])
      \/ row.status = "SUCCEEDED" /\ Become(h, [r EXCEPT !.pc = "markRead"])
  BY <1>5, GotoBecome DEF ApplyCreate, ApplyRestore, ApplyCheck, Step
<1>7. PICK req \in Request :
        /\ Become(h, req)
        /\ \/ req = Idle
           \/ \E pc \in {"respond", "new"} : req = [r EXCEPT !.pc = pc]
           \/ row.status = "SUCCEEDED" /\ req = [r EXCEPT !.pc = "markRead"]
  BY <1>2, <1>6, IdleRequest DEF Request, Step
<1>8. /\ handler' \in [Handler -> Request] /\ handler'[h] = req
      /\ \A g \in Handler : g # h => handler'[g] = handler[g]
  BY <1>7, Moves
<1>9. HandlerInv(h)'
  <2>1. CASE req = Idle
    BY <1>8, <2>1 DEF HandlerInv, Idle
  <2>2. CASE \E pc \in {"respond", "new"} : req = [r EXCEPT !.pc = pc]
    BY <1>1, <1>2, <1>4, <1>5, <1>8, <2>2 DEF HandlerInv, Request
  <2>3. CASE row.status = "SUCCEEDED" /\ req = [r EXCEPT !.pc = "markRead"]
    BY <1>1, <1>2, <1>4, <1>5, <1>8, <2>3 DEF HandlerInv, Request
  <2>. QED
    BY <1>7, <2>1, <2>2, <2>3
<1>. QED
  BY <1>1, <1>2, <1>4, <1>8, <1>9, PaymentWrite

LEMMA ApplyHookInv ==
  ASSUME IInv, NEW h \in Handler, ApplyHook(h)
  PROVE  IInv'
<1>. DEFINE r == handler[h]
            req == [r EXCEPT !.pc = "hookOrder"]
            row == [payment[r.pay] EXCEPT !.status = mapYooKassaStatus(r.ans),
                                          !.registered = TRUE]
<1>1. /\ r \in Request /\ HandlerInv(h) /\ r.pc = "applyHook"
      /\ r.key \in Key /\ order[r.key].status # "absent"
      /\ r.pay \in PaymentId /\ payment[r.pay] \in Payment
      /\ payment[r.pay].status # "absent" /\ payment[r.pay].key = r.key
  BY AtWork DEF ApplyHook, At
<1>2. payment' = [payment EXCEPT ![r.pay] = row]
  BY <1>1 DEF ApplyHook, IInv, TypeOK
<1>3. r.ans \in ProviderStatus /\ (r.ans \in Final => provider[r.pay] = r.ans)
  BY <1>1 DEF HandlerInv
<1>4. /\ row \in Payment /\ row.key = payment[r.pay].key /\ row.status # "absent"
      /\ row.status = "SUCCEEDED" => provider[r.pay] = "succeeded"
      /\ row.status = "CANCELED" => provider[r.pay] = "canceled"
  BY <1>1, <1>3 DEF mapYooKassaStatus, Payment, PaymentStatus, Final, ProviderStatus
<1>5. req \in Request /\ Become(h, req)
  BY GotoBecome DEF ApplyHook, Step
<1>6. /\ handler' \in [Handler -> Request] /\ handler'[h] = req
      /\ \A g \in Handler : g # h => handler'[g] = handler[g]
  BY <1>5, Moves
<1>7. payment'[r.pay] = row
  BY <1>1, <1>2 DEF IInv, TypeOK
<1>8. UNCHANGED <<order, provider, requested, links, notices, faults>>
  BY DEF ApplyHook
<1>9. payment'[r.pay].status # "absent" /\ payment'[r.pay].key = r.key
  BY <1>1, <1>4, <1>7
<1>10. /\ handler'[h].pc = "hookOrder" /\ handler'[h].key = r.key
       /\ handler'[h].pay = r.pay /\ handler'[h].ans = r.ans
  BY <1>1, <1>6 DEF Request
<1>11. HandlerInv(h)'
  BY <1>1, <1>8, <1>9, <1>10 DEF HandlerInv
<1>. QED
  BY <1>1, <1>2, <1>4, <1>6, <1>8, <1>11, PaymentWrite

LEMMA FailInv ==
  ASSUME IInv, NEW h \in Handler, NEW e \in ProviderError,
         CreateFails(h, e) \/ RestoreFails(h, e)
  PROVE  IInv'
<1>. DEFINE r == handler[h]
<1>1. /\ r.pc \in {"awaitCreate", "applyCreate", "awaitRestore", "applyRestore"}
      /\ requested' \subseteq requested
      /\ UNCHANGED <<order, provider, links, notices, faults>>
  BY DEF CreateFails, RestoreFails, At, CallFails
<1>2. /\ r \in Request /\ HandlerInv(h)
      /\ r.key \in Key /\ order[r.key].status # "absent"
      /\ r.pay \in PaymentId /\ payment[r.pay] \in Payment
      /\ payment[r.pay].status # "absent" /\ payment[r.pay].key = r.key
  BY <1>1, AtWork
<1>3. PICK s \in {payment[r.pay].status, "FAILED", "PROVIDER_UNKNOWN"} :
        payment' = [payment EXCEPT ![r.pay].status = s]
  <2>1. CASE CreateFails(h, e)
    <3>1. failedStatus(e) \in {"FAILED", "PROVIDER_UNKNOWN"}
      BY DEF failedStatus
    <3>. QED
      BY <2>1, <3>1 DEF CreateFails
  <2>2. CASE RestoreFails(h, e) /\ payment' = payment
    <3>1. [payment EXCEPT ![r.pay].status = payment[r.pay].status] = payment
      BY <1>2 DEF IInv, TypeOK, Payment
    <3>. QED
      BY <2>2, <3>1
  <2>3. CASE RestoreFails(h, e) /\ payment' # payment
    BY <2>3, Zenon DEF RestoreFails
  <2>. QED
    BY <2>1, <2>2, <2>3
<1>. DEFINE row == [payment[r.pay] EXCEPT !.status = s]
<1>4. payment' = [payment EXCEPT ![r.pay] = row]
  BY <1>2, <1>3 DEF IInv, TypeOK
<1>5. PaymentInv(r.pay)
  BY <1>2 DEF IInv
<1>6. /\ row \in Payment /\ row.key = payment[r.pay].key /\ row.status # "absent"
      /\ row.status = "SUCCEEDED" => provider[r.pay] = "succeeded"
      /\ row.status = "CANCELED" => provider[r.pay] = "canceled"
  BY <1>2, <1>3, <1>5 DEF PaymentInv, Payment, PaymentStatus
<1>7. PICK req \in Request : /\ Become(h, req)
                             /\ req = Idle \/ req = [r EXCEPT !.pc = "new"]
  BY GotoBecome, IdleRequest DEF CreateFails, RestoreFails, Step
<1>8. /\ handler' \in [Handler -> Request] /\ handler'[h] = req
      /\ \A g \in Handler : g # h => handler'[g] = handler[g]
  BY <1>7, Moves
<1>9. HandlerInv(h)'
  BY <1>1, <1>2, <1>7, <1>8 DEF HandlerInv, Idle, Request
<1>. QED
  BY <1>1, <1>2, <1>4, <1>6, <1>8, <1>9, PaymentWrite
\* The steps of a handler that write the order's status and end there, or go
\* on to ship it.
LEMMA StatusInv ==
  ASSUME IInv, NEW h \in Handler,
         HookReopen(h) \/ MarkWrite(h) \/ ShipSucceeds(h)
  PROVE  IInv'
<1>. DEFINE r == handler[h]
<1>1. r.pc \in {"hookReopen", "markWrite", "ship"}
  BY DEF HookReopen, MarkWrite, ShipSucceeds, At
<1>2. r \in Request /\ HandlerInv(h) /\ r.key \in Key /\ order[r.key].status # "absent"
  BY <1>1, AtWork
<1>3. PICK s \in OrderStatus :
        /\ order' = [order EXCEPT ![r.key].status = s]
        /\ s \in {"PAID", "FULFILLMENT_PENDING"} => r.pc \in {"markWrite", "ship"}
  BY DEF HookReopen, MarkWrite, ShipSucceeds, OrderStatus, At
<1>4. r.pc \in {"markWrite", "ship"} => Charged(r.key)
  BY <1>1, <1>2, AtWork DEF HandlerInv, Charged, PaymentsOf
<1>5. notices' \subseteq notices
  BY DEF HookReopen, MarkWrite, ShipSucceeds, Finish
<1>6. UNCHANGED <<payment, provider, requested, links, faults>>
  BY DEF HookReopen, MarkWrite, ShipSucceeds
<1>7. PICK req \in Request :
        /\ Become(h, req)
        /\ req = Idle \/ (r.pc = "markWrite" /\ req = [r EXCEPT !.pc = "ship"])
  BY GotoBecome, IdleRequest DEF HookReopen, MarkWrite, ShipSucceeds, Finish, Step, At
<1>8. /\ handler' \in [Handler -> Request] /\ handler'[h] = req
      /\ \A g \in Handler : g # h => handler'[g] = handler[g]
  BY <1>7, Moves
<1>9. HandlerInv(h)'
  <2>1. CASE req = Idle
    BY <1>8, <2>1 DEF HandlerInv, Idle
  <2>2. CASE r.pc = "markWrite" /\ req = [r EXCEPT !.pc = "ship"]
    <3>1. PICK k \in Key : k = r.key /\ Charged(k)
      BY <1>2, <1>4, <2>2
    <3>2. handler'[h].pc = "ship" /\ handler'[h].key = k
      BY <1>2, <1>8, <2>2, <3>1 DEF Request
    <3>3. \E p \in PaymentsOf(k)' : provider'[p] = "succeeded"
      BY <1>6, <3>1 DEF Charged, PaymentsOf
    <3>4. order'[k].status # "absent"
      BY <1>2, <1>3, <3>1 DEF IInv, TypeOK, Order, OrderStatus
    <3>. QED
      BY <3>1, <3>2, <3>3, <3>4 DEF HandlerInv, Charged
  <2>. QED
    BY <1>7, <2>1, <2>2
<1>. QED
  BY <1>2, <1>3, <1>4, <1>5, <1>6, <1>8, <1>9, OrderWrite

LEMMA AdminInv ==
  ASSUME IInv, NEW k \in Key, NEW s \in {"SHIPPED", "DELIVERED", "CANCELLED"},
         AdminUpdateStatus(k, s)
  PROVE  IInv'
<1>1. s \in OrderStatus /\ s \notin {"PAID", "FULFILLMENT_PENDING"}
  BY DEF OrderStatus
<1>2. /\ order' = [order EXCEPT ![k].status = s]
      /\ UNCHANGED <<payment, provider, requested, links, notices, handler, faults>>
  BY DEF AdminUpdateStatus
<1>3. handler' \in [Handler -> Request]
  BY <1>2 DEF IInv, TypeOK
<1>. QED
  BY <1>1, <1>2, <1>3, OrderWrite

\* What YooKassa does reaches no handler and no row.
LEMMA ProviderInv ==
  ASSUME IInv, NEW p \in PaymentId,
         ProviderCreates(p) \/ CustomerPays(p) \/ ProviderCancels(p)
  PROVE  IInv'
<1>1. /\ UNCHANGED <<order, payment, requested, links, handler, faults>>
      /\ \E s \in ProviderStatus :
           /\ provider' = [provider EXCEPT ![p] = s]
           /\ \/ /\ provider[p] = "absent" /\ p \in requested
                 /\ notices' = notices
              \/ /\ provider[p] = "pending" /\ s \in Final
                 /\ notices' = notices \cup {p}
  BY DEF ProviderCreates, CustomerPays, ProviderCancels, Settle, ProviderStatus, Final
<1>2. PICK s \in ProviderStatus :
        /\ \A q \in PaymentId : provider'[q] = IF q = p THEN s ELSE provider[q]
        /\ provider' \in [PaymentId -> ProviderStatus \cup {"absent"}]
        /\ provider[p] \notin Final
        /\ notices' \subseteq notices \cup {p}
        /\ p \in notices' => s \in Final
        /\ p \in requested \/ provider[p] # "absent"
  BY <1>1 DEF IInv, TypeOK, Final, PaymentInv
<1>3. TypeOK'
  BY <1>1, <1>2 DEF IInv, TypeOK
<1>4. Grows
  BY <1>1, <1>2 DEF Grows, ProviderStatus
<1>5. \A q \in PaymentId : PaymentInv(q)'
  BY <1>1, <1>2 DEF IInv, PaymentInv, Final
<1>6. ASSUME NEW k \in Key PROVE OrderInv(k)'
  <2>1. Charged(k) => Charged(k)'
    BY <1>4, ChargedStable
  <2>. QED
    BY <1>1, <2>1 DEF IInv, OrderInv
<1>. QED
  BY <1>1, <1>3, <1>4, <1>5, <1>6, OneHandler

LEMMA RespondInv ==
  ASSUME IInv, NEW h \in Handler, Respond(h)
  PROVE  IInv'
<1>1. /\ handler[h].pay \in PaymentId
      /\ payment[handler[h].pay].status # "absent"
  BY AtWork DEF Respond, At
<1>2. Become(h, Idle) /\ links' = links \cup {handler[h].pay}
  BY DEF Respond
<1>3. /\ handler' \in [Handler -> Request] /\ handler'[h] = Idle
      /\ \A g \in Handler : g # h => handler'[g] = handler[g]
  BY <1>2, IdleRequest, Moves
<1>4. TypeOK'
  BY <1>1, <1>2, <1>3 DEF Respond, IInv, TypeOK
<1>5. Grows
  BY DEF Respond, Grows
<1>6. HandlerInv(h)'
  BY <1>3 DEF HandlerInv, Idle
<1>7. \A p \in PaymentId : PaymentInv(p)'
  BY <1>1, <1>2 DEF Respond, IInv, PaymentInv
<1>8. \A k \in Key : OrderInv(k)'
  BY DEF Respond, IInv, OrderInv, Charged, PaymentsOf
<1>. QED
  BY <1>3, <1>4, <1>5, <1>6, <1>7, <1>8, OneHandler

\* The steps that end a request.
LEMMA EndInv ==
  ASSUME IInv, NEW h \in Handler,
         \/ NoMorePayments(h) \/ GetFails(h) \/ HandlerDies(h)
         \/ MarkSkipped(h) \/ ShipFails(h)
  PROVE  IInv'
<1>1. CASE NoMorePayments(h) \/ GetFails(h) \/ HandlerDies(h)
  <2>1. faults' \in 0..MaxFaults
    BY <1>1, PaymentsAssumption
    DEF NoMorePayments, GetFails, HandlerDies, IInv, TypeOK
  <2>. QED
    BY <1>1, <2>1, BecomeIdle DEF NoMorePayments, GetFails, HandlerDies
<1>2. CASE MarkSkipped(h) \/ ShipFails(h)
  BY <1>2, FinishIdle DEF MarkSkipped, ShipFails
<1>. QED
  BY <1>1, <1>2
LEMMA CheckoutInv ==
  ASSUME IInv, NEW h \in Handler,
         LoadOrder(h) \/ \E k \in Key : CheckoutKnownKey(h, k)
  PROVE  IInv'
<1>1. CASE LoadOrder(h)
  <2>1. handler[h].key \in Key /\ order[handler[h].key].status # "absent"
    BY <1>1, AtWork DEF LoadOrder, At
  <2>. QED
    BY <1>1, <2>1, ResolveInv DEF LoadOrder
<1>2. ASSUME NEW k \in Key, CheckoutKnownKey(h, k) PROVE IInv'
  BY <1>2, ResolveInv DEF CheckoutKnownKey
<1>. QED
  BY <1>1, <1>2

LEMMA StutterInv == IInv /\ UNCHANGED vars => IInv'
<1>. SUFFICES ASSUME IInv, UNCHANGED vars PROVE IInv'
  OBVIOUS
<1>1. TypeOK'
  BY DEF IInv, TypeOK, vars
<1>2. Grows
  BY DEF Grows, vars
<1>3. \A p \in PaymentId : PaymentInv(p)'
  BY DEF IInv, PaymentInv, vars
<1>4. \A k \in Key : OrderInv(k)'
  BY DEF IInv, OrderInv, Charged, PaymentsOf, vars
<1>. QED
  BY <1>1, <1>2, <1>3, <1>4, OneHandler DEF vars

LEMMA NextInv == IInv /\ [Next]_vars => IInv'
<1>. SUFFICES ASSUME IInv, [Next]_vars PROVE IInv'
  OBVIOUS
<1>1. ASSUME NEW h \in Handler, Continue(h) PROVE IInv'
  BY <1>1, InsertOrderInv, ReadInv, CheckoutInv, CreatePaymentInv, LinkPaymentInv,
     ApplyInv, ApplyHookInv, FailInv, RespondInv, StatusInv, EndInv
  DEF Continue
<1>2. ASSUME NEW h \in Handler, HandlerDies(h) PROVE IInv'
  BY <1>2, EndInv
<1>3. ASSUME NEW h \in Handler, NEW k \in Key,
             CheckoutUnknownKey(h, k) \/ CheckoutKnownKey(h, k) \/ RetryShipment(h, k)
      PROVE  IInv'
  BY <1>3, ReadInv, CheckoutInv
<1>4. ASSUME NEW h \in Handler, NEW p \in PaymentId,
             WebhookArrives(h, p) \/ CheckOpen(h, p) \/ CheckSucceeded(h, p)
      PROVE  IInv'
  BY <1>4, ReadInv
<1>. QED
  BY <1>1, <1>2, <1>3, <1>4, AdminInv, ProviderInv, StutterInv DEF Next

-------------------------------------------------------------------------------
\* Theorems

\* The inductive invariant: rows, YooKassa and handlers never disagree.
THEOREM Invariance == Spec => []IInv
<1>1. Init => IInv
  BY InitInv
<1>2. IInv /\ [Next]_vars => IInv'
  BY NextInv
<1>. QED
  BY <1>1, <1>2, PTL DEF Spec

\* Every variable keeps its type, whatever the number of requests in progress.
THEOREM TypeCorrect == Spec => []TypeOK
<1>1. IInv => TypeOK
  BY DEF IInv
<1>. QED
  BY <1>1, Invariance, PTL

\* No order is paid, and none is shipped by a handler, unless YooKassa took the
\* customer's money for it (markCurrentPaymentOrderPaid, retryShipment).
THEOREM PaidOrderWasChargedTheorem == Spec => []PaidOrderWasCharged
<1>1. IInv => PaidOrderWasCharged
  BY DEF IInv, OrderInv, HandlerInv, PaidOrderWasCharged, At
<1>. QED
  BY <1>1, Invariance, PTL

\* A final status in the Payment table is YooKassa's own, however late the
\* answer was that a handler wrote it from.
THEOREM LocalOutcomeIsRealTheorem == Spec => []LocalOutcomeIsReal
<1>1. IInv => LocalOutcomeIsReal
  BY DEF IInv, PaymentInv, LocalOutcomeIsReal
<1>. QED
  BY <1>1, Invariance, PTL
-------------------------------------------------------------------------------
\* Payments implements OrderLifecycle

\* A step that settles no payment and moves no settled one to another order.
KeepsOutcomes ==
  \A p \in PaymentId :
    provider[p] \in Final \/ provider'[p] \in Final =>
      provider'[p] = provider[p] /\ payment'[p].key = payment[p].key

LEMMA OutcomesMap ==
  ASSUME KeepsOutcomes
  PROVE  /\ {k \in Key : Charged(k)}' = {k \in Key : Charged(k)}
         /\ {k \in Key : Refused(k)}' = {k \in Key : Refused(k)}
<1>1. \A p \in PaymentId :
        /\ provider'[p] = "succeeded" <=> provider[p] = "succeeded"
        /\ provider'[p] = "canceled" <=> provider[p] = "canceled"
        /\ provider[p] \in {"succeeded", "canceled"} => payment'[p].key = payment[p].key
  BY DEF KeepsOutcomes, Final
<1>. QED
  BY <1>1 DEF Charged, Refused, PaymentsOf

\* Seen from the contract, nothing happens ...
LEMMA Stutters ==
  ASSUME KeepsOutcomes, \A k \in Key : order'[k].status = order[k].status
  PROVE  UNCHANGED Lifecycle!lifecycleVars
BY OutcomesMap DEF Lifecycle!lifecycleVars

\* ... or one order moves.
LEMMA MovesOrder ==
  ASSUME TypeOK, NEW k \in Key, NEW s, UNCHANGED <<payment, provider>>,
         order' = [order EXCEPT ![k].status = s]
  PROVE  Lifecycle!MoveTo(k, s)
<1>1. KeepsOutcomes
  BY DEF KeepsOutcomes
<1>2. [j \in Key |-> order[j].status]' = [[j \in Key |-> order[j].status] EXCEPT ![k] = s]
  BY DEF TypeOK, Order
<1>. QED
  BY <1>1, <1>2, OutcomesMap DEF Lifecycle!MoveTo

LEMMA HandlerStepMaps ==
  ASSUME IInv, NEW h \in Handler, Continue(h)
  PROVE  Lifecycle!Next \/ UNCHANGED Lifecycle!lifecycleVars
<1>. DEFINE r == handler[h]
<1>. USE DEF Lifecycle!Next, Lifecycle!Placed
<1>1. CASE UNCHANGED <<order, payment, provider>>
  BY <1>1, Stutters DEF KeepsOutcomes
<1>2. CASE InsertOrder(h)
  <2>1. r.key \in Key
    BY <1>2 DEF InsertOrder, At, IInv, HandlerInv
  <2>2. Lifecycle!MoveTo(r.key, "PENDING_PAYMENT")
    BY <1>2, <2>1, MovesOrder DEF InsertOrder, IInv
  <2>. QED
    BY <1>2, <2>1, <2>2 DEF InsertOrder, Lifecycle!Place
<1>3. CASE CreatePayment(h)
  <2>1. PICK p \in PaymentId : /\ payment[p].status = "absent"
                               /\ payment' = [payment EXCEPT ![p] = FreshPayment(r.key)]
    BY <1>3 DEF CreatePayment
  <2>2. provider[p] = "absent"
    BY <2>1 DEF IInv, PaymentInv
  <2>3. KeepsOutcomes
    BY <1>3, <2>1, <2>2 DEF CreatePayment, KeepsOutcomes, Final, IInv, TypeOK
  <2>. QED
    BY <1>3, <2>3, Stutters DEF CreatePayment
<1>4. CASE LinkPayment(h)
  <2>1. \A k \in Key : order'[k].status = order[k].status
    BY <1>4 DEF LinkPayment, IInv, TypeOK, Order
  <2>. QED
    BY <1>4, <2>1, Stutters DEF LinkPayment, KeepsOutcomes
<1>5. CASE /\ UNCHANGED <<order, provider>>
           /\ \E row : /\ payment' = [payment EXCEPT ![r.pay] = row]
                       /\ row.key = payment[r.pay].key
  BY <1>5, Stutters DEF KeepsOutcomes, IInv, TypeOK
<1>6. CASE ApplyCreate(h) \/ ApplyRestore(h) \/ ApplyCheck(h)
  <2>1. payment' = [payment EXCEPT ![r.pay] =
                      buildPaymentUpdateFromProvider(payment[r.pay], r.ans)]
    BY <1>6 DEF ApplyCreate, ApplyRestore, ApplyCheck, UpdateFromProvider
  <2>2. payment[r.pay] \in Payment
    BY <1>6, AtWork DEF ApplyCreate, ApplyRestore, ApplyCheck, At
  <2>3. buildPaymentUpdateFromProvider(payment[r.pay], r.ans).key = payment[r.pay].key
    BY <2>2 DEF buildPaymentUpdateFromProvider, Payment
  <2>. QED
    BY <1>5, <1>6, <2>1, <2>3 DEF ApplyCreate, ApplyRestore, ApplyCheck
<1>7. CASE ApplyHook(h) \/ \E e \in ProviderError : CreateFails(h, e) \/ RestoreFails(h, e)
  <2>1. payment[r.pay] \in Payment /\ r.pay \in PaymentId
    BY <1>7, AtWork DEF ApplyHook, CreateFails, RestoreFails, At
  <2>2. \A p \in PaymentId : payment'[p].key = payment[p].key
    <3>1. CASE ApplyHook(h)
      BY <2>1, <3>1 DEF ApplyHook, IInv, TypeOK, Payment
    <3>2. ASSUME NEW e \in ProviderError, CreateFails(h, e)
          PROVE  \A p \in PaymentId : payment'[p].key = payment[p].key
      BY <2>1, <3>2 DEF CreateFails, IInv, TypeOK, Payment
    <3>3. ASSUME NEW e \in ProviderError, RestoreFails(h, e)
          PROVE  \A p \in PaymentId : payment'[p].key = payment[p].key
      <4>1. \/ payment' = payment
            \/ payment' = [payment EXCEPT ![r.pay].status = "FAILED"]
        BY <3>3, Zenon DEF RestoreFails
      <4>. QED
        BY <2>1, <4>1 DEF IInv, TypeOK, Payment
    <3>. QED
      BY <1>7, <3>1, <3>2, <3>3
  <2>3. UNCHANGED <<order, provider>>
    BY <1>7 DEF ApplyHook, CreateFails, RestoreFails
  <2>. QED
    BY <2>2, <2>3, Stutters DEF KeepsOutcomes
<1>8. CASE HookReopen(h)
  <2>1. /\ r.key \in Key /\ order[r.key].status # "absent"
        /\ r.pay \in PaymentsOf(r.key) /\ provider[r.pay] = "canceled"
    BY <1>8, AtWork DEF HookReopen, At, HandlerInv, PaymentsOf
  <2>2. Lifecycle!MoveTo(r.key, "PENDING_PAYMENT")
    BY <1>8, <2>1, MovesOrder DEF HookReopen, IInv
  <2>. QED
    BY <2>1, <2>2 DEF Lifecycle!Reopen, Refused
<1>9. CASE MarkWrite(h)
  <2>1. /\ r.key \in Key /\ order[r.key].status # "absent"
        /\ r.pay \in PaymentsOf(r.key) /\ provider[r.pay] = "succeeded"
    BY <1>9, AtWork DEF MarkWrite, At, HandlerInv, PaymentsOf
  <2>2. Lifecycle!MoveTo(r.key, "PAID")
    BY <1>9, <2>1, MovesOrder DEF MarkWrite, IInv
  <2>. QED
    BY <2>1, <2>2 DEF Lifecycle!Confirm, Charged
<1>10. CASE ShipSucceeds(h)
  <2>1. r.key \in Key /\ order[r.key].status # "absent" /\ Charged(r.key)
    BY <1>10, AtWork DEF ShipSucceeds, At, HandlerInv
  <2>2. Lifecycle!MoveTo(r.key, "FULFILLMENT_PENDING")
    BY <1>10, <2>1, MovesOrder DEF ShipSucceeds, IInv
  <2>. QED
    BY <2>1, <2>2 DEF Lifecycle!Dispatch
<1>. QED
  BY <1>1, <1>2, <1>3, <1>4, <1>6, <1>7, <1>8, <1>9, <1>10
  DEF Continue, InsertConflict, LoadOrder, NoMorePayments, Respond, HookOrder,
      MarkSkipped, MarkRead, ShipFails, ProviderAnswers, GetFails

LEMMA SettleMaps ==
  ASSUME IInv, NEW p \in PaymentId, NEW s \in Final, Settle(p, s)
  PROVE  Lifecycle!Next
<1>. DEFINE k == payment[p].key
<1>1. k \in Key /\ order[k].status # "absent" /\ provider[p] = "pending"
  BY DEF Settle, IInv, PaymentInv
<1>2. \A q \in PaymentId : provider'[q] = IF q = p THEN s ELSE provider[q]
  BY DEF Settle, IInv, TypeOK
<1>3. UNCHANGED <<order, payment>>
  BY DEF Settle
<1>4. CASE s = "succeeded"
  <2>1. {j \in Key : Charged(j)}' = {j \in Key : Charged(j)} \cup {k}
    BY <1>1, <1>2, <1>3, <1>4 DEF Charged, PaymentsOf
  <2>2. {j \in Key : Refused(j)}' = {j \in Key : Refused(j)}
    BY <1>1, <1>2, <1>3, <1>4 DEF Refused, PaymentsOf
  <2>. QED
    BY <1>1, <1>3, <2>1, <2>2
    DEF Lifecycle!Next, Lifecycle!Charge, Lifecycle!Placed
<1>5. CASE s = "canceled"
  <2>1. {j \in Key : Refused(j)}' = {j \in Key : Refused(j)} \cup {k}
    BY <1>1, <1>2, <1>3, <1>5 DEF Refused, PaymentsOf
  <2>2. {j \in Key : Charged(j)}' = {j \in Key : Charged(j)}
    BY <1>1, <1>2, <1>3, <1>5 DEF Charged, PaymentsOf
  <2>. QED
    BY <1>1, <1>3, <2>1, <2>2
    DEF Lifecycle!Next, Lifecycle!Refuse, Lifecycle!Placed
<1>. QED
  BY <1>4, <1>5 DEF Final

LEMMA StepMaps ==
  IInv /\ [Next]_vars => [Lifecycle!Next]_Lifecycle!lifecycleVars
<1>. SUFFICES ASSUME IInv, [Next]_vars
              PROVE  Lifecycle!Next \/ UNCHANGED Lifecycle!lifecycleVars
  OBVIOUS
<1>1. CASE UNCHANGED <<order, payment, provider>>
  BY <1>1, Stutters DEF KeepsOutcomes
<1>2. ASSUME NEW k \in Key, NEW s \in {"SHIPPED", "DELIVERED", "CANCELLED"},
             AdminUpdateStatus(k, s)
      PROVE  Lifecycle!Next
  <2>1. Lifecycle!MoveTo(k, s)
    BY <1>2, MovesOrder DEF AdminUpdateStatus, IInv
  <2>. QED
    BY <1>2, <2>1
    DEF AdminUpdateStatus, Lifecycle!Next, Lifecycle!Close, Lifecycle!Placed
<1>3. ASSUME NEW p \in PaymentId, ProviderCreates(p)
      PROVE  UNCHANGED Lifecycle!lifecycleVars
  BY <1>3, Stutters DEF ProviderCreates, KeepsOutcomes, Final, IInv, TypeOK
<1>4. ASSUME NEW p \in PaymentId, CustomerPays(p) \/ ProviderCancels(p)
      PROVE  Lifecycle!Next
  BY <1>4, SettleMaps DEF CustomerPays, ProviderCancels, Final
<1>. QED
  BY <1>1, <1>2, <1>3, <1>4, HandlerStepMaps
  DEF Next, vars, HandlerDies, CheckoutUnknownKey, CheckoutKnownKey, RetryShipment,
      WebhookArrives, CheckOpen, CheckSucceeded, CheckArrives

\* Every run of the handlers, webhooks and crashes is a run of the contract in
\* OrderLifecycle: an order is confirmed and dispatched after its charge only,
\* reopened after a cancellation only, and otherwise moved by the admin alone.
THEOREM Refinement == Spec => ImplementsLifecycle
<1>1. Init => Lifecycle!Init
  BY DEF Init, Lifecycle!Init, NoOrder, NoPayment, Charged, Refused, PaymentsOf
<1>2. IInv /\ [Next]_vars => [Lifecycle!Next]_Lifecycle!lifecycleVars
  BY StepMaps
<1>. QED
  BY <1>1, <1>2, Invariance, PTL DEF Spec, ImplementsLifecycle, Lifecycle!Spec
-------------------------------------------------------------------------------
\* Checkouts that meet

\* The history variable keeps what it has and takes in who meets.
Watched == raced \subseteq raced' /\ Racing' \subseteq raced'

\* No payment of key k that was made alone comes alive in the step.
NoneRises(k) ==
  \A p \in PaymentId \ raced' :
    payment'[p].key = k /\ Alive(p)' => payment[p].key = k /\ Alive(p)

\* The payment of a checkout that meets another one is remembered.
LEMMA Met ==
  ASSUME SessionsInv, NEW g \in Handler, NEW h \in Handler, g # h,
         handler[g].key = handler[h].key, handler[g].pc \in OwnStep,
         handler[g].pay \in PaymentId, handler[h].pc \in RaceStep
  PROVE  handler[g].pay \in raced
BY DEF SessionsInv, Racing

LEMMA MetNow ==
  ASSUME Watched, NEW g \in Handler, NEW h \in Handler, g # h,
         handler'[g].key = handler'[h].key, handler'[g].pc \in OwnStep,
         handler'[g].pay \in PaymentId, handler'[h].pc \in RaceStep
  PROVE  handler'[g].pay \in raced'
BY DEF Watched, Racing

\* A payment that can be paid or reused has a row, and the row an order.
LEMMA AliveRow ==
  ASSUME IInv, NEW p \in PaymentId, Alive(p)
  PROVE  payment[p].status # "absent" /\ payment[p].key \in Key
<1>1. payment[p].status # "absent"
  BY DEF IInv, PaymentInv, Alive, Reusable
<1>. QED
  BY <1>1 DEF IInv, PaymentInv

\* A request that waits keeps its part of the invariant.
LEMMA SessionKept ==
  ASSUME IInv, Watched, NEW h \in Handler, SessionInv(h), handler'[h] = handler[h],
         \A p \in PaymentId : provider[p] # "absent" => provider'[p] # "absent",
         links \subseteq links',
         handler[h].pc \in RaceStep => NoneRises(handler[h].key),
         handler[h].pc \in OwnStep \ {"link"} /\ handler[h].pay \notin raced' =>
           order'[handler[h].key].current = order[handler[h].key].current,
         /\ handler[h].pc = "respond" /\ handler[h].pay \notin raced'
         /\ Reusable(payment[handler[h].pay]) \/ provider[handler[h].pay] = "canceled"
         => \/ Reusable(payment'[handler[h].pay])
            \/ provider'[handler[h].pay] = "canceled"
  PROVE  SessionInv(h)'
<1>1. handler[h].pc = "respond" => handler[h].pay \in PaymentId
  BY DEF IInv, HandlerInv
<1>2. handler[h].pc \in RaceStep => NothingAlive(handler[h].key)'
  BY DEF SessionInv, NoneRises, NothingAlive, PaymentsOf, Watched
<1>. QED
  BY <1>1, <1>2 DEF SessionInv, Watched

\* A step that touches neither payments nor links nor the current payment of an order.
LEMMA SessionLocal ==
  ASSUME IInv, SessionsInv, Watched, NEW h \in Handler,
         \A g \in Handler : g # h => handler'[g] = handler[g],
         UNCHANGED <<payment, provider, links>>,
         \A k \in Key : order'[k].current = order[k].current,
         SessionInv(h)'
  PROVE  SessionsInv'
<1>1. \A k : NoneRises(k)
  BY DEF NoneRises, Alive
<1>2. ASSUME NEW g \in Handler, g # h PROVE SessionInv(g)'
  <2>1. handler[g].pc \in OwnStep => handler[g].key \in Key
    BY DEF IInv, HandlerInv, OwnStep
  <2>. QED
    BY <1>1, <1>2, <2>1, SessionKept DEF SessionsInv
<1>3. ASSUME NEW p \in PaymentId PROVE LinkInv(p)'
  <2>1. Alive(p)' <=> Alive(p)
    BY DEF Alive
  <2>. QED
    BY <2>1, AliveRow DEF SessionsInv, LinkInv, Watched
<1>. QED
  BY <1>2, <1>3 DEF SessionsInv, Watched

\* The request is over, or is none of a checkout's.
LEMMA SessionIdle ==
  ASSUME NEW h \in Handler, handler'[h].pc \notin RaceStep \cup {"respond"},
         handler'[h].pc \in {"awaitCheck", "applyCheck"} => handler'[h].pay \in links'
  PROVE  SessionInv(h)'
BY DEF SessionInv, RaceStep, OwnStep

\* What is not reused says that nothing made alone is alive.
LEMMA NotReused ==
  ASSUME SessionsInv, NEW k \in Key,
         order[k].current = None \/ ~Reusable(payment[order[k].current]),
         None \notin PaymentId
  PROVE  NothingAlive(k)
BY DEF NothingAlive, PaymentsOf, SessionsInv, LinkInv

LEMMA ResolveSession ==
  ASSUME IInv, SessionsInv, Watched, NEW h \in Handler, NEW k \in Key, Resolve(h, k),
         UNCHANGED <<order, payment, provider, links>>
  PROVE  SessionsInv'
<1>. DEFINE p == order[k].current
            pc == resolveCheckoutPayment(p)
            req == [role |-> "checkout", pc |-> pc, key |-> k, pay |-> p,
                    ans |-> "absent"]
<1>1. p \in PaymentId \cup {None}
  BY DEF IInv, TypeOK, Order
<1>2. /\ pc \in {"new", "respond", "awaitRestore"}
      /\ pc = "respond" => p # None /\ Reusable(payment[p])
      /\ pc # "respond" => p = None \/ ~Reusable(payment[p])
  BY DEF resolveCheckoutPayment, Reusable
<1>3. req \in Request
  BY <1>1, <1>2 DEF Request, Role, Step
<1>4. handler'[h] = req /\ \A g \in Handler : g # h => handler'[g] = handler[g]
  BY <1>3, Moves DEF Resolve
<1>5. pc # "respond" => NothingAlive(k)'
  <2>1. pc # "respond" => NothingAlive(k)
    BY <1>2, NotReused, PaymentsAssumption
  <2>. QED
    BY <2>1 DEF NothingAlive, PaymentsOf, Alive, Watched
<1>6. pc = "respond" => provider[p] # "absent"
  BY <1>1, <1>2 DEF IInv, PaymentInv, SessionsInv, LinkInv, Reusable
<1>7. SessionInv(h)'
  BY <1>2, <1>4, <1>5, <1>6 DEF SessionInv, RaceStep, OwnStep
<1>. QED
  BY <1>4, <1>7, SessionLocal

LEMMA CheckoutSession ==
  ASSUME IInv, SessionsInv, Watched, NEW h \in Handler,
         \/ InsertOrder(h) \/ InsertConflict(h) \/ LoadOrder(h)
         \/ \E k \in Key : CheckoutUnknownKey(h, k) \/ CheckoutKnownKey(h, k)
  PROVE  SessionsInv'
<1>1. CASE InsertOrder(h) \/ InsertConflict(h)
  <2>1. Goto(h, "load") /\ UNCHANGED <<payment, provider, links>>
    BY <1>1 DEF InsertOrder, InsertConflict
  <2>2. /\ handler'[h] = [handler[h] EXCEPT !.pc = "load"]
        /\ \A g \in Handler : g # h => handler'[g] = handler[g]
    BY <2>1, GotoBecome, Moves DEF Step
  <2>3. handler'[h].pc = "load"
    BY <2>2 DEF IInv, TypeOK, Request
  <2>4. SessionInv(h)'
    BY <2>3, SessionIdle DEF RaceStep, OwnStep
  <2>5. \A k \in Key : order'[k].current = order[k].current
    BY <1>1 DEF InsertOrder, InsertConflict, IInv, TypeOK, Order
  <2>. QED
    BY <2>1, <2>2, <2>4, <2>5, SessionLocal
<1>2. CASE LoadOrder(h)
  <2>1. handler[h].key \in Key
    BY <1>2, AtWork DEF LoadOrder, At
  <2>. QED
    BY <1>2, <2>1, ResolveSession DEF LoadOrder
<1>3. ASSUME NEW k \in Key, CheckoutKnownKey(h, k) PROVE SessionsInv'
  BY <1>3, ResolveSession DEF CheckoutKnownKey
<1>4. ASSUME NEW k \in Key, CheckoutUnknownKey(h, k) PROVE SessionsInv'
  <2>. DEFINE req == [Idle EXCEPT !.role = "checkout", !.pc = "insert", !.key = k]
  <2>1. req \in Request /\ Become(h, req)
    BY <1>4 DEF CheckoutUnknownKey, Request, Role, Step, Idle
  <2>2. handler'[h] = req /\ \A g \in Handler : g # h => handler'[g] = handler[g]
    BY <2>1, Moves
  <2>3. SessionInv(h)'
    BY <2>2, SessionIdle DEF Idle, RaceStep, OwnStep
  <2>. QED
    BY <1>4, <2>2, <2>3, SessionLocal DEF CheckoutUnknownKey
<1>. QED
  BY <1>1, <1>2, <1>3, <1>4

\* A handler that becomes a request outside the checkout's steps, or goes on in it.
LEMMA OutsideSession ==
  ASSUME IInv, SessionsInv, Watched, NEW h \in Handler, NEW req \in Request,
         Become(h, req), req.pc \notin RaceStep \cup {"respond"},
         req.pc \in {"awaitCheck", "applyCheck"} => req.pay \in links,
         UNCHANGED <<payment, provider, links>>,
         \A k \in Key : order'[k].current = order[k].current
  PROVE  SessionsInv'
<1>1. handler'[h] = req /\ \A g \in Handler : g # h => handler'[g] = handler[g]
  BY Moves
<1>2. SessionInv(h)'
  BY <1>1, SessionIdle
<1>. QED
  BY <1>1, <1>2, SessionLocal

\* Webhooks, status checks, retries and the admin touch no session.
LEMMA OtherSession ==
  ASSUME IInv, SessionsInv, Watched, NEW h \in Handler,
         \/ \E k \in Key : RetryShipment(h, k)
         \/ \E p \in PaymentId :
              WebhookArrives(h, p) \/ CheckOpen(h, p) \/ CheckSucceeded(h, p)
         \/ HookOrder(h) \/ MarkRead(h) \/ MarkWrite(h)
         \/ HookReopen(h) \/ MarkSkipped(h)
         \/ ShipSucceeds(h) \/ ShipFails(h)
         \/ NoMorePayments(h) \/ GetFails(h) \/ HandlerDies(h)
  PROVE  SessionsInv'
<1>1. ASSUME NEW k \in Key, RetryShipment(h, k) PROVE SessionsInv'
  <2>. DEFINE req == [Idle EXCEPT !.role = "retry", !.pc = "ship", !.key = k]
  <2>1. /\ req \in Request /\ req.pc \notin RaceStep \cup {"respond"}
        /\ req.pc \notin {"awaitCheck", "applyCheck"}
    BY DEF Request, Role, Step, Idle, RaceStep, OwnStep
  <2>. QED
    BY <1>1, <2>1, OutsideSession DEF RetryShipment
<1>2. ASSUME NEW p \in PaymentId, NEW pc \in {"awaitHook", "awaitCheck", "markRead"},
             NEW role \in {"webhook", "check"}, p \in notices \cup links,
             pc = "awaitCheck" => p \in links,
             Become(h, [role |-> role, pc |-> pc, key |-> payment[p].key,
                        pay |-> p, ans |-> "absent"]),
             UNCHANGED <<order, payment, provider, links>>
      PROVE  SessionsInv'
  <2>. DEFINE req == [role |-> role, pc |-> pc, key |-> payment[p].key, pay |-> p,
                      ans |-> "absent"]
  <2>1. payment[p].key \in Key
    BY <1>2 DEF IInv, PaymentInv
  <2>2. req \in Request /\ req.pc \notin RaceStep \cup {"respond"}
    BY <2>1 DEF Request, Role, Step, RaceStep, OwnStep
  <2>. QED
    BY <1>2, <2>2, OutsideSession
<1>3. ASSUME NEW p \in PaymentId,
             WebhookArrives(h, p) \/ CheckOpen(h, p) \/ CheckSucceeded(h, p)
      PROVE  SessionsInv'
  BY <1>2, <1>3 DEF WebhookArrives, CheckOpen, CheckSucceeded, CheckArrives
<1>4. CASE (HookOrder(h) /\ ~Finish(h)) \/ MarkRead(h) \/ MarkWrite(h)
  <2>1. PICK pc \in {"markRead", "hookReopen", "ship", "markWrite"} : Goto(h, pc)
    BY <1>4 DEF HookOrder, MarkRead, MarkWrite
  <2>2. /\ [handler[h] EXCEPT !.pc = pc] \in Request
        /\ Become(h, [handler[h] EXCEPT !.pc = pc])
    BY <2>1, GotoBecome DEF Step
  <2>3. [handler[h] EXCEPT !.pc = pc].pc
          \notin RaceStep \cup {"respond", "awaitCheck", "applyCheck"}
    BY <2>1 DEF IInv, TypeOK, Request, RaceStep, OwnStep
  <2>4. \A k \in Key : order'[k].current = order[k].current
    BY <1>4 DEF HookOrder, MarkRead, MarkWrite, IInv, TypeOK, Order
  <2>. QED
    BY <1>4, <2>2, <2>3, <2>4, OutsideSession DEF HookOrder, MarkRead, MarkWrite
<1>5. CASE \/ HookOrder(h) /\ Finish(h)
           \/ HookReopen(h) \/ MarkSkipped(h)
           \/ ShipSucceeds(h) \/ ShipFails(h)
           \/ NoMorePayments(h) \/ GetFails(h) \/ HandlerDies(h)
  <2>1. Become(h, Idle) /\ UNCHANGED <<payment, provider, links>>
    BY <1>5 DEF HookOrder, HookReopen, MarkSkipped, ShipSucceeds, ShipFails, Finish,
                NoMorePayments, GetFails, HandlerDies
  <2>2. \A k \in Key : order'[k].current = order[k].current
    BY <1>5 DEF HookOrder, HookReopen, MarkSkipped, ShipSucceeds, ShipFails,
                NoMorePayments, GetFails, HandlerDies, IInv, TypeOK, Order
  <2>3. Idle.pc \notin RaceStep \cup {"respond", "awaitCheck", "applyCheck"}
    BY DEF Idle, RaceStep, OwnStep
  <2>. QED
    BY <2>1, <2>2, <2>3, IdleRequest, OutsideSession
<1>. QED
  BY <1>1, <1>3, <1>4, <1>5

LEMMA AnswerSession ==
  ASSUME IInv, SessionsInv, Watched, NEW h \in Handler, ProviderAnswers(h)
  PROVE  SessionsInv'
<1>. DEFINE r == handler[h]
            req == [r EXCEPT !.pc = AfterAnswer(r.pc), !.ans = provider[r.pay]]
<1>1. /\ r \in Request /\ HandlerInv(h) /\ SessionInv(h)
      /\ r.pay \in PaymentId /\ provider[r.pay] \in ProviderStatus
  BY DEF ProviderAnswers, Awaiting, HandlerInv, IInv, TypeOK, SessionsInv
<1>2. /\ r.pc \in Awaiting
      /\ AfterAnswer(r.pc) \in {"applyCreate", "applyRestore", "applyHook", "applyCheck"}
      /\ AfterAnswer(r.pc) \in {"applyCreate", "applyRestore"} =>
           r.pc \in {"awaitCreate", "awaitRestore"}
      /\ AfterAnswer(r.pc) = "applyCheck" => r.pc = "awaitCheck"
  BY DEF ProviderAnswers, Awaiting, AfterAnswer
<1>3. req \in Request
  BY <1>1, <1>2 DEF Request, Step
<1>4. handler'[h] = req /\ \A g \in Handler : g # h => handler'[g] = handler[g]
  BY <1>3, Moves DEF ProviderAnswers
<1>5. /\ handler'[h].pc = AfterAnswer(r.pc)
      /\ handler'[h].key = r.key /\ handler'[h].pay = r.pay
  BY <1>1, <1>4 DEF Request
<1>6. \A k : NothingAlive(k) => NothingAlive(k)'
  BY DEF ProviderAnswers, NothingAlive, PaymentsOf, Alive, Watched
<1>7. SessionInv(h)'
  BY <1>1, <1>2, <1>5, <1>6 DEF ProviderAnswers, SessionInv, RaceStep, OwnStep, Watched
<1>. QED
  BY <1>4, <1>7, SessionLocal DEF ProviderAnswers

\* A handler writes a payment's row.  The payment may come alive only by the hand of
\* the checkout that makes it; a payment that could be reused still can, or is canceled.
LEMMA SessionWrite ==
  ASSUME IInv, SessionsInv, Watched, NEW h \in Handler, NEW p \in PaymentId, NEW row,
         payment' = [payment EXCEPT ![p] = row], row.key = payment[p].key,
         row.url => payment[p].url \/ provider[p] # "absent",
         p \notin raced' /\ provider[p] # "canceled" /\ p \in links => Reusable(row),
         p \notin raced' /\ provider[p] # "canceled" /\ Reusable(row) =>
           \/ Alive(p)
           \/ /\ handler[h].pc \in OwnStep \ {"link"} /\ handler[h].pay = p
              /\ handler[h].key = payment[p].key,
         p \notin raced' /\ Reusable(payment[p]) =>
           Reusable(row) \/ provider[p] = "canceled",
         UNCHANGED <<order, provider, links>>,
         \A g \in Handler : g # h => handler'[g] = handler[g],
         SessionInv(h)'
  PROVE  SessionsInv'
<1>1. \A q \in PaymentId : payment'[q] = IF q = p THEN row ELSE payment[q]
  BY DEF IInv, TypeOK
<1>2. ASSUME NEW g \in Handler, g # h, handler[g].pc \in RaceStep
      PROVE  NoneRises(handler[g].key)
  <2>1. \/ p \in raced'
        \/ payment[p].key # handler[g].key
        \/ ~(/\ handler[h].pc \in OwnStep \ {"link"} /\ handler[h].pay = p
             /\ handler[h].key = payment[p].key)
    BY <1>2, Met DEF Watched
  <2>2. p \notin raced' /\ payment[p].key = handler[g].key /\ Alive(p)' => Alive(p)
    BY <1>1, <2>1 DEF Alive
  <2>. QED
    BY <1>1, <2>2 DEF NoneRises, Alive
<1>3. ASSUME NEW g \in Handler, g # h PROVE SessionInv(g)'
  <2>1. handler[g].pc = "respond" => handler[g].pay \in PaymentId
    BY DEF IInv, HandlerInv
  <2>. QED
    BY <1>1, <1>2, <1>3, <2>1, SessionKept DEF SessionsInv
<1>4. ASSUME NEW q \in PaymentId PROVE LinkInv(q)'
  <2>1. LinkInv(q) /\ SessionInv(h)
    BY DEF SessionsInv
  <2>2. CASE q # p
    BY <1>1, <2>1, <2>2 DEF LinkInv, Alive, Watched
  <2>3. CASE q = p
    <3>1. q \in links \/ payment'[q].url => provider'[q] # "absent"
      BY <1>1, <2>1, <2>3 DEF LinkInv
    <3>2. ASSUME q \notin raced', Alive(q)'
          PROVE  order'[payment'[q].key].current = q /\ Reusable(payment'[q])
      <4>1. provider[p] # "canceled" /\ (p \in links \/ Reusable(row))
        BY <1>1, <2>3, <3>2 DEF Alive
      <4>2. Reusable(row) /\ p \notin raced
        BY <2>3, <3>2, <4>1 DEF Watched
      <4>3. order[payment[p].key].current = p
        BY <2>1, <2>3, <3>2, <4>1, <4>2 DEF LinkInv, SessionInv
      <4>. QED
        BY <1>1, <2>3, <4>2, <4>3
    <3>. QED
      BY <2>1, <3>1, <3>2 DEF LinkInv
  <2>. QED
    BY <2>2, <2>3
<1>. QED
  BY <1>3, <1>4 DEF SessionsInv, Watched

\* What an answer makes of a row: something to reuse, unless YooKassa canceled.
LEMMA AnsweredRow ==
  ASSUME NEW s \in ProviderStatus, NEW row \in Payment
  PROVE  LET new == buildPaymentUpdateFromProvider(row, s)
         IN  Reusable(new) \/ s = "canceled"
BY DEF buildPaymentUpdateFromProvider, mapYooKassaStatus, Payment, ProviderStatus,
       Reusable

LEMMA ApplySession ==
  ASSUME IInv, SessionsInv, Watched, NEW h \in Handler,
         ApplyCreate(h) \/ ApplyRestore(h) \/ ApplyCheck(h)
  PROVE  SessionsInv'
<1>. DEFINE r == handler[h]
            row == buildPaymentUpdateFromProvider(payment[r.pay], r.ans)
<1>1. /\ r.pc \in {"applyCreate", "applyRestore", "applyCheck"}
      /\ payment' = [payment EXCEPT ![r.pay] = row]
      /\ UNCHANGED <<order, provider, links>>
  BY DEF ApplyCreate, ApplyRestore, ApplyCheck, At, UpdateFromProvider
<1>2. /\ r \in Request /\ HandlerInv(h) /\ SessionInv(h)
      /\ r.pay \in PaymentId /\ payment[r.pay] \in Payment
      /\ payment[r.pay].key = r.key
  BY <1>1, AtWork DEF SessionsInv
<1>3. /\ r.ans \in ProviderStatus /\ provider[r.pay] # "absent"
      /\ r.ans \in Final => provider[r.pay] = r.ans
  BY <1>1, <1>2 DEF HandlerInv
<1>4. row.key = payment[r.pay].key /\ (Reusable(row) \/ provider[r.pay] = "canceled")
  BY <1>2, <1>3, UpdateRow, AnsweredRow DEF Final
<1>5. payment'[r.pay] = row
  BY <1>1, <1>2 DEF IInv, TypeOK
<1>6. \/ Become(h, Idle)
      \/ Become(h, [r EXCEPT !.pc = "markRead"]) /\ r.pc = "applyCheck"
      \/ Become(h, [r EXCEPT !.pc = "respond"]) /\ r.pc # "applyCheck"
      \/ /\ Become(h, [r EXCEPT !.pc = "new"]) /\ r.pc = "applyRestore"
         /\ ~Reusable(row)
  BY <1>5, GotoBecome DEF ApplyCreate, ApplyRestore, ApplyCheck, Step, At
<1>7. PICK req \in Request :
        /\ Become(h, req)
        /\ \/ req = Idle
           \/ req = [r EXCEPT !.pc = "markRead"] /\ r.pc = "applyCheck"
           \/ req = [r EXCEPT !.pc = "respond"] /\ r.pc # "applyCheck"
           \/ req = [r EXCEPT !.pc = "new"] /\ r.pc = "applyRestore" /\ ~Reusable(row)
  BY <1>2, <1>6, IdleRequest DEF Request, Step
<1>8. handler'[h] = req /\ \A g \in Handler : g # h => handler'[g] = handler[g]
  BY <1>7, Moves
<1>9. \/ handler'[h].pc \in {"idle", "markRead"}
      \/ /\ handler'[h].key = r.key /\ handler'[h].pay = r.pay
         /\ \/ handler'[h].pc = "respond"
            \/ /\ handler'[h].pc = "new" /\ r.pc = "applyRestore" /\ ~Reusable(row)
  BY <1>2, <1>7, <1>8 DEF Request, Idle
<1>10. ASSUME handler'[h].pc = "new", NEW k, k = r.key PROVE NothingAlive(k)'
  <2>1. NothingAlive(k) /\ ~Reusable(row)
    BY <1>2, <1>9, <1>10 DEF SessionInv, RaceStep, OwnStep
  <2>2. \A q \in PaymentId : payment'[q] = IF q = r.pay THEN row ELSE payment[q]
    BY <1>1 DEF IInv, TypeOK
  <2>. QED
    BY <1>1, <1>4, <2>1, <2>2 DEF NothingAlive, PaymentsOf, Alive, Watched
<1>11. SessionInv(h)'
  BY <1>1, <1>3, <1>4, <1>5, <1>9, <1>10 DEF SessionInv, RaceStep, OwnStep
<1>12. r.pc = "applyCheck" /\ r.pay \notin raced' /\ provider[r.pay] # "canceled"
       => Alive(r.pay)
  BY <1>2 DEF SessionInv, Alive
<1>. QED
  BY <1>1, <1>2, <1>3, <1>4, <1>8, <1>11, <1>12, SessionWrite DEF OwnStep

LEMMA HookSession ==
  ASSUME IInv, SessionsInv, Watched, NEW h \in Handler, ApplyHook(h)
  PROVE  SessionsInv'
<1>. DEFINE r == handler[h]
            row == [payment[r.pay] EXCEPT !.status = mapYooKassaStatus(r.ans),
                                          !.registered = TRUE]
<1>1. /\ r \in Request /\ HandlerInv(h) /\ r.pc = "applyHook"
      /\ r.pay \in PaymentId /\ payment[r.pay] \in Payment
  BY AtWork DEF ApplyHook, At
<1>2. payment' = [payment EXCEPT ![r.pay] = row] /\ UNCHANGED <<order, provider, links>>
  BY <1>1 DEF ApplyHook, IInv, TypeOK
<1>3. r.ans \in Final /\ provider[r.pay] = r.ans
  BY <1>1 DEF HandlerInv
<1>4. /\ row.key = payment[r.pay].key /\ row.url = payment[r.pay].url
      /\ Reusable(row) \/ provider[r.pay] = "canceled"
  BY <1>1, <1>3 DEF mapYooKassaStatus, Payment, Final, Reusable
<1>5. provider[r.pay] # "canceled" => Alive(r.pay)
  BY <1>1, <1>3 DEF SessionsInv, LinkInv, Alive, Final
<1>6. /\ handler'[h] = [r EXCEPT !.pc = "hookOrder"]
      /\ \A g \in Handler : g # h => handler'[g] = handler[g]
  BY GotoBecome, Moves DEF ApplyHook, Step
<1>7. SessionInv(h)'
  BY <1>1, <1>6, SessionIdle DEF Request, RaceStep, OwnStep
<1>. QED
  BY <1>1, <1>2, <1>4, <1>5, <1>6, <1>7, SessionWrite

LEMMA FailSession ==
  ASSUME IInv, SessionsInv, Watched, NEW h \in Handler, NEW e \in ProviderError,
         CreateFails(h, e) \/ RestoreFails(h, e)
  PROVE  SessionsInv'
<1>. DEFINE r == handler[h]
<1>1. /\ r.pc \in {"awaitCreate", "applyCreate", "awaitRestore", "applyRestore"}
      /\ UNCHANGED <<order, provider, links>>
  BY DEF CreateFails, RestoreFails, At
<1>2. /\ r \in Request /\ SessionInv(h) /\ HandlerInv(h)
      /\ r.pay \in PaymentId /\ payment[r.pay] \in Payment
      /\ payment[r.pay].key = r.key
  BY <1>1, AtWork DEF SessionsInv
<1>3. NothingAlive(r.key)
  BY <1>1, <1>2 DEF SessionInv, RaceStep, OwnStep
<1>4. PICK s \in PaymentStatus :
        /\ payment' = [payment EXCEPT ![r.pay].status = s]
        /\ Reusable([payment[r.pay] EXCEPT !.status = s]) => s = payment[r.pay].status
  <2>1. CASE payment' = payment
    <3>1. [payment EXCEPT ![r.pay].status = payment[r.pay].status] = payment
      BY <1>2 DEF IInv, TypeOK, Payment
    <3>2. payment[r.pay].status \in PaymentStatus
      BY <1>1, <1>2 DEF HandlerInv, Payment
    <3>. QED
      BY <2>1, <3>1, <3>2
  <2>2. CASE payment' # payment
    <3>1. \E s \in {"FAILED", "PROVIDER_UNKNOWN"} :
            payment' = [payment EXCEPT ![r.pay].status = s]
      BY <2>2 DEF CreateFails, RestoreFails, failedStatus
    <3>. QED
      BY <1>2, <3>1 DEF PaymentStatus, Payment, Reusable
  <2>. QED
    BY <2>1, <2>2
<1>. DEFINE row == [payment[r.pay] EXCEPT !.status = s]
<1>5. payment' = [payment EXCEPT ![r.pay] = row]
  BY <1>2, <1>4 DEF IInv, TypeOK
<1>6. row.key = payment[r.pay].key /\ row.url = payment[r.pay].url
  BY <1>2 DEF Payment
<1>7. Reusable(row) => Reusable(payment[r.pay])
  BY <1>2, <1>4, <1>6 DEF Payment, Reusable
<1>8. PICK req \in Request : /\ Become(h, req)
                             /\ req = Idle \/ req = [r EXCEPT !.pc = "new"]
  BY GotoBecome, IdleRequest DEF CreateFails, RestoreFails, Step
<1>9. handler'[h] = req /\ \A g \in Handler : g # h => handler'[g] = handler[g]
  BY <1>8, Moves
<1>10. ASSUME NEW k, k = r.key PROVE NothingAlive(k)'
  <2>1. \A q \in PaymentId : payment'[q] = IF q = r.pay THEN row ELSE payment[q]
    BY <1>5 DEF IInv, TypeOK
  <2>. QED
    BY <1>1, <1>3, <1>6, <1>10, <1>7, <2>1 DEF NothingAlive, PaymentsOf, Alive, Watched
<1>11. \/ handler'[h].pc = "idle"
       \/ handler'[h].key = r.key /\ handler'[h].pc = "new"
  BY <1>2, <1>8, <1>9 DEF Request, Idle
<1>12. SessionInv(h)'
  BY <1>10, <1>11 DEF SessionInv, RaceStep, OwnStep
<1>13. r.pay \notin raced' => ~Alive(r.pay)
  BY <1>2, <1>3 DEF NothingAlive, PaymentsOf, Watched
<1>. QED
  BY <1>1, <1>2, <1>5, <1>6, <1>7, <1>9, <1>12, <1>13, SessionWrite DEF Alive

LEMMA CreateSession ==
  ASSUME IInv, SessionsInv, Watched, NEW h \in Handler, CreatePayment(h)
  PROVE  SessionsInv'
<1>. DEFINE r == handler[h]
<1>1. r \in Request /\ r.pc = "new" /\ SessionInv(h)
  BY DEF CreatePayment, At, IInv, TypeOK, SessionsInv
<1>2. PICK p \in PaymentId :
        /\ payment[p].status = "absent"
        /\ payment' = [payment EXCEPT ![p] = FreshPayment(r.key)]
        /\ Become(h, [r EXCEPT !.pc = "link", !.pay = p, !.ans = "absent"])
  BY DEF CreatePayment
<1>3. provider[p] = "absent" /\ p \notin links
  BY <1>2 DEF IInv, PaymentInv
<1>4. [r EXCEPT !.pc = "link", !.pay = p, !.ans = "absent"] \in Request
  BY <1>1 DEF Request, Step
<1>5. /\ handler'[h] = [r EXCEPT !.pc = "link", !.pay = p, !.ans = "absent"]
      /\ \A g \in Handler : g # h => handler'[g] = handler[g]
  BY <1>2, <1>4, Moves
<1>6. handler'[h].key = r.key /\ handler'[h].pc = "link"
  BY <1>1, <1>5 DEF Request
<1>7. /\ \A q \in PaymentId : q # p => payment'[q] = payment[q]
      /\ payment'[p].url = FALSE /\ payment'[p].status = "PENDING"
  BY <1>2 DEF IInv, TypeOK, FreshPayment, NoPayment
<1>8. UNCHANGED <<order, provider, links>>
  BY DEF CreatePayment
<1>9. \A k : NoneRises(k)
  <2>1. ASSUME NEW q \in PaymentId, Alive(q)' PROVE q # p /\ Alive(q)
    BY <1>3, <1>7, <1>8, <2>1 DEF Alive, Reusable
  <2>. QED
    BY <1>7, <2>1 DEF NoneRises
<1>10. SessionInv(h)'
  <2>1. ASSUME NEW k, k = r.key PROVE NothingAlive(k)'
    <3>1. NothingAlive(k)
      BY <1>1, <2>1 DEF SessionInv, RaceStep
    <3>. QED
      BY <1>9, <3>1 DEF NoneRises, NothingAlive, PaymentsOf, Watched
  <2>. QED
    BY <1>6, <2>1 DEF SessionInv, OwnStep
<1>11. ASSUME NEW g \in Handler, g # h PROVE SessionInv(g)'
  <2>1. handler[g].pc = "respond" => handler[g].pay \in PaymentId /\ handler[g].pay # p
    BY <1>2 DEF IInv, HandlerInv
  <2>. QED
    BY <1>5, <1>7, <1>8, <1>9, <1>11, <2>1, SessionKept DEF SessionsInv
<1>12. ASSUME NEW q \in PaymentId PROVE LinkInv(q)'
  BY <1>3, <1>7, <1>8 DEF SessionsInv, LinkInv, Alive, Reusable, Watched
<1>. QED
  BY <1>10, <1>11, <1>12 DEF SessionsInv, Watched

\* The order's payment is replaced.  A checkout that still works on the old one has
\* met this one.
LEMMA LinkSession ==
  ASSUME IInv, SessionsInv, Watched, NEW h \in Handler, LinkPayment(h)
  PROVE  SessionsInv'
<1>. DEFINE r == handler[h]
<1>1. /\ r \in Request /\ r.pc = "link" /\ SessionInv(h) /\ r.key \in Key
  BY AtWork DEF LinkPayment, At, SessionsInv
<1>2. /\ handler'[h] = [r EXCEPT !.pc = "awaitCreate"]
      /\ \A g \in Handler : g # h => handler'[g] = handler[g]
  BY GotoBecome, Moves DEF LinkPayment, Step
<1>3. /\ handler'[h].pc = "awaitCreate"
      /\ handler'[h].key = r.key /\ handler'[h].pay = r.pay
  BY <1>1, <1>2 DEF Request
<1>4. /\ order'[r.key].current = r.pay
      /\ \A k \in Key : k # r.key => order'[k] = order[k]
  BY <1>1 DEF LinkPayment, IInv, TypeOK, Order
<1>5. UNCHANGED <<payment, provider, links>>
  BY DEF LinkPayment
<1>6. \A k : NoneRises(k)
  BY <1>5 DEF NoneRises, Alive
<1>7. ASSUME NEW k, k = r.key PROVE NothingAlive(k) /\ NothingAlive(k)'
  BY <1>1, <1>5, <1>7
  DEF SessionInv, RaceStep, OwnStep, NothingAlive, PaymentsOf, Alive, Watched
<1>8. SessionInv(h)'
  BY <1>3, <1>4, <1>7 DEF SessionInv, RaceStep, OwnStep
<1>9. ASSUME NEW g \in Handler, g # h PROVE SessionInv(g)'
  <2>1. handler[g].pc \in OwnStep =>
          handler[g].key \in Key /\ handler[g].pay \in PaymentId
    BY DEF IInv, HandlerInv, OwnStep
  <2>2. handler[g].pc \in OwnStep /\ handler[g].pay \notin raced'
        => handler[g].key # r.key
    BY <1>2, <1>3, <1>9, <2>1, MetNow DEF RaceStep, OwnStep
  <2>. QED
    BY <1>2, <1>4, <1>5, <1>6, <1>9, <2>1, <2>2, SessionKept DEF SessionsInv
<1>10. ASSUME NEW q \in PaymentId PROVE LinkInv(q)'
  <2>1. Alive(q)' <=> Alive(q)
    BY <1>5 DEF Alive
  <2>2. q \notin raced' /\ Alive(q) => payment[q].key \in Key /\ payment[q].key # r.key
    BY <1>7, AliveRow DEF NothingAlive, PaymentsOf, Watched
  <2>. QED
    BY <1>4, <1>5, <2>1, <2>2 DEF SessionsInv, LinkInv, Watched
<1>. QED
  BY <1>8, <1>9, <1>10 DEF SessionsInv, Watched

LEMMA RespondSession ==
  ASSUME IInv, SessionsInv, Watched, NEW h \in Handler, Respond(h)
  PROVE  SessionsInv'
<1>. DEFINE r == handler[h]
<1>1. /\ r.pc = "respond" /\ SessionInv(h)
      /\ r.pay \in PaymentId /\ payment[r.pay].key = r.key
  BY AtWork DEF Respond, At, SessionsInv
<1>2. handler'[h] = Idle /\ \A g \in Handler : g # h => handler'[g] = handler[g]
  BY IdleRequest, Moves DEF Respond
<1>3. UNCHANGED <<order, payment, provider>> /\ links' = links \cup {r.pay}
  BY DEF Respond
<1>4. \A q \in PaymentId \ raced' : Alive(q)' => Alive(q)
  BY <1>1, <1>3 DEF SessionInv, Alive, Watched
<1>5. \A k : NoneRises(k)
  BY <1>3, <1>4 DEF NoneRises
<1>6. SessionInv(h)'
  BY <1>2, SessionIdle DEF Idle, RaceStep, OwnStep
<1>7. ASSUME NEW g \in Handler, g # h PROVE SessionInv(g)'
  BY <1>2, <1>3, <1>5, <1>7, SessionKept DEF SessionsInv
<1>8. ASSUME NEW q \in PaymentId PROVE LinkInv(q)'
  BY <1>1, <1>3, <1>4 DEF SessionsInv, LinkInv, SessionInv, Watched
<1>. QED
  BY <1>6, <1>7, <1>8 DEF SessionsInv, Watched

LEMMA ProviderSession ==
  ASSUME IInv, SessionsInv, Watched, NEW p \in PaymentId,
         ProviderCreates(p) \/ CustomerPays(p) \/ ProviderCancels(p)
  PROVE  SessionsInv'
<1>1. /\ UNCHANGED <<order, payment, links, handler>>
      /\ \E s \in ProviderStatus :
           /\ provider' = [provider EXCEPT ![p] = s]
           /\ \/ provider[p] = "absent" /\ s = "pending"
              \/ provider[p] = "pending" /\ s = "succeeded" /\ p \in links
              \/ provider[p] = "pending" /\ s = "canceled"
  BY DEF ProviderCreates, CustomerPays, ProviderCancels, Settle, ProviderStatus
<1>2. PICK s \in ProviderStatus :
        /\ \A q \in PaymentId : provider'[q] = IF q = p THEN s ELSE provider[q]
        /\ \/ provider[p] = "absent" /\ s = "pending"
           \/ provider[p] = "pending" /\ s = "succeeded" /\ p \in links
           \/ provider[p] = "pending" /\ s = "canceled"
  BY <1>1 DEF IInv, TypeOK
<1>3. \A q \in PaymentId : Alive(q)' => Alive(q)
  BY <1>1, <1>2 DEF Alive
<1>4. \A k : NoneRises(k)
  BY <1>1, <1>3 DEF NoneRises
<1>5. \A q \in PaymentId : provider[q] # "absent" => provider'[q] # "absent"
  BY <1>2 DEF ProviderStatus
<1>6. ASSUME NEW g \in Handler PROVE SessionInv(g)'
  <2>1. handler[g].pc = "respond" => handler[g].pay \in PaymentId
    BY DEF IInv, HandlerInv
  <2>. QED
    BY <1>1, <1>2, <1>4, <1>5, <2>1, SessionKept DEF SessionsInv
<1>7. ASSUME NEW q \in PaymentId PROVE LinkInv(q)'
  BY <1>1, <1>2, <1>3, <1>5 DEF SessionsInv, LinkInv, Watched
<1>. QED
  BY <1>6, <1>7 DEF SessionsInv, Watched

LEMMA AdminSession ==
  ASSUME IInv, SessionsInv, Watched,
         \/ \E k \in Key, s \in {"SHIPPED", "DELIVERED", "CANCELLED"} :
              AdminUpdateStatus(k, s)
         \/ UNCHANGED vars
  PROVE  SessionsInv'
<1>1. /\ UNCHANGED <<payment, provider, links, handler>>
      /\ \A k \in Key : order'[k].current = order[k].current
  BY DEF AdminUpdateStatus, vars, IInv, TypeOK, Order
<1>2. ASSUME NEW g \in Handler PROVE SessionInv(g)'
  <2>1. handler[g].pc \in OwnStep => handler[g].key \in Key
    BY DEF IInv, HandlerInv, OwnStep
  <2>2. \A k : NoneRises(k)
    BY <1>1 DEF NoneRises, Alive
  <2>. QED
    BY <1>1, <2>1, <2>2, SessionKept DEF SessionsInv
<1>3. ASSUME NEW q \in PaymentId PROVE LinkInv(q)'
  <2>1. Alive(q)' <=> Alive(q)
    BY <1>1 DEF Alive
  <2>. QED
    BY <1>1, <2>1, AliveRow DEF SessionsInv, LinkInv, Watched
<1>. QED
  BY <1>2, <1>3 DEF SessionsInv, Watched

LEMMA SessionsNext ==
  ASSUME IInv, SessionsInv, Watched, [Next]_vars
  PROVE  SessionsInv'
<1>1. ASSUME NEW h \in Handler, Continue(h) PROVE SessionsInv'
  BY <1>1, CheckoutSession, OtherSession, AnswerSession, ApplySession, HookSession,
     FailSession, CreateSession, LinkSession, RespondSession
  DEF Continue
<1>2. ASSUME NEW h \in Handler,
             \/ HandlerDies(h)
             \/ \E k \in Key : \/ CheckoutUnknownKey(h, k) \/ CheckoutKnownKey(h, k)
                               \/ RetryShipment(h, k)
             \/ \E p \in PaymentId :
                  WebhookArrives(h, p) \/ CheckOpen(h, p) \/ CheckSucceeded(h, p)
      PROVE  SessionsInv'
  BY <1>2, CheckoutSession, OtherSession
<1>. QED
  BY <1>1, <1>2, ProviderSession, AdminSession DEF Next

\* Checkouts in progress, the links the customers hold and YooKassa agree on every
\* payment that was made alone, for any number of keys, payments, overlapping
\* checkouts and requests that die.
THEOREM RacesInvariance == RacesSpec => []RacesInv
<1>1. RacesInit => RacesInv
  <2>1. RacesInit => SessionsInv
    BY DEF RacesInit, Init, Idle, NoOrder, NoPayment, SessionsInv, Racing, LinkInv,
           SessionInv, RaceStep, OwnStep, Alive, Reusable
  <2>. QED
    BY <2>1, InitInv DEF RacesInit, RacesInv
<1>2. RacesInv /\ [RacesNext]_racesVars => RacesInv'
  <2>. SUFFICES ASSUME RacesInv, [RacesNext]_racesVars PROVE RacesInv'
    OBVIOUS
  <2>1. [Next]_vars
    BY DEF RacesNext, racesVars
  <2>2. Watched
    <3>1. CASE RacesNext
      BY <3>1 DEF RacesNext, Watched
    <3>2. CASE UNCHANGED racesVars
      <4>1. Racing' = Racing
        BY <3>2 DEF racesVars, vars, Racing
      <4>. QED
        BY <3>2, <4>1 DEF racesVars, Watched, RacesInv, SessionsInv
    <3>. QED
      BY <3>1, <3>2
  <2>. QED
    BY <2>1, <2>2, NextInv, SessionsNext DEF RacesInv
<1>. QED
  BY <1>1, <1>2, PTL DEF RacesSpec

\* A customer holds two links of one order that can be, or were, paid only if one of
\* the checkouts that made them met another (resolveCheckoutPayment).
THEOREM TwoLinksNeedARaceTheorem == RacesSpec => []TwoLinksNeedARace
<1>1. RacesInv => TwoLinksNeedARace
  BY DEF RacesInv, IInv, TypeOK, SessionsInv, LinkInv, Alive, TwoLinksNeedARace
<1>. QED
  BY <1>1, RacesInvariance, PTL

\* ... and money paid for a payment that was made alone is for the order's current
\* one, so that no webhook about it is taken for a stale one.
THEOREM ChargedAloneIsCurrentTheorem == RacesSpec => []ChargedAloneIsCurrent
<1>1. RacesInv => ChargedAloneIsCurrent
  BY DEF RacesInv, SessionsInv, LinkInv, Alive, ChargedAloneIsCurrent
<1>. QED
  BY <1>1, RacesInvariance, PTL
===============================================================================
