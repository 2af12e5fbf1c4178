------------------------------- MODULE Payments -------------------------------
(***************************************************************************)
(* Checkout and payment: the requests that create or reuse an order and    *)
(* its YooKassa payment (checkoutController, order.service,                *)
(* yookassa.service), the webhook and the status check that learn the      *)
(* outcome (paymentController), the admin's status changes                 *)
(* (ordersController), and YooKassa itself.                                *)
(*                                                                         *)
(* Every request is served by a handler.  A handler runs without           *)
(* interruption from one await to the next: each action below is one such  *)
(* stretch, with the single database statement or remote call it makes, so *)
(* that what a handler read earlier may be stale when it writes.           *)
(***************************************************************************)
EXTENDS Naturals, ShopTypes

CONSTANTS
  Key,        \* checkout attempt keys; an order is named by its key
  PaymentId,  \* ids the Payment table may hand out (a bound)
  Handler,    \* requests the backend serves at the same time (a bound)
  None,       \* SQL NULL
  MaxFaults   \* how many requests may die half-way (a bound)

ASSUME PaymentsAssumption ==
  /\ None \notin Key
  /\ None \notin PaymentId
  /\ MaxFaults \in Nat

VARIABLES
  order,      \* Order rows by checkoutAttemptKey
  payment,    \* Payment rows
  provider,   \* the payment YooKassa keeps for the row's idempotence key
  requested,  \* payments whose create request was sent: it may arrive, late or never
  links,      \* payments whose confirmation link a customer was given
  notices,    \* outcomes YooKassa still wants to notify: repeated until acknowledged
  handler,    \* the requests in progress
  faults      \* requests that died so far

vars == <<order, payment, provider, requested, links, notices, handler, faults>>

-------------------------------------------------------------------------------
Order == [status: OrderStatus \cup {"absent"}, current: PaymentId \cup {None}]

Payment == [status: PaymentStatus \cup {"absent"}, key: Key \cup {None},
            registered: BOOLEAN,     \* providerPaymentId is set
            url: BOOLEAN]            \* confirmationUrl is set

Role == {"none", "checkout", "webhook", "check", "retry"}

\* What a handler does next.
Step == {"idle", "insert", "load", "new", "link", "respond",
         "awaitCreate", "awaitRestore", "awaitHook", "awaitCheck",
         "applyCreate", "applyRestore", "applyHook", "applyCheck",
         "hookOrder", "hookReopen", "markRead", "markWrite", "ship"}

Request == [role: Role, pc: Step, key: Key \cup {None},
            pay: PaymentId \cup {None}, ans: ProviderStatus \cup {"absent"}]

Idle == [role |-> "none", pc |-> "idle", key |-> None, pay |-> None,
         ans |-> "absent"]

NoOrder   == [status |-> "absent", current |-> None]
NoPayment == [status |-> "absent", key |-> None, registered |-> FALSE,
              url |-> FALSE]

\* The row createNewPaymentForOrder inserts.
FreshPayment(k) == [NoPayment EXCEPT !.status = "PENDING", !.key = k]

TypeOK ==
  /\ order \in [Key -> Order]
  /\ payment \in [PaymentId -> Payment]
  /\ provider \in [PaymentId -> ProviderStatus \cup {"absent"}]
  /\ requested \subseteq PaymentId
  /\ links \subseteq PaymentId
  /\ notices \subseteq PaymentId
  /\ handler \in [Handler -> Request]
  /\ faults \in 0..MaxFaults

Init ==
  /\ order = [k \in Key |-> NoOrder]
  /\ payment = [p \in PaymentId |-> NoPayment]
  /\ provider = [p \in PaymentId |-> "absent"]
  /\ requested = {}
  /\ links = {}
  /\ notices = {}
  /\ handler = [h \in Handler |-> Idle]
  /\ faults = 0

-------------------------------------------------------------------------------
\* Handlers

At(h, pc) == handler[h].pc = pc

Become(h, req) == handler' = [handler EXCEPT ![h] = req]

Goto(h, pc) == handler' = [handler EXCEPT ![h].pc = pc]

\* The request is answered.  A webhook's 200 makes YooKassa stop repeating the
\* notice, unless the answer is lost on the way.
Finish(h) ==
  /\ Become(h, Idle)
  /\ \/ notices' = notices
     \/ /\ handler[h].role = "webhook"
        /\ notices' = notices \ {handler[h].pay}

-------------------------------------------------------------------------------
\* POST /api/checkout

\* Mutants: an open payment, or a paid one, is not reused.
ReusableIfPaid(row) == row.status = "SUCCEEDED"
ReusableIfOpen(row) == row.status = "PENDING" /\ row.url

\* resolveCheckoutPayment answers with the payment instead of making another.
Reusable(row) == \/ row.status = "PENDING" /\ row.url
                 \/ row.status = "SUCCEEDED"

\* The step resolveCheckoutPayment takes for the current payment it was given.
resolveCheckoutPayment(p) ==
  CASE p = None                                  -> "new"
    [] p # None /\ Reusable(payment[p])          -> "respond"
    [] p # None /\ payment[p].status = "PROVIDER_UNKNOWN" -> "awaitRestore"
    [] OTHER                                     -> "new"

\* The order was read together with its current payment; a payment in doubt is
\* asked for again under its own idempotence key.
Resolve(h, k) ==
  LET p == order[k].current
      pc == resolveCheckoutPayment(p)
  IN  /\ Become(h, [role |-> "checkout", pc |-> pc, key |-> k, pay |-> p,
                    ans |-> "absent"])
      /\ requested' = IF pc = "awaitRestore" THEN requested \cup {p}
                                             ELSE requested

\* A validated request finds no order for its key ...
CheckoutUnknownKey(h, k) ==
  /\ At(h, "idle") /\ order[k].status = "absent"
  /\ Become(h, [Idle EXCEPT !.role = "checkout", !.pc = "insert", !.key = k])
  /\ UNCHANGED <<order, payment, provider, requested, links, notices, faults>>

\* ... or finds the order an earlier request made.
CheckoutKnownKey(h, k) ==
  /\ At(h, "idle") /\ order[k].status # "absent"
  /\ Resolve(h, k)
  /\ UNCHANGED <<order, payment, provider, links, notices, faults>>

\* The transaction that inserts the order and its items ...
InsertOrder(h) ==
  /\ At(h, "insert") /\ order[handler[h].key].status = "absent"
  /\ order' = [order EXCEPT ![handler[h].key].status = "PENDING_PAYMENT"]
  /\ Goto(h, "load")
  /\ UNCHANGED <<payment, provider, requested, links, notices, faults>>

\* ... fails with P2002 when another request was first.
InsertConflict(h) ==
  /\ At(h, "insert") /\ order[handler[h].key].status # "absent"
  /\ Goto(h, "load")
  /\ UNCHANGED <<order, payment, provider, requested, links, notices, faults>>

LoadOrder(h) ==
  /\ At(h, "load")
  /\ Resolve(h, handler[h].key)
  /\ UNCHANGED <<order, payment, provider, links, notices, faults>>

CreatePayment(h) ==
  /\ At(h, "new")
  /\ \E p \in PaymentId :
       /\ payment[p].status = "absent"
       /\ payment' = [payment EXCEPT ![p] = FreshPayment(handler[h].key)]
       /\ Become(h, [handler[h] EXCEPT !.pc = "link", !.pay = p,
                                       !.ans = "absent"])
  /\ UNCHANGED <<order, provider, requested, links, notices, faults>>

\* The bound on payments is reached: the request is given up.
NoMorePayments(h) ==
  /\ At(h, "new")
  /\ \A p \in PaymentId : payment[p].status # "absent"
  /\ Become(h, Idle)
  /\ UNCHANGED <<order, payment, provider, requested, links, notices, faults>>

\* currentPaymentId is set, then the create request leaves.
LinkPayment(h) ==
  /\ At(h, "link")
  /\ order' = [order EXCEPT ![handler[h].key].current = handler[h].pay]
  /\ requested' = requested \cup {handler[h].pay}
  /\ Goto(h, "awaitCreate")
  /\ UNCHANGED <<payment, provider, links, notices, faults>>

UpdateFromProvider(h) ==
  payment' = [payment EXCEPT ![handler[h].pay] =
                buildPaymentUpdateFromProvider(@, handler[h].ans)]

ApplyCreate(h) ==
  /\ At(h, "applyCreate")
  /\ UpdateFromProvider(h)
  /\ Goto(h, "respond")
  /\ UNCHANGED <<order, provider, requested, links, notices, faults>>

\* A refusal means that YooKassa has no such payment and will not make one.
CallFails(h, e) ==
  requested' = IF e = "refused" THEN requested \ {handler[h].pay} ELSE requested

MayFail(h, e) == e = "refused" => provider[handler[h].pay] = "absent"

\* The call fails, or the update with its answer does: one catch serves both.
CreateFails(h, e) ==
  /\ At(h, "awaitCreate") \/ At(h, "applyCreate")
  /\ MayFail(h, e)
  /\ payment' = [payment EXCEPT ![handler[h].pay].status = failedStatus(e)]
  /\ CallFails(h, e)
  /\ Become(h, Idle)
  /\ UNCHANGED <<order, provider, links, notices, faults>>

\* tryRestoreUnknownPayment got an answer: reuse the payment if it turned out
\* payable or paid, make another one otherwise.
ApplyRestore(h) ==
  /\ At(h, "applyRestore")
  /\ UpdateFromProvider(h)
  /\ Goto(h, IF Reusable(payment'[handler[h].pay]) THEN "respond" ELSE "new")
  /\ UNCHANGED <<order, provider, requested, links, notices, faults>>

\* tryRestoreUnknownPayment got none: an unclear error leaves the row as it is,
\* any other marks it FAILED; a new payment is made in both cases.
RestoreFails(h, e) ==
  /\ At(h, "awaitRestore") \/ At(h, "applyRestore")
  /\ MayFail(h, e)
  /\ payment' = IF shouldMarkProviderUnknown(e) THEN payment
                ELSE [payment EXCEPT ![handler[h].pay].status = "FAILED"]
  /\ CallFails(h, e)
  /\ Goto(h, "new")
  /\ UNCHANGED <<order, provider, links, notices, faults>>

\* The answer carries the confirmation link (inert once the payment is settled).
Respond(h) ==
  /\ At(h, "respond")
  /\ links' = links \cup {handler[h].pay}
  /\ Become(h, Idle)
  /\ UNCHANGED <<order, payment, provider, requested, notices, faults>>

-------------------------------------------------------------------------------
\* POST /api/payment/webhook

WebhookArrives(h, p) ==
  /\ At(h, "idle") /\ p \in notices
  /\ Become(h, [role |-> "webhook", pc |-> "awaitHook", key |-> payment[p].key,
                pay |-> p, ans |-> "absent"])
  /\ UNCHANGED <<order, payment, provider, requested, links, notices, faults>>

\* The row is updated from the status YooKassa confirmed.
ApplyHook(h) ==
  /\ At(h, "applyHook")
  /\ payment' = [payment EXCEPT
                   ![handler[h].pay].status = mapYooKassaStatus(handler[h].ans),
                   ![handler[h].pay].registered = TRUE]
  /\ Goto(h, "hookOrder")
  /\ UNCHANGED <<order, provider, requested, links, notices, faults>>

\* Mutant: every notice is taken for payment.succeeded.
HookOrderAnyEvent(h) ==
  /\ At(h, "hookOrder")
  /\ IF order[handler[h].key].current # handler[h].pay
     THEN Finish(h)
     ELSE Goto(h, "markRead") /\ UNCHANGED notices
  /\ UNCHANGED <<order, payment, provider, requested, links, faults>>

\* Is the payment still the order's current one?  Then the event of the notice
\* decides, which names the status YooKassa just confirmed: any other pair has been
\* answered before the row is written (lines 71-100).
HookOrder(h) ==
  /\ At(h, "hookOrder")
  /\ IF order[handler[h].key].current # handler[h].pay
     THEN Finish(h)
     ELSE /\ Goto(h, IF handler[h].ans = "succeeded" THEN "markRead" ELSE "hookReopen")
          /\ UNCHANGED notices
  /\ UNCHANGED <<order, payment, provider, requested, links, faults>>

\* payment.canceled: the order waits for a payment again.
HookReopen(h) ==
  /\ At(h, "hookReopen")
  /\ order' = [order EXCEPT ![handler[h].key].status = "PENDING_PAYMENT"]
  /\ Finish(h)
  /\ UNCHANGED <<payment, provider, requested, links, faults>>

\* markCurrentPaymentOrderPaid: nothing to do for an order that has another
\* payment or is already on its way ...
AlreadyOnItsWay == {"FULFILLMENT_PENDING", "SHIPPED", "DELIVERED"}

MarkSkipped(h) ==
  LET o == order[handler[h].key]
  IN  /\ At(h, "markRead")
      /\ o.current # handler[h].pay \/ o.status \in AlreadyOnItsWay
      /\ Finish(h)
      /\ UNCHANGED <<order, payment, provider, requested, links, faults>>

\* ... otherwise it becomes PAID, unless it is, and its shipment is made.
MarkRead(h) ==
  LET o == order[handler[h].key]
  IN  /\ At(h, "markRead")
      /\ o.current = handler[h].pay /\ o.status \notin AlreadyOnItsWay
      /\ Goto(h, IF o.status = "PAID" THEN "ship" ELSE "markWrite")
      /\ UNCHANGED <<order, payment, provider, requested, links, notices, faults>>

MarkWrite(h) ==
  /\ At(h, "markWrite")
  /\ order' = [order EXCEPT ![handler[h].key].status = "PAID"]
  /\ Goto(h, "ship")
  /\ UNCHANGED <<payment, provider, requested, links, notices, faults>>

\* createCdekShipmentForPaidOrder, seen from here: it registers the shipment
\* and moves the order on, or fails, which markCurrentPaymentOrderPaid swallows.
ShipSucceeds(h) ==
  /\ At(h, "ship")
  /\ order' = [order EXCEPT ![handler[h].key].status = "FULFILLMENT_PENDING"]
  /\ Finish(h)
  /\ UNCHANGED <<payment, provider, requested, links, faults>>

ShipFails(h) ==
  /\ At(h, "ship")
  /\ Finish(h)
  /\ UNCHANGED <<order, payment, provider, requested, links, faults>>

-------------------------------------------------------------------------------
\* GET /api/payment/order/:orderId/payment/:paymentId/status

CheckArrives(h, p, pc) ==
  /\ At(h, "idle") /\ p \in links
  /\ Become(h, [role |-> "check", pc |-> pc, key |-> payment[p].key, pay |-> p,
                ans |-> "absent"])
  /\ UNCHANGED <<order, payment, provider, requested, links, notices, faults>>

CheckOpen(h, p) ==
  /\ payment[p].registered
  /\ payment[p].status \in {"PENDING", "PROVIDER_UNKNOWN"}
  /\ CheckArrives(h, p, "awaitCheck")

CheckSucceeded(h, p) ==
  /\ payment[p].status = "SUCCEEDED"
  /\ CheckArrives(h, p, "markRead")

ApplyCheck(h) ==
  /\ At(h, "applyCheck")
  /\ UpdateFromProvider(h)
  /\ IF payment'[handler[h].pay].status = "SUCCEEDED"
     THEN Goto(h, "markRead")
     ELSE Become(h, Idle)
  /\ UNCHANGED <<order, provider, requested, links, notices, faults>>

-------------------------------------------------------------------------------
\* Admin

\* updateStatus accepts the three closing statuses, whatever the order's status.
AdminUpdateStatus(k, s) ==
  /\ order[k].status # "absent"
  /\ order' = [order EXCEPT ![k].status = s]
  /\ UNCHANGED <<payment, provider, requested, links, notices, handler, faults>>

\* Mutant: any order qualifies.
CanRetryAlways(k) == order[k].status # "absent"

CanRetryShipment(k) ==
  \/ /\ order[k].current # None
     /\ payment[order[k].current].status = "SUCCEEDED"
  \/ order[k].status \in {"PAID", "FULFILLMENT_PENDING"}

RetryShipment(h, k) ==
  /\ At(h, "idle") /\ CanRetryShipment(k)
  /\ Become(h, [Idle EXCEPT !.role = "retry", !.pc = "ship", !.key = k])
  /\ UNCHANGED <<order, payment, provider, requested, links, notices, faults>>

-------------------------------------------------------------------------------
\* YooKassa, and what may go wrong

Awaiting == {"awaitCreate", "awaitRestore", "awaitHook", "awaitCheck"}

AfterAnswer(pc) ==
  CASE pc = "awaitCreate"  -> "applyCreate"
    [] pc = "awaitRestore" -> "applyRestore"
    [] pc = "awaitHook"    -> "applyHook"
    [] pc = "awaitCheck"   -> "applyCheck"

\* A create request arrives; a repeated idempotence key creates nothing.
ProviderCreates(p) ==
  /\ p \in requested /\ provider[p] = "absent"
  /\ provider' = [provider EXCEPT ![p] = "pending"]
  /\ UNCHANGED <<order, payment, requested, links, notices, handler, faults>>

\* The answer to createPayment or getPayment: the payment as it is now.
ProviderAnswers(h) ==
  /\ handler[h].pc \in Awaiting
  /\ provider[handler[h].pay] # "absent"
  /\ Become(h, [handler[h] EXCEPT !.pc = AfterAnswer(handler[h].pc),
                                  !.ans = provider[handler[h].pay]])
  /\ UNCHANGED <<order, payment, provider, requested, links, notices, faults>>

\* Mutant: the failure is swallowed and the webhook answered with 200.
GetFailsQuietly(h) ==
  /\ handler[h].pc \in {"awaitHook", "awaitCheck"}
  /\ Finish(h)
  /\ UNCHANGED <<order, payment, provider, requested, links, faults>>

\* getPayment times out or fails: next(e), and no 200 for a webhook.
GetFails(h) ==
  /\ handler[h].pc \in {"awaitHook", "awaitCheck"}
  /\ Become(h, Idle)
  /\ UNCHANGED <<order, payment, provider, requested, links, notices, faults>>

Settle(p, s) ==
  /\ provider[p] = "pending"
  /\ provider' = [provider EXCEPT ![p] = s]
  /\ notices' = notices \cup {p}
  /\ UNCHANGED <<order, payment, requested, links, handler, faults>>

CustomerPays(p) == p \in links /\ Settle(p, "succeeded")

ProviderCancels(p) == Settle(p, "canceled")

\* The process dies or the database is gone while the request is served.
HandlerDies(h) ==
  /\ ~At(h, "idle") /\ faults < MaxFaults
  /\ Become(h, Idle)
  /\ faults' = faults + 1
  /\ UNCHANGED <<order, payment, provider, requested, links, notices>>

-------------------------------------------------------------------------------
\* What an accepted request does until it is answered.
Continue(h) ==
  \/ InsertOrder(h) \/ InsertConflict(h) \/ LoadOrder(h)
  \/ CreatePayment(h) \/ NoMorePayments(h) \/ LinkPayment(h)
  \/ ApplyCreate(h) \/ ApplyRestore(h) \/ Respond(h)
  \/ ApplyHook(h) \/ HookOrder(h) \/ HookReopen(h)
  \/ MarkSkipped(h) \/ MarkRead(h) \/ MarkWrite(h)
  \/ ShipSucceeds(h) \/ ShipFails(h)
  \/ ApplyCheck(h)
  \/ ProviderAnswers(h) \/ GetFails(h)
  \/ \E e \in ProviderError : CreateFails(h, e) \/ RestoreFails(h, e)

Next ==
  \/ \E h \in Handler :
       \/ Continue(h)
       \/ HandlerDies(h)
       \/ \E k \in Key : \/ CheckoutUnknownKey(h, k)
                         \/ CheckoutKnownKey(h, k)
                         \/ RetryShipment(h, k)
       \/ \E p \in PaymentId : \/ WebhookArrives(h, p)
                               \/ CheckOpen(h, p)
                               \/ CheckSucceeded(h, p)
  \/ \E k \in Key, s \in {"SHIPPED", "DELIVERED", "CANCELLED"} :
       AdminUpdateStatus(k, s)
  \/ \E p \in PaymentId : ProviderCreates(p) \/ CustomerPays(p) \/ ProviderCancels(p)

Spec == Init /\ [][Next]_vars

\* Node runs every request it accepted until it is answered or dies; YooKassa
\* answers some calls of a request that keeps asking, and repeats a notice
\* until it is acknowledged.
Fairness ==
  /\ \A h \in Handler : WF_vars(Continue(h)) /\ SF_vars(ProviderAnswers(h))
  /\ \A p \in PaymentId : SF_vars(\E h \in Handler : WebhookArrives(h, p))

FairSpec == Spec /\ Fairness

-------------------------------------------------------------------------------
\* Properties

PaymentsOf(k) == {p \in PaymentId : payment[p].key = k}

\* The customer's money has been taken for the order.
Charged(k) == \E p \in PaymentsOf(k) : provider[p] = "succeeded"

\* An order is PAID or FULFILLMENT_PENDING, or a handler is about to ship it,
\* only if YooKassa has taken the money: however webhooks, status checks and
\* retries interleave and die (markCurrentPaymentOrderPaid, retryShipment).
PaidOrderWasCharged ==
  /\ \A k \in Key :
       order[k].status \in {"PAID", "FULFILLMENT_PENDING"} => Charged(k)
  /\ \A h \in Handler : At(h, "ship") => Charged(handler[h].key)

\* A final status in the Payment table is the one YooKassa has, although rows
\* are written from answers that were on their way (buildPaymentUpdateFromProvider,
\* handleYouKassaWebhook).
LocalOutcomeIsReal ==
  \A p \in PaymentId :
    /\ payment[p].status = "SUCCEEDED" => provider[p] = "succeeded"
    /\ payment[p].status = "CANCELED"  => provider[p] = "canceled"

\* README: a repeated checkout "returns the existing order and payment instead of
\* creating duplicate ... payments": a customer never holds two links of one
\* order that can be, or were, paid (resolveCheckoutPayment).  Overlapping
\* checkouts break it; CheckoutRaces says what holds in spite of them.
OnePayablePayment ==
  \A p, q \in links :
    /\ payment[p].key = payment[q].key
    /\ {provider[p], provider[q]} \subseteq {"pending", "succeeded"}
    => p = q

\* README: "distinguish explicit FAILED from uncertain PROVIDER_UNKNOWN": what
\* is FAILED does not exist at YooKassa (createNewPaymentForOrder).
FailedIsExplicit ==
  \A p \in PaymentId : payment[p].status = "FAILED" => provider[p] = "absent"

\* README: "ignore stale webhooks for non-current payments": a webhook changes
\* the order only while the payment it reports is the order's current one.
StaleWebhookIgnored ==
  [][\A h \in Handler, k \in Key :
       /\ handler[h].role = "webhook" /\ handler[h].key = k
       /\ handler'[h] # handler[h] /\ order'[k] # order[k]
       => order[k].current = handler[h].pay]_vars

\* A payment the customer made is recorded: the order leaves PENDING_PAYMENT,
\* although requests die, answers are late and notices repeat, because a notice
\* is acknowledged only after the order was written (handleYouKassaWebhook).
ChargeIsRecorded ==
  \A k \in Key, p \in PaymentId :
    /\ order[k].current = p /\ provider[p] = "succeeded"
    /\ order[k].status = "PENDING_PAYMENT"
    ~> \/ order[k].current # p
       \/ order[k].status # "PENDING_PAYMENT"

-------------------------------------------------------------------------------
\* YooKassa canceled a payment of the order.
Refused(k) == \E p \in PaymentsOf(k) : provider[p] = "canceled"

Lifecycle == INSTANCE OrderLifecycle WITH
  status  <- [k \in Key |-> order[k].status],
  charged <- {k \in Key : Charged(k)},
  refused <- {k \in Key : Refused(k)}

\* Every step of the handlers is a step of the order's contract, or none: no
\* race confirms, dispatches or reopens an order without its cause.
ImplementsLifecycle == Lifecycle!Spec
-------------------------------------------------------------------------------
\* The inductive invariant behind PaidOrderWasCharged

Final == {"succeeded", "canceled"}

\* A row exists from its insertion on, belongs to an order, and says nothing
\* final that YooKassa does not say.
PaymentInv(p) ==
  /\ payment[p].status # "absent" =>
       payment[p].key \in Key /\ order[payment[p].key].status # "absent"
  /\ (p \in requested \cup links \cup notices \/ provider[p] # "absent")
       => payment[p].status # "absent"
  /\ p \in notices => provider[p] \in Final
  /\ payment[p].status = "SUCCEEDED" => provider[p] = "succeeded"
  /\ payment[p].status = "CANCELED"  => provider[p] = "canceled"

OrderInv(k) ==
  /\ order[k].current # None =>
       /\ payment[order[k].current].status # "absent"
       /\ payment[order[k].current].key = k
  /\ order[k].status \in {"PAID", "FULFILLMENT_PENDING"} => Charged(k)

\* What a handler remembers of its reads and of the provider's answer is still
\* true when it acts on it, whatever the other handlers did meanwhile.
HandlerInv(h) ==
  LET r == handler[h]
  IN  /\ r.pc # "idle" => r.key \in Key
      /\ r.pc \notin {"idle", "insert"} => order[r.key].status # "absent"
      /\ r.pc \notin {"idle", "insert", "load", "new", "ship"} =>
           /\ r.pay \in PaymentId
           /\ payment[r.pay].status # "absent" /\ payment[r.pay].key = r.key
      /\ r.pc \in {"applyCreate", "applyRestore", "applyHook", "applyCheck",
                   "hookOrder"} =>
           /\ r.ans \in ProviderStatus /\ provider[r.pay] # "absent"
           /\ r.ans \in Final => provider[r.pay] = r.ans
      /\ r.pc = "awaitHook" => provider[r.pay] \in Final
      /\ r.pc \in {"applyHook", "hookOrder"} => r.ans \in Final
      /\ r.pc \in {"markRead", "markWrite"} => provider[r.pay] = "succeeded"
      /\ r.pc = "hookReopen" => provider[r.pay] = "canceled"
      /\ r.pc = "ship" => Charged(r.key)

\* The database, YooKassa and every handler agree on what has happened.
IInv ==
  /\ TypeOK
  /\ \A p \in PaymentId : PaymentInv(p)
  /\ \A k \in Key : OrderInv(k)
  /\ \A h \in Handler : HandlerInv(h)
===============================================================================
