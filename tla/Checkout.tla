------------------------------- MODULE Checkout -------------------------------
(***************************************************************************)
(* The cart and the checkout form of the storefront: checkout.store,       *)
(* formData.store, CheckoutLayer and the organisms it shows, the requests  *)
(* they make through shared/api, and what POST /api/checkout stores for    *)
(* them.  One customer, one browser tab; the cart outlives a reload, the   *)
(* form does not.                                                          *)
(*                                                                         *)
(* An event handler runs without interruption up to the request it awaits. *)
(* The rest of it is the action that receives the answer, with what the    *)
(* handler's closure had read before; answers come in any order.  Prices   *)
(* and pickup points stand for what they were computed from.               *)
(***************************************************************************)
EXTENDS Naturals, FiniteSets

CONSTANTS
  Item,          \* items the shop sells
  MaxQuantity,   \* quantity of one item in the cart (a bound)
  City,          \* cities CDEK suggests
  Customer,      \* ways to fill in name, contacts, comment and consents completely
  Nothing,          \* null
  MaxKeys,   \* checkout attempt keys the tab draws (a bound)
  MaxCalls,      \* requests awaited at the same time (a bound)
  MaxReloads,    \* page loads after the first (a bound)
  PollAttempts   \* PAYMENT_STATUS_POLL_ATTEMPTS

ASSUME CheckoutAssumption ==
  /\ Nothing \notin Item \cup City \cup Customer \cup 1 .. MaxKeys
  /\ {MaxQuantity, MaxKeys, MaxCalls, MaxReloads} \subseteq Nat
  /\ PollAttempts \in Nat \ {0}

VARIABLES
  cart,      \* useCheckoutItems: quantities, kept in localStorage
  shown,     \* items of useObjects, none before getItems answers
  form,      \* useCheckoutFormInputs
  widget,    \* O_CheckoutDeliveryFields: the suggestions it lists
  busy,      \* CheckoutLayer.isSubmitting: "no", "yes", or "timer" for the last 500 ms
  calls,     \* requests whose answer the page still awaits
  polling,   \* the payment status poll: attempt key of the order, attempts left
  page,      \* the attempt key whose confirmationUrl is open, 0 in the shop
  drawn,     \* attempt keys drawn so far
  reloads,   \* page loads so far
  placed,    \* backend: the orders, by attempt key
  paid       \* backend: the orders whose payment is SUCCEEDED

checkoutVars == <<cart, shown, form, widget, busy, calls, polling, page, drawn,
                  reloads, placed, paid>>

-------------------------------------------------------------------------------
Cart      == [Item -> 0 .. MaxQuantity]
EmptyCart == [i \in Item |-> 0]
Attempt   == 1 .. MaxKeys

\* What a calculation of CDEK was made for; pickup points are listed by city
\* and by the packages they must take.
Quote  == [city : City, cart : Cart]
Office == Quote

\* What distinguishes one checkout from another.
Contents == [cart : Cart, city : City, office : Office, customer : Customer]

NoForm   == [city |-> Nothing, office |-> Nothing, deliveryPrice |-> Nothing,
             customer |-> Nothing, fingerprint |-> Nothing, key |-> Nothing]
NoWidget == [cities |-> {}, offices |-> {}]

\* An order as it is stored.  Its delivery price is not here: the backend asks CDEK
\* for it again, whatever price the form showed.  visit, here and in the requests, is
\* the page load in which it was submitted; the code does not keep it.
StoredOrder == [contents : Contents, visit : 0 .. MaxReloads]

\* live: the component instance that asked is still mounted; a price is none of
\* its state.
DeliveryCall ==
  [what : {"cities"}, live : BOOLEAN]
  \cup [what : {"offices"}, by : {"city", "query"}, for : Quote, live : BOOLEAN]
  \cup [what : {"price"}, for : Quote]

SubmitCall == [what : {"submit"}, key : Attempt, contents : Contents,
               visit : 0 .. MaxReloads, live : BOOLEAN]
AnswerCall == [what : {"answer"}, key : Attempt, contents : Contents,
               visit : 0 .. MaxReloads,
               result : {"url", "alreadyPaid", "error"}, live : BOOLEAN]

\* validCartItems: what CheckoutLayer shows, prices and sends.
ValidCart == [i \in Item |-> IF i \in shown THEN cart[i] ELSE 0]

\* A page load, with the cart of an earlier visit.
CheckoutInit ==
  /\ cart \in Cart /\ shown = {}
  /\ form = NoForm /\ widget = NoWidget /\ busy = "no"
  /\ calls = {} /\ polling = Nothing /\ page = 0
  /\ drawn = 0 /\ reloads = 0
  /\ placed = [k \in Attempt |-> Nothing] /\ paid = {}

InShop == page = 0
Backend == <<placed, paid>>
Session == <<page, drawn, reloads>>

\* One more request to await; the same question is not asked twice at a time.
Ask(c) ==
  /\ c \notin calls /\ Cardinality(calls) < MaxCalls
  /\ calls' = calls \cup {c}

\* React unmounts a component: its setState calls no longer do anything, but
\* what its handlers write to the stores still arrives; a list of pickup points
\* for a query writes nothing there.
Orphan(kinds) ==
  {IF c.what \in kinds THEN [c EXCEPT !.live = FALSE] ELSE c :
     c \in {d \in calls : ~(d.what = "offices" /\ d.what \in kinds /\ d.by = "query")}}
DeliveryKinds == {"cities", "offices"}

-------------------------------------------------------------------------------
\* The cart

\* resetDeliverySelection: formResetKey is the key of O_CheckoutDeliveryFields,
\* so a new instance replaces the mounted one.
\* Mutant: the selection is cleared, the instance stays.
resetDeliverySelectionOnly ==
  /\ form' = [form EXCEPT !.office = Nothing, !.deliveryPrice = Nothing]
  /\ UNCHANGED <<widget, calls>>

resetDeliverySelection ==
  /\ form' = [form EXCEPT !.office = Nothing, !.deliveryPrice = Nothing]
  /\ widget' = NoWidget
  /\ calls' = Orphan(DeliveryKinds)

\* The buttons of an item: on its card, and in the cart if it is there.
CanAdd(i)      == i \in shown /\ cart[i] < MaxQuantity
CanDecrease(i) == i \in shown /\ cart[i] > 0

addItem(i) ==
  /\ InShop /\ CanAdd(i)
  /\ cart' = [cart EXCEPT ![i] = @ + 1]
  /\ resetDeliverySelection
  /\ UNCHANGED <<shown, busy, polling, Session, Backend>>

decreaseItem(i) ==
  /\ InShop /\ CanDecrease(i)
  /\ cart' = [cart EXCEPT ![i] = @ - 1]
  /\ resetDeliverySelection
  /\ UNCHANGED <<shown, busy, polling, Session, Backend>>

\* App loads the items once per page load and drops from the cart those that
\* are no longer sold; it resets the selection only if some were.
removeUnavailableItems(available) ==
  /\ InShop /\ shown = {} /\ available # {}
  /\ shown' = available
  /\ cart' = [i \in Item |-> IF i \in available THEN cart[i] ELSE 0]
  /\ IF cart' = cart THEN UNCHANGED <<form, widget, calls>> ELSE resetDeliverySelection
  /\ UNCHANGED <<busy, polling, Session, Backend>>

-------------------------------------------------------------------------------
\* The form

\* What cdekController answers, and what the form makes of an error: no city, no
\* pickup point, no price.
citiesFound     == {{}, City}
officesFound(q) == {{}, {q}}
priceFound(q)   == {Nothing, q}

\* O_CheckoutCustomerFields and the comment: filled in completely, or not.
EditCustomer(c) ==
  /\ InShop /\ c # form.customer
  /\ form' = [form EXCEPT !.customer = c]
  /\ UNCHANGED <<cart, shown, widget, busy, calls, polling, Session, Backend>>

\* handleCityInputChange up to getCities; a short text only empties the list.
\* That nothing else is awaited when it asks is a bound.
TypeCity ==
  /\ InShop /\ calls = {} /\ Ask([what |-> "cities", live |-> TRUE])
  /\ UNCHANGED <<cart, shown, form, widget, busy, polling, Session, Backend>>

TypeShortCity ==
  /\ InShop /\ widget.cities # {}
  /\ widget' = [widget EXCEPT !.cities = {}]
  /\ UNCHANGED <<cart, shown, form, busy, calls, polling, Session, Backend>>

\* The list, {} after an error; city, office and price are dropped either way.
CitiesAnswered(c, found) ==
  /\ InShop /\ c \in calls /\ c.what = "cities" /\ found \in citiesFound
  /\ calls' = calls \ {c}
  /\ widget' = IF c.live THEN [widget EXCEPT !.cities = found] ELSE widget
  /\ form' = [form EXCEPT !.city = Nothing, !.office = Nothing, !.deliveryPrice = Nothing]
  /\ UNCHANGED <<cart, shown, busy, polling, Session, Backend>>

\* handleCityClick.  Without valid packages loadOffices returns [] at once.
ClickCity(city) ==
  /\ InShop /\ city \in widget.cities
  /\ \/ /\ ValidCart = EmptyCart
        /\ form' = [form EXCEPT !.city = city, !.office = Nothing]
        /\ widget' = [widget EXCEPT !.offices = {}]
        /\ UNCHANGED calls
     \/ /\ ValidCart # EmptyCart
        /\ form' = [form EXCEPT !.city = city]
        /\ Ask([what |-> "offices", by |-> "city",
                for |-> [city |-> city, cart |-> ValidCart], live |-> TRUE])
        /\ UNCHANGED widget
  /\ UNCHANGED <<cart, shown, busy, polling, Session, Backend>>

\* handleOfficeInputChange; without a city it only shows a toast.
TypeOffice ==
  /\ InShop /\ form.city # Nothing
  /\ \/ /\ ValidCart = EmptyCart
        /\ widget' = [widget EXCEPT !.offices = {}]
        /\ UNCHANGED calls
     \/ /\ ValidCart # EmptyCart
        /\ Ask([what |-> "offices", by |-> "query",
                for |-> [city |-> form.city, cart |-> ValidCart], live |-> TRUE])
        /\ UNCHANGED widget
  /\ UNCHANGED <<cart, shown, form, busy, polling, Session, Backend>>

\* The rest of handleCityClick and of handleOfficeInputChange: the pickup
\* points, or none of them after an error or for a text that fits none.
OfficesAnswered(c, found) ==
  /\ InShop /\ c \in calls /\ c.what = "offices" /\ found \in officesFound(c.for)
  /\ calls' = calls \ {c}
  /\ widget' = IF c.live THEN [widget EXCEPT !.offices = found] ELSE widget
  /\ form' = IF c.by = "city" THEN [form EXCEPT !.office = Nothing] ELSE form
  /\ UNCHANGED <<cart, shown, busy, polling, Session, Backend>>

\* handleOfficeClick up to getDeliveryPrice.
ClickOffice(o) ==
  /\ InShop /\ o \in widget.offices
  /\ form' = [form EXCEPT !.office = o]
  /\ IF form.city = Nothing \/ ValidCart = EmptyCart
     THEN UNCHANGED calls
     ELSE Ask([what |-> "price", for |-> [city |-> form.city, cart |-> ValidCart]])
  /\ UNCHANGED <<cart, shown, widget, busy, polling, Session, Backend>>

\* The price goes to the store, whatever was chosen meanwhile; an error leaves
\* the one that is there.
PriceAnswered(c, price) ==
  /\ InShop /\ c \in calls /\ c.what = "price"
  /\ calls' = calls \ {c}
  /\ price \in priceFound(c.for)
  /\ form' = IF price = Nothing THEN form ELSE [form EXCEPT !.deliveryPrice = price]
  /\ UNCHANGED <<cart, shown, widget, busy, polling, Session, Backend>>

-------------------------------------------------------------------------------
\* Submitting

contents == [cart |-> ValidCart, city |-> form.city, office |-> form.office,
             customer |-> form.customer]

\* The refusals of handleSubmit that show a toast and return.
CanSubmit ==
  /\ InShop /\ busy = "no"
  /\ ValidCart # EmptyCart
  /\ Nothing \notin {form.customer, form.deliveryPrice, form.city, form.office}

\* Mutant: the key is kept for other contents too.
attemptKeyKept == IF form.key = Nothing THEN drawn + 1 ELSE form.key

\* Mutant: every submission draws a new key.
attemptKeyNew == drawn + 1

\* The key of the last attempt if nothing changed since, else a new one.
attemptKey ==
  IF form.key # Nothing /\ form.fingerprint = contents THEN form.key ELSE drawn + 1

\* handleSubmit up to createOrder.
handleSubmit ==
  /\ CanSubmit
  /\ attemptKey \in Attempt
  /\ form' = [form EXCEPT !.key = attemptKey, !.fingerprint = contents]
  /\ IF attemptKey > drawn THEN drawn' = attemptKey ELSE UNCHANGED drawn
  /\ busy' = "yes"
  /\ Ask([what |-> "submit", key |-> attemptKey, contents |-> contents,
          visit |-> reloads, live |-> TRUE])
  /\ UNCHANGED <<cart, shown, widget, polling, page, reloads, Backend>>

Answered(c, result) ==
  calls' = (calls \ {c}) \cup {[what |-> "answer", key |-> c.key,
                                contents |-> c.contents, visit |-> c.visit,
                                result |-> result, live |-> c.live]}

\* createOrder of the backend refuses: the items, the price, or CDEK failed.
RefuseOrder(c) ==
  /\ c \in calls /\ c.what = "submit"
  /\ Answered(c, "error")
  /\ UNCHANGED <<cart, shown, form, widget, busy, polling, Session, Backend>>

\* createOrder with getOrCreateCheckoutOrder: the order of the key, or a new
\* one; then its payment, which may fail and leave the order.
CreateOrder(c, fails) ==
  /\ c \in calls /\ c.what = "submit"
  /\ placed' = IF placed[c.key] # Nothing THEN placed
               ELSE [placed EXCEPT ![c.key] = [contents |-> c.contents, visit |-> c.visit]]
  /\ Answered(c, IF fails THEN "error"
                 ELSE IF c.key \in paid THEN "alreadyPaid" ELSE "url")
  /\ UNCHANGED <<cart, shown, form, widget, busy, polling, Session, paid>>

\* The rest of handleSubmit: leave for the confirmationUrl, whether the layer is
\* still open or not, or show a toast.  finally: the button is back after 500 ms.
OrderAnswered(c) ==
  /\ InShop /\ c \in calls /\ c.what = "answer"
  /\ \/ /\ c.result = "url"
        /\ page' = c.key /\ calls' = {}
     \/ /\ c.result # "url"
        /\ calls' = calls \ {c}
        /\ UNCHANGED page
  /\ busy' = IF c.live THEN "timer" ELSE busy
  /\ UNCHANGED <<cart, shown, form, widget, polling, drawn, reloads, Backend>>

\* The request is lost, before or after the backend served it.
SubmitLost(c) ==
  /\ InShop /\ c \in calls /\ c.what \in {"submit", "answer"}
  /\ calls' = calls \ {c}
  /\ busy' = IF c.live THEN "timer" ELSE busy
  /\ UNCHANGED <<cart, shown, form, widget, polling, Session, Backend>>

SubmitTimer ==
  /\ InShop /\ busy = "timer"
  /\ busy' = "no"
  /\ UNCHANGED <<cart, shown, form, widget, calls, polling, Session, Backend>>

-------------------------------------------------------------------------------
\* The page, and the return from the payment

\* A page load: only the cart is kept.  k is the order the URL names, or Nothing.
\* Before the first attempt it would lead to an initial state.
LoadPage(k) ==
  /\ drawn > 0
  /\ reloads < MaxReloads /\ reloads' = reloads + 1
  /\ page' = 0 /\ shown' = {}
  /\ form' = NoForm /\ widget' = NoWidget /\ busy' = "no" /\ calls' = {}
  /\ polling' = IF k = Nothing THEN Nothing ELSE [key |-> k, left |-> PollAttempts]
  /\ UNCHANGED <<cart, drawn, Backend>>

Reload == InShop /\ LoadPage(Nothing)

\* YooKassa sends the customer to the return URL; the browser's history and a
\* reload lead there again.
OpenReturnUrl(k) == placed[k] # Nothing /\ page \in {0, k} /\ LoadPage(k)

\* Back from YooKassa to the page as it was left, which the browser kept.
BackToShop ==
  /\ ~InShop /\ page' = 0
  /\ UNCHANGED <<cart, shown, form, widget, busy, calls, polling, drawn, reloads, Backend>>

\* The customer pays, and the backend learns it, at YooKassa's page or later.
CustomerPaysOrder(k) ==
  /\ placed[k] # Nothing /\ k \notin paid
  /\ page = k \/ (polling # Nothing /\ polling.key = k)
  /\ paid' = paid \cup {k}
  /\ UNCHANGED <<cart, shown, form, widget, busy, calls, polling, Session, placed>>

\* One answer of checkPaymentStatus in syncPaymentStatus.
PollPaid ==
  /\ InShop /\ polling # Nothing /\ polling.key \in paid
  /\ cart' = EmptyCart /\ resetDeliverySelection
  /\ polling' = Nothing
  /\ UNCHANGED <<shown, busy, Session, Backend>>

\* Mutant: the poll does not count its attempts.
PollUnpaidForever ==
  /\ InShop /\ polling # Nothing /\ polling.key \notin paid
  /\ polling' = [polling EXCEPT !.left = @ - 1]
  /\ UNCHANGED <<cart, shown, form, widget, busy, calls, Session, Backend>>

PollUnpaid ==
  /\ InShop /\ polling # Nothing /\ polling.key \notin paid
  /\ polling' = IF polling.left = 1 THEN Nothing ELSE [polling EXCEPT !.left = @ - 1]
  /\ UNCHANGED <<cart, shown, form, widget, busy, calls, Session, Backend>>

\* The poll ends with an error, or because the path changed (isCancelled).
PollStops ==
  /\ InShop /\ polling # Nothing
  /\ polling' = Nothing
  /\ UNCHANGED <<cart, shown, form, widget, busy, calls, Session, Backend>>

\* The layer is closed and opened again: a new CheckoutLayer, the same stores.
ReopenCheckout ==
  /\ InShop
  /\ widget' = NoWidget /\ busy' = "no" /\ polling' = Nothing
  /\ calls' = Orphan(DeliveryKinds \cup {"submit", "answer"})
  /\ UNCHANGED <<cart, shown, form, Session, Backend>>

CheckoutNext ==
  \/ \E i \in Item : addItem(i) \/ decreaseItem(i)
  \/ \E available \in SUBSET Item : removeUnavailableItems(available)
  \/ \E c \in Customer \cup {Nothing} : EditCustomer(c)
  \/ TypeCity \/ TypeShortCity \/ TypeOffice
  \/ \E city \in City : ClickCity(city)
  \/ \E o \in widget.offices : ClickOffice(o)
  \/ \E c \in calls :
       \/ \E found \in citiesFound : CitiesAnswered(c, found)
       \/ c.what = "offices" /\ \E found \in officesFound(c.for) : OfficesAnswered(c, found)
       \/ c.what = "price" /\ \E price \in priceFound(c.for) : PriceAnswered(c, price)
       \/ \E fails \in BOOLEAN : CreateOrder(c, fails)
       \/ RefuseOrder(c) \/ OrderAnswered(c) \/ SubmitLost(c)
  \/ handleSubmit \/ SubmitTimer
  \/ \E k \in Attempt : OpenReturnUrl(k) \/ CustomerPaysOrder(k)
  \/ Reload \/ BackToShop \/ PollPaid \/ PollUnpaid \/ PollStops \/ ReopenCheckout

CheckoutSpec == CheckoutInit /\ [][CheckoutNext]_checkoutVars

-------------------------------------------------------------------------------
\* Properties

CheckoutTypeOK ==
  /\ cart \in Cart /\ shown \subseteq Item
  /\ form \in [city : City \cup {Nothing}, office : Office \cup {Nothing},
               deliveryPrice : Quote \cup {Nothing}, customer : Customer \cup {Nothing},
               fingerprint : Contents \cup {Nothing}, key : Attempt \cup {Nothing}]
  /\ widget \in [cities : SUBSET City, offices : SUBSET Office]
  /\ busy \in {"no", "yes", "timer"}
  /\ calls \subseteq DeliveryCall \cup SubmitCall \cup AnswerCall
  /\ polling \in [key : Attempt, left : 1 .. PollAttempts] \cup {Nothing}
  /\ page \in Attempt \cup {0}
  /\ drawn \in 0 .. MaxKeys /\ reloads \in 0 .. MaxReloads
  /\ placed \in [Attempt -> StoredOrder \cup {Nothing}]
  /\ paid \subseteq Attempt

\* A pickup point is offered for the packages of a cart.  The one an order is
\* placed with was offered for that order's items, although lists arrive late
\* and the cart changes under them (resetDeliverySelection, formResetKey).
OfficeTakesTheParcels ==
  \A k \in Attempt :
    placed[k] # Nothing => placed[k].contents.office.cart = placed[k].contents.cart

\* README, checkout idempotency: the order a submission is answered with is an
\* order for what was submitted, never one placed earlier under the same key
\* for something else (handleSubmit's fingerprint, getOrCreateCheckoutOrder).
OrderIsWhatWasSubmitted ==
  \A c \in calls :
    /\ c.what \in {"submit", "answer"} /\ placed[c.key] # Nothing
    => placed[c.key].contents = c.contents

\* The other half of idempotency: a form that is submitted again as it was, after an
\* error, a lost answer or its layer's being closed under the request, does not
\* become a second order.  Of two attempts made one after the other in the same
\* page load both become orders only if they differ.  A reload forgets the
\* attempt, and after one the same cart may be ordered again (handleSubmit's
\* fingerprint and key, formData.store, getOrCreateCheckoutOrder).
SubmittedOnce ==
  \A k, m \in Attempt :
    /\ m = k + 1 /\ placed[k] # Nothing /\ placed[m] # Nothing
    /\ placed[k].visit = placed[m].visit
    => placed[k].contents # placed[m].contents

-------------------------------------------------------------------------------
\* The inductive invariant behind them

Fits(q) == q.cart = ValidCart /\ ValidCart # EmptyCart

\* What is offered, or will be, and what is chosen was asked for the cart as it is.
OffersFit ==
  /\ form.office # Nothing => Fits(form.office)
  /\ \A q \in widget.offices : Fits(q)
  /\ \A c \in calls : c.what = "offices" /\ c.live => Fits(c.for)

Submission(c) == c.what \in {"submit", "answer"}

SubmissionsFit ==
  /\ \A c \in calls : Submission(c) => c.contents.office.cart = c.contents.cart
  /\ OfficeTakesTheParcels

\* A key stands for one content: in the form, in every request and in the order.
KeysFit ==
  /\ form.key # Nothing =>
       /\ form.key <= drawn
       /\ \A c \in calls : Submission(c) /\ c.key = form.key => c.contents = form.fingerprint
       /\ placed[form.key] # Nothing => placed[form.key].contents = form.fingerprint
  /\ \A c \in calls : Submission(c) => c.key <= drawn
  /\ \A c, d \in calls :
       Submission(c) /\ Submission(d) /\ c.key = d.key => c.contents = d.contents
  /\ \A k \in Attempt : placed[k] # Nothing => k <= drawn
  /\ OrderIsWhatWasSubmitted

\* Every attempt that was made, as the requests and the orders know it.
AttemptsMade ==
  {[key |-> c.key, contents |-> c.contents, visit |-> c.visit] :
     c \in {d \in calls : Submission(d)}}
  \cup {[key |-> k, contents |-> placed[k].contents, visit |-> placed[k].visit] :
          k \in {j \in Attempt : placed[j] # Nothing}}

\* The form keeps the last key of this page load, and forgets it only with the load;
\* the attempt before it was for something else.
VisitsFit ==
  /\ form.key # Nothing =>
       /\ form.key = drawn
       /\ \A a \in AttemptsMade :
            a.key + 1 = drawn /\ a.visit = reloads => a.contents # form.fingerprint
  /\ \A a \in AttemptsMade :
       a.visit <= reloads /\ (form.key = Nothing => a.visit < reloads)
  /\ \A a, b \in AttemptsMade :
       b.key = a.key + 1 /\ a.visit = b.visit => a.contents # b.contents

\* What the page offers, has chosen, awaits and has ordered was asked for the cart
\* it is used with, and a key never meets other contents than its own, although
\* every answer may come after the cart has changed (O_CheckoutDeliveryFields,
\* handleSubmit).
CheckoutInv ==
  CheckoutTypeOK /\ OffersFit /\ SubmissionsFit /\ KeysFit /\ VisitsFit
===============================================================================
