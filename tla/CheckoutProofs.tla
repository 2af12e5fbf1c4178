---------------------------- MODULE CheckoutProofs ----------------------------
(***************************************************************************)
(* Proofs about Checkout, for any items, cities and customers and any      *)
(* bounds.                                                                 *)
(*                                                                         *)
(* CheckoutInv is inductive.  OffersFit: every change of the cart drops    *)
(* the pickup points, chosen, listed and awaited, so that those there are  *)
(* fit the cart.  KeysFit: a new key is one nobody used, and an old one is *)
(* used again only for the contents it was drawn for.  VisitsFit: within a *)
(* page load the form knows its last attempt, and a new key is drawn only  *)
(* for other contents than those.                                          *)
(***************************************************************************)
EXTENDS Checkout, TLAPS

Form == [city : City \cup {Nothing}, office : Office \cup {Nothing},
         deliveryPrice : Quote \cup {Nothing}, customer : Customer \cup {Nothing},
         fingerprint : Contents \cup {Nothing}, key : Attempt \cup {Nothing}]
Call == DeliveryCall \cup SubmitCall \cup AnswerCall

\* Two requests of the same attempt.
Same(d, c) == d.key = c.key /\ d.contents = c.contents /\ d.visit = c.visit

LEMMA CheckoutInitInv == CheckoutInit => CheckoutInv
<1> SUFFICES ASSUME CheckoutInit PROVE CheckoutInv
  OBVIOUS
<1>1. CheckoutTypeOK
  BY CheckoutAssumption DEF CheckoutInit, CheckoutTypeOK, NoForm, NoWidget
<1>2. OffersFit
  BY DEF CheckoutInit, OffersFit, NoForm, NoWidget
<1>3. SubmissionsFit
  BY DEF CheckoutInit, SubmissionsFit, OfficeTakesTheParcels
<1>4. KeysFit
  BY DEF CheckoutInit, KeysFit, OrderIsWhatWasSubmitted, NoForm
<1>5. VisitsFit
  BY DEF CheckoutInit, VisitsFit, AttemptsMade, NoForm
<1> QED
  BY <1>1, <1>2, <1>3, <1>4, <1>5 DEF CheckoutInv

LEMMA ValidCartType == CheckoutTypeOK => ValidCart \in Cart
  BY CheckoutAssumption DEF CheckoutTypeOK, ValidCart, Cart

-------------------------------------------------------------------------------
\* What the actions do to the requests

\* A request of an unmounted component is still the same request.
LEMMA OrphanedCall ==
  ASSUME NEW c \in Call, c.what # "price"
  PROVE  /\ [c EXCEPT !.live = FALSE] \in Call
         /\ [c EXCEPT !.live = FALSE].live = FALSE
         /\ [c EXCEPT !.live = FALSE].what = c.what
         /\ c.what = "offices" => [c EXCEPT !.live = FALSE].for = c.for
         /\ Submission(c) => Same([c EXCEPT !.live = FALSE], c)
<1>1. CASE c \in [what : {"cities"}, live : BOOLEAN]
  BY <1>1 DEF Call, DeliveryCall, Submission, Same
<1>2. CASE c \in [what : {"offices"}, by : {"city", "query"}, for : Quote, live : BOOLEAN]
  BY <1>2 DEF Call, DeliveryCall, Submission, Same
<1>3. CASE c \in SubmitCall
  BY <1>3 DEF Call, SubmitCall, Submission, Same
<1>4. CASE c \in AnswerCall
  BY <1>4 DEF Call, AnswerCall, Submission, Same
<1>5. CASE c \in [what : {"price"}, for : Quote]
  BY <1>5
<1> QED
  BY <1>1, <1>2, <1>3, <1>4, <1>5 DEF Call, DeliveryCall

LEMMA OrphanFacts ==
  ASSUME CheckoutTypeOK, NEW kinds, "price" \notin kinds
  PROVE  /\ Orphan(kinds) \subseteq Call
         /\ \A d \in Orphan(kinds) :
              \E c \in calls : /\ d.what = c.what
                               /\ Submission(c) => Same(d, c)
         /\ "offices" \in kinds =>
              \A d \in Orphan(kinds) : ~(d.what = "offices" /\ d.live)
<1> SUFFICES ASSUME NEW d \in Orphan(kinds)
             PROVE  /\ d \in Call
                    /\ \E c \in calls :
                         /\ d.what = c.what
                         /\ Submission(c) => Same(d, c)
                    /\ "offices" \in kinds => ~(d.what = "offices" /\ d.live)
  OBVIOUS
<1>1. PICK c \in calls : d = IF c.what \in kinds THEN [c EXCEPT !.live = FALSE] ELSE c
  BY DEF Orphan
<1>2. c \in Call
  BY DEF CheckoutTypeOK, Call
<1>3. CASE c.what \in kinds
  BY <1>1, <1>2, <1>3, OrphanedCall
<1>4. CASE c.what \notin kinds
  BY <1>1, <1>2, <1>4 DEF Same
<1> QED
  BY <1>3, <1>4

\* The attempts are of their type.
LEMMA AttemptsType ==
  ASSUME CheckoutTypeOK
  PROVE  \A a \in AttemptsMade : a.key \in Attempt /\ a.visit \in 0 .. MaxReloads
<1>1. \A c \in calls : Submission(c) => c.key \in Attempt /\ c.visit \in 0 .. MaxReloads
  BY DEF CheckoutTypeOK, DeliveryCall, SubmitCall, AnswerCall, Submission
<1>2. \A k \in Attempt : placed[k] # Nothing => placed[k].visit \in 0 .. MaxReloads
  BY DEF CheckoutTypeOK, StoredOrder
<1> QED
  BY <1>1, <1>2 DEF AttemptsMade

\* Nothing is attempted when requests change and none is new.
LEMMA AttemptsKept ==
  ASSUME placed' = placed,
         \A d \in calls' : Submission(d) => \E c \in calls : Submission(c) /\ Same(d, c)
  PROVE  AttemptsMade' \subseteq AttemptsMade
<1> SUFFICES ASSUME NEW a \in AttemptsMade' PROVE a \in AttemptsMade
  OBVIOUS
<1>1. CASE \E d \in calls' : /\ Submission(d)
                            /\ a = [key |-> d.key, contents |-> d.contents, visit |-> d.visit]
  BY <1>1 DEF AttemptsMade, Same
<1>2. CASE \E k \in Attempt :
             /\ placed[k] # Nothing
             /\ a = [key |-> k, contents |-> placed[k].contents, visit |-> placed[k].visit]
  BY <1>2 DEF AttemptsMade
<1> QED
  BY <1>1, <1>2 DEF AttemptsMade

\* Without a new attempt they fit the form as before, or the form of a new page load.
LEMMA VisitsFrame ==
  ASSUME CheckoutInv, AttemptsMade' \subseteq AttemptsMade, UNCHANGED drawn,
         \/ form'.key = Nothing /\ reloads' = reloads + 1
         \/ /\ form'.key = form.key /\ form'.fingerprint = form.fingerprint
            /\ UNCHANGED reloads
  PROVE  VisitsFit'
<1>1. \A a \in AttemptsMade : a.visit \in Nat /\ a.visit <= reloads
  BY AttemptsType, CheckoutAssumption DEF CheckoutInv, VisitsFit
<1>2. reloads \in Nat
  BY CheckoutAssumption DEF CheckoutInv, CheckoutTypeOK
<1>3. CASE form'.key = Nothing /\ reloads' = reloads + 1
  BY <1>1, <1>2, <1>3 DEF CheckoutInv, VisitsFit
<1>4. CASE /\ form'.key = form.key /\ form'.fingerprint = form.fingerprint
           /\ UNCHANGED reloads
  BY <1>4 DEF CheckoutInv, VisitsFit
<1> QED
  BY <1>3, <1>4

\* An action that leaves the orders and the keys alone, or forgets the key of the
\* form with the page, and sends nothing to the backend.
LEMMA KeysFrame ==
  ASSUME CheckoutInv, CheckoutTypeOK',
         UNCHANGED <<placed, drawn>>,
         \/ form'.key = Nothing /\ reloads' = reloads + 1
         \/ /\ form'.key = form.key /\ form'.fingerprint = form.fingerprint
            /\ UNCHANGED reloads,
         \A d \in calls' : Submission(d) => \E c \in calls : Submission(c) /\ Same(d, c)
  PROVE  SubmissionsFit' /\ KeysFit' /\ VisitsFit'
<1>1. SubmissionsFit'
  BY DEF CheckoutInv, SubmissionsFit, OfficeTakesTheParcels, Submission, Same
<1>2. KeysFit'
  BY DEF CheckoutInv, KeysFit, OrderIsWhatWasSubmitted, Submission, Same
<1>3. VisitsFit'
  BY AttemptsKept, VisitsFrame
<1> QED
  BY <1>1, <1>2, <1>3

\* An action that leaves the cart alone and offers and chooses nothing new.
LEMMA OffersFrame ==
  ASSUME CheckoutInv, UNCHANGED <<cart, shown>>,
         form'.office \in {form.office, Nothing},
         widget'.offices \subseteq widget.offices,
         \A d \in calls' : d.what = "offices" /\ d.live => d \in calls
  PROVE  OffersFit'
  BY DEF CheckoutInv, OffersFit, Fits, ValidCart

\* An action that drops every pickup point, chosen, offered or awaited.
LEMMA OffersDropped ==
  ASSUME form'.office = Nothing, widget'.offices = {},
         \A d \in calls' : ~(d.what = "offices" /\ d.live)
  PROVE  OffersFit'
  BY DEF OffersFit

LEMMA ResetSelection ==
  ASSUME CheckoutInv, resetDeliverySelection
  PROVE  /\ form' \in Form /\ form'.office = Nothing
         /\ form'.key = form.key /\ form'.fingerprint = form.fingerprint
         /\ widget' = NoWidget
         /\ calls' \subseteq Call
         /\ \A d \in calls' : ~(d.what = "offices" /\ d.live)
         /\ \A d \in calls' : Submission(d) =>
              \E c \in calls : Submission(c) /\ Same(d, c)
<1>1. /\ form' \in Form /\ form'.office = Nothing
      /\ form'.key = form.key /\ form'.fingerprint = form.fingerprint
  BY DEF CheckoutInv, CheckoutTypeOK, resetDeliverySelection, Form
<1>2. CheckoutTypeOK /\ "price" \notin DeliveryKinds /\ "offices" \in DeliveryKinds
  BY DEF CheckoutInv, DeliveryKinds
<1>3. calls' = Orphan(DeliveryKinds) /\ widget' = NoWidget
  BY DEF resetDeliverySelection
<1> QED
  BY <1>1, <1>2, <1>3, OrphanFacts DEF Submission

-------------------------------------------------------------------------------
\* The cart

LEMMA CartChanges ==
  ASSUME CheckoutInv, resetDeliverySelection, cart' \in Cart, shown' \subseteq Item,
         UNCHANGED <<busy, Session, Backend>>,
         polling' \in {polling, Nothing}
  PROVE  CheckoutInv'
<1>1. CheckoutTypeOK'
  BY ResetSelection
  DEF CheckoutInv, CheckoutTypeOK, Form, Call, NoWidget, Session, Backend
<1>2. OffersFit'
  BY ResetSelection, OffersDropped DEF NoWidget
<1>3. SubmissionsFit' /\ KeysFit' /\ VisitsFit'
  BY <1>1, ResetSelection, KeysFrame DEF Session, Backend
<1> QED
  BY <1>1, <1>2, <1>3 DEF CheckoutInv

\* A quantity stays within its bound, and the selection goes.
LEMMA AddItemInv == ASSUME CheckoutInv, NEW i \in Item, addItem(i) PROVE CheckoutInv'
<1>1. cart' \in Cart
  BY CheckoutAssumption DEF CheckoutInv, CheckoutTypeOK, Cart, addItem, CanAdd
<1> QED
  BY <1>1, CartChanges DEF CheckoutInv, CheckoutTypeOK, addItem

LEMMA DecreaseItemInv == ASSUME CheckoutInv, NEW i \in Item, decreaseItem(i) PROVE CheckoutInv'
<1>1. cart' \in Cart
  BY CheckoutAssumption DEF CheckoutInv, CheckoutTypeOK, Cart, decreaseItem, CanDecrease
<1> QED
  BY <1>1, CartChanges DEF CheckoutInv, CheckoutTypeOK, decreaseItem

\* Before the items are there nothing fits the cart, so that there is no offer
\* for the cart that they show.
LEMMA RemoveUnavailableItemsInv ==
  ASSUME CheckoutInv, NEW available \in SUBSET Item, removeUnavailableItems(available)
  PROVE  CheckoutInv'
<1>1. cart' \in Cart /\ shown' \subseteq Item /\ polling' = polling
  BY CheckoutAssumption DEF CheckoutInv, CheckoutTypeOK, Cart, removeUnavailableItems
<1>2. CASE cart' # cart
  BY <1>1, <1>2, CartChanges DEF removeUnavailableItems
<1>3. CASE cart' = cart
  <2>1. UNCHANGED <<form, widget, calls>>
    BY <1>3 DEF removeUnavailableItems
  <2>2. CheckoutTypeOK'
    BY <1>1, <2>1 DEF CheckoutInv, CheckoutTypeOK, removeUnavailableItems, Session, Backend
  <2>3. ValidCart = EmptyCart
    BY DEF removeUnavailableItems, ValidCart, EmptyCart
  <2>4. OffersFit'
    BY <2>1, <2>3, OffersDropped DEF CheckoutInv, OffersFit, Fits
  <2>5. SubmissionsFit' /\ KeysFit' /\ VisitsFit'
    BY <2>1, <2>2, KeysFrame DEF removeUnavailableItems, Session, Backend, Same
  <2> QED
    BY <2>2, <2>4, <2>5 DEF CheckoutInv
<1> QED
  BY <1>2, <1>3

LEMMA PollPaidInv == ASSUME CheckoutInv, PollPaid PROVE CheckoutInv'
<1>1. cart' \in Cart
  BY CheckoutAssumption DEF PollPaid, Cart, EmptyCart
<1> QED
  BY <1>1, CartChanges DEF CheckoutInv, CheckoutTypeOK, PollPaid

-------------------------------------------------------------------------------
\* The form

\* An action that changes the selection, lists or the awaited requests of the
\* form, and neither the cart nor what the backend has.
LEMMA SelectionChanges ==
  ASSUME CheckoutInv, UNCHANGED <<cart, shown, Session, Backend>>,
         form' \in Form, form'.key = form.key, form'.fingerprint = form.fingerprint,
         widget' \in [cities : SUBSET City, offices : SUBSET Office],
         busy' \in {"no", "yes", "timer"}, polling' \in {polling, Nothing},
         calls' \subseteq Call, OffersFit',
         \A d \in calls' : Submission(d) => d \in calls
  PROVE  CheckoutInv'
<1>1. CheckoutTypeOK'
  BY DEF CheckoutInv, CheckoutTypeOK, Form, Call, Session, Backend
<1>2. /\ polling' \in {polling, Nothing} /\ UNCHANGED <<placed, drawn, reloads>>
      /\ \A d \in calls' : Submission(d) => \E c \in calls : Submission(c) /\ Same(d, c)
  BY DEF Session, Backend, Same
<1>3. SubmissionsFit' /\ KeysFit' /\ VisitsFit'
  BY <1>1, <1>2, KeysFrame
<1> QED
  BY <1>1, <1>3 DEF CheckoutInv

LEMMA FormType == CheckoutInv => form \in Form /\ calls \subseteq Call
  BY DEF CheckoutInv, CheckoutTypeOK, Form, Call

LEMMA EditCustomerInv ==
  ASSUME CheckoutInv, NEW c \in Customer \cup {Nothing}, EditCustomer(c)
  PROVE  CheckoutInv'
<1>1. /\ form' \in Form /\ form'.key = form.key /\ form'.fingerprint = form.fingerprint
      /\ form'.office = form.office
  BY FormType DEF EditCustomer, Form
<1>2. OffersFit'
  BY <1>1, OffersFrame DEF EditCustomer
<1> QED
  BY <1>1, <1>2, FormType, SelectionChanges DEF EditCustomer, CheckoutInv, CheckoutTypeOK

LEMMA TypeCityInv == ASSUME CheckoutInv, TypeCity PROVE CheckoutInv'
<1> DEFINE c == [what |-> "cities", live |-> TRUE]
<1>1. calls' = calls \cup {c} /\ UNCHANGED <<form, widget>>
  BY DEF TypeCity, Ask
<1>2. c \in Call /\ c.what = "cities"
  BY DEF Call, DeliveryCall
<1> HIDE DEF c
<1>3. OffersFit'
  BY <1>1, <1>2, OffersFrame DEF TypeCity
<1>4. calls' \subseteq Call /\ \A d \in calls' : Submission(d) => d \in calls
  BY <1>1, <1>2, FormType DEF Submission
<1> QED
  BY <1>1, <1>3, <1>4, FormType, SelectionChanges DEF TypeCity, CheckoutInv, CheckoutTypeOK

LEMMA TypeShortCityInv == ASSUME CheckoutInv, TypeShortCity PROVE CheckoutInv'
<1>1. /\ widget' \in [cities : SUBSET City, offices : SUBSET Office]
      /\ widget'.offices = widget.offices
  BY DEF TypeShortCity, CheckoutInv, CheckoutTypeOK
<1>2. OffersFit'
  BY <1>1, OffersFrame DEF TypeShortCity
<1> QED
  BY <1>1, <1>2, FormType, SelectionChanges DEF TypeShortCity, CheckoutInv, CheckoutTypeOK

\* The office goes with the city.
LEMMA CitiesAnsweredInv ==
  ASSUME CheckoutInv, NEW c \in calls, NEW found \in citiesFound, CitiesAnswered(c, found)
  PROVE  CheckoutInv'
<1>1. /\ form' \in Form /\ form'.key = form.key /\ form'.fingerprint = form.fingerprint
      /\ form'.office = Nothing
  BY FormType DEF CitiesAnswered, Form
<1>2. /\ widget' \in [cities : SUBSET City, offices : SUBSET Office]
      /\ widget'.offices = widget.offices
  BY DEF CitiesAnswered, citiesFound, CheckoutInv, CheckoutTypeOK
<1>3. calls' \subseteq calls
  BY DEF CitiesAnswered
<1>4. OffersFit'
  BY <1>1, <1>2, <1>3, OffersFrame DEF CitiesAnswered
<1> QED
  BY <1>1, <1>2, <1>3, <1>4, FormType, SelectionChanges
  DEF CitiesAnswered, CheckoutInv, CheckoutTypeOK

\* What is asked for fits the cart that it is asked for.
LEMMA AskForOffices ==
  ASSUME CheckoutInv, NEW by \in {"city", "query"}, NEW city \in City,
         ValidCart # EmptyCart,
         Ask([what |-> "offices", by |-> by, for |-> [city |-> city, cart |-> ValidCart],
              live |-> TRUE]),
         UNCHANGED <<cart, shown, widget>>, form'.office = form.office
  PROVE  /\ calls' \subseteq Call /\ OffersFit'
         /\ \A d \in calls' : Submission(d) => d \in calls
<1> DEFINE q == [city |-> city, cart |-> ValidCart]
           c == [what |-> "offices", by |-> by, for |-> q, live |-> TRUE]
<1>1. calls' = calls \cup {c}
  BY DEF Ask
<1>2. q \in Quote /\ q.cart = ValidCart
  BY ValidCartType DEF Quote, CheckoutInv
<1> HIDE DEF q
<1>3. c \in Call /\ c.what = "offices" /\ c.for = q
  BY <1>2 DEF Call, DeliveryCall
<1> HIDE DEF c
<1>4. ValidCart' = ValidCart
  BY DEF ValidCart
<1>5. \A d \in calls' : d.what = "offices" /\ d.live => Fits(d.for)
  BY <1>1, <1>2, <1>3 DEF CheckoutInv, OffersFit, Fits
<1>6. OffersFit'
  BY <1>4, <1>5 DEF CheckoutInv, OffersFit, Fits, EmptyCart
<1> QED
  BY <1>1, <1>3, <1>6, FormType DEF Submission

LEMMA ClickCityInv ==
  ASSUME CheckoutInv, NEW city \in City, ClickCity(city)
  PROVE  CheckoutInv'
<1>1. CASE /\ ValidCart = EmptyCart
           /\ form' = [form EXCEPT !.city = city, !.office = Nothing]
           /\ widget' = [widget EXCEPT !.offices = {}]
           /\ UNCHANGED calls
  <2>1. /\ form' \in Form /\ form'.key = form.key /\ form'.fingerprint = form.fingerprint
        /\ form'.office = Nothing
    BY <1>1, FormType DEF Form
  <2>2. /\ widget' \in [cities : SUBSET City, offices : SUBSET Office]
        /\ widget'.offices = {}
    BY <1>1 DEF CheckoutInv, CheckoutTypeOK
  <2>3. OffersFit'
    BY <1>1, <2>1, <2>2, OffersFrame DEF ClickCity
  <2> QED
    BY <1>1, <2>1, <2>2, <2>3, FormType, SelectionChanges
    DEF ClickCity, CheckoutInv, CheckoutTypeOK
<1>2. CASE /\ ValidCart # EmptyCart
           /\ form' = [form EXCEPT !.city = city]
           /\ Ask([what |-> "offices", by |-> "city",
                   for |-> [city |-> city, cart |-> ValidCart], live |-> TRUE])
           /\ UNCHANGED widget
  <2>1. /\ form' \in Form /\ form'.key = form.key /\ form'.fingerprint = form.fingerprint
        /\ form'.office = form.office
    BY <1>2, FormType DEF Form
  <2>2. /\ calls' \subseteq Call /\ OffersFit'
        /\ \A d \in calls' : Submission(d) => d \in calls
    BY <1>2, <2>1, AskForOffices DEF ClickCity
  <2> QED
    BY <1>2, <2>1, <2>2, SelectionChanges DEF ClickCity, CheckoutInv, CheckoutTypeOK
<1> QED
  BY <1>1, <1>2 DEF ClickCity

LEMMA TypeOfficeInv == ASSUME CheckoutInv, TypeOffice PROVE CheckoutInv'
<1>1. form.city \in City
  BY FormType DEF TypeOffice, Form
<1>2. CASE ValidCart = EmptyCart /\ widget' = [widget EXCEPT !.offices = {}] /\ UNCHANGED calls
  <2>1. /\ widget' \in [cities : SUBSET City, offices : SUBSET Office]
        /\ widget'.offices = {}
    BY <1>2 DEF CheckoutInv, CheckoutTypeOK
  <2>2. OffersFit'
    BY <1>2, <2>1, OffersFrame DEF TypeOffice
  <2> QED
    BY <1>2, <2>1, <2>2, FormType, SelectionChanges
    DEF TypeOffice, CheckoutInv, CheckoutTypeOK
<1>3. CASE /\ ValidCart # EmptyCart
           /\ Ask([what |-> "offices", by |-> "query",
                   for |-> [city |-> form.city, cart |-> ValidCart], live |-> TRUE])
           /\ UNCHANGED widget
  <2>1. /\ calls' \subseteq Call /\ OffersFit'
        /\ \A d \in calls' : Submission(d) => d \in calls
    BY <1>1, <1>3, AskForOffices DEF TypeOffice
  <2> QED
    BY <1>3, <2>1, FormType, SelectionChanges DEF TypeOffice, CheckoutInv, CheckoutTypeOK
<1> QED
  BY <1>2, <1>3 DEF TypeOffice

\* The list that arrives was asked for the cart as it is, or is not shown.
LEMMA OfficesAnsweredInv ==
  ASSUME CheckoutInv, NEW c \in calls, c.what = "offices",
         NEW found \in officesFound(c.for), OfficesAnswered(c, found)
  PROVE  CheckoutInv'
<1>1. /\ form' \in Form /\ form'.key = form.key /\ form'.fingerprint = form.fingerprint
      /\ form'.office \in {form.office, Nothing}
  BY FormType DEF OfficesAnswered, Form
<1>2. c \in Call
  BY FormType
<1>3. c.for \in Office /\ c.live \in BOOLEAN
  BY <1>2 DEF Call, DeliveryCall, SubmitCall, AnswerCall, Office
<1>4. /\ widget' \in [cities : SUBSET City, offices : SUBSET Office]
      /\ \A q \in widget'.offices : q \in widget.offices \/ (c.live /\ q = c.for)
  BY <1>3 DEF OfficesAnswered, officesFound, CheckoutInv, CheckoutTypeOK
<1>5. calls' \subseteq calls
  BY DEF OfficesAnswered
<1>6. ValidCart' = ValidCart
  BY DEF OfficesAnswered, ValidCart
<1>7. OffersFit'
  BY <1>1, <1>4, <1>5, <1>6 DEF CheckoutInv, OffersFit, Fits, EmptyCart
<1> QED
  BY <1>1, <1>4, <1>5, <1>7, FormType, SelectionChanges
  DEF OfficesAnswered, CheckoutInv, CheckoutTypeOK

LEMMA ClickOfficeInv ==
  ASSUME CheckoutInv, NEW o \in widget.offices, ClickOffice(o)
  PROVE  CheckoutInv'
<1>1. o \in Office /\ Fits(o)
  BY DEF CheckoutInv, CheckoutTypeOK, OffersFit
<1>2. /\ form' \in Form /\ form'.key = form.key /\ form'.fingerprint = form.fingerprint
      /\ form'.office = o
  BY <1>1, FormType DEF ClickOffice, Form
<1>3. /\ calls' \subseteq Call
      /\ \A d \in calls' : d \in calls \/ d.what = "price"
  <2>1. CASE form.city = Nothing \/ ValidCart = EmptyCart
    BY <2>1, FormType DEF ClickOffice
  <2>2. CASE ~(form.city = Nothing \/ ValidCart = EmptyCart)
    <3> DEFINE q == [city |-> form.city, cart |-> ValidCart]
               c == [what |-> "price", for |-> q]
    <3>1. calls' = calls \cup {c}
      BY <2>2 DEF ClickOffice, Ask
    <3>2. q \in Quote
      BY <2>2, FormType, ValidCartType DEF Form, Quote, CheckoutInv
    <3> HIDE DEF q
    <3>3. c \in Call /\ c.what = "price"
      BY <3>2 DEF Call, DeliveryCall
    <3> QED
      BY <3>1, <3>3, FormType
  <2> QED
    BY <2>1, <2>2
<1>4. ValidCart' = ValidCart
  BY DEF ClickOffice, ValidCart
<1>5. OffersFit'
  BY <1>1, <1>2, <1>3, <1>4 DEF CheckoutInv, OffersFit, Fits, EmptyCart, ClickOffice
<1> QED
  BY <1>2, <1>3, <1>5, SelectionChanges
  DEF ClickOffice, CheckoutInv, CheckoutTypeOK, Submission

LEMMA PriceAnsweredInv ==
  ASSUME CheckoutInv, NEW c \in calls, c.what = "price",
         NEW price \in priceFound(c.for), PriceAnswered(c, price)
  PROVE  CheckoutInv'
<1>1. c.for \in Quote
  BY FormType DEF Call, DeliveryCall, SubmitCall, AnswerCall
<1>2. /\ form' \in Form /\ form'.key = form.key /\ form'.fingerprint = form.fingerprint
      /\ form'.office = form.office
  BY <1>1, FormType DEF PriceAnswered, priceFound, Form
<1>3. calls' \subseteq calls
  BY DEF PriceAnswered
<1>4. OffersFit'
  BY <1>2, <1>3, OffersFrame DEF PriceAnswered
<1> QED
  BY <1>2, <1>3, <1>4, FormType, SelectionChanges
  DEF PriceAnswered, CheckoutInv, CheckoutTypeOK

-------------------------------------------------------------------------------
\* Submitting

LEMMA ContentsType ==
  ASSUME CheckoutInv, CanSubmit
  PROVE  contents \in Contents /\ contents.office.cart = contents.cart
<1>1. /\ form.city \in City /\ form.office \in Office /\ form.customer \in Customer
      /\ form.office.cart = ValidCart
  BY FormType DEF CanSubmit, Form, CheckoutInv, OffersFit, Fits
<1>2. ValidCart \in Cart
  BY ValidCartType DEF CheckoutInv
<1> QED
  BY <1>1, <1>2 DEF contents, Contents

\* The key of the form belongs to these contents, or nobody has used the key.
LEMMA HandleSubmitInv == ASSUME CheckoutInv, handleSubmit PROVE CheckoutInv'
<1> DEFINE k == attemptKey
           c == [what |-> "submit", key |-> k, contents |-> contents,
                 visit |-> reloads, live |-> TRUE]
<1>1. contents \in Contents /\ contents.office.cart = contents.cart
  BY ContentsType DEF handleSubmit
<1>2. k \in Attempt /\ reloads \in 0 .. MaxReloads /\ calls' = calls \cup {c}
  BY DEF handleSubmit, Ask, CheckoutInv, CheckoutTypeOK
<1>3. form' = [form EXCEPT !.key = k, !.fingerprint = contents]
  BY DEF handleSubmit
<1>4. \/ k = form.key /\ form.key # Nothing /\ form.fingerprint = contents
      \/ k = drawn + 1 /\ (form.key = Nothing \/ form.fingerprint # contents)
  BY DEF attemptKey
<1>5. drawn \in Nat /\ drawn' \in 0 .. MaxKeys /\ drawn <= drawn' /\ k = drawn'
  BY <1>2, <1>4, CheckoutAssumption
  DEF handleSubmit, CheckoutInv, CheckoutTypeOK, Attempt, VisitsFit
<1> HIDE DEF k
<1>6. /\ c \in Call /\ c.what = "submit" /\ c.key = k /\ c.contents = contents
      /\ c.visit = reloads
  BY <1>1, <1>2 DEF Call, SubmitCall
<1> HIDE DEF c
<1>7. /\ form' \in Form /\ form'.key = k /\ form'.fingerprint = contents
      /\ form'.office = form.office
  BY <1>1, <1>2, <1>3, FormType DEF Form
<1>8. CheckoutTypeOK'
  BY <1>2, <1>5, <1>6, <1>7
  DEF handleSubmit, CheckoutInv, CheckoutTypeOK, Form, Call, Backend
<1>9. OffersFit'
  BY <1>2, <1>6, <1>7, OffersFrame DEF handleSubmit
<1>10. SubmissionsFit'
  BY <1>1, <1>2, <1>6
  DEF handleSubmit, Backend, CheckoutInv, SubmissionsFit, OfficeTakesTheParcels, Submission
<1>11. placed' = placed
  BY DEF handleSubmit, Backend
<1>12. /\ \A d \in calls : Submission(d) => d.key \in Nat /\ d.key <= drawn
       /\ \A d \in calls : Submission(d) /\ d.key = k => d.contents = contents
       /\ placed[k] # Nothing => placed[k].contents = contents
  <2>1. \A d \in calls : Submission(d) => d.key \in Nat /\ d.key <= drawn
    BY FormType DEF Call, DeliveryCall, SubmitCall, AnswerCall, Submission, Attempt,
                    CheckoutInv, KeysFit
  <2>2. CASE k = form.key /\ form.key # Nothing /\ form.fingerprint = contents
    BY <2>1, <2>2 DEF CheckoutInv, KeysFit
  <2>3. CASE k = drawn + 1
    <3>1. \A d \in calls : Submission(d) => d.key # k
      BY <1>5, <2>1, <2>3
    <3>2. placed[k] = Nothing
      BY <1>2, <1>5, <2>3 DEF CheckoutInv, KeysFit
    <3> QED
      BY <2>1, <3>1, <3>2
  <2> QED
    BY <1>4, <2>2, <2>3
<1>13. KeysFit'
  <2>1. /\ \A d \in calls' : Submission(d) => d.key <= drawn'
    BY <1>2, <1>5, <1>6, <1>12
  <2>2. \A j \in Attempt : placed'[j] # Nothing => j <= drawn'
    BY <1>5, <1>11, CheckoutAssumption DEF CheckoutInv, KeysFit, Attempt
  <2>3. \A d \in calls' : Submission(d) /\ d.key = k => d.contents = contents
    BY <1>2, <1>6, <1>12
  <2>4. \A d, e \in calls' :
          Submission(d) /\ Submission(e) /\ d.key = e.key => d.contents = e.contents
    BY <1>2, <1>6, <2>3 DEF CheckoutInv, KeysFit
  <2>5. OrderIsWhatWasSubmitted'
    BY <1>2, <1>6, <1>11, <1>12
    DEF CheckoutInv, KeysFit, OrderIsWhatWasSubmitted, Submission
  <2> QED
    BY <1>5, <1>7, <1>11, <1>12, <2>1, <2>2, <2>3, <2>4, <2>5 DEF KeysFit, Submission
<1>14. VisitsFit'
  <2> DEFINE new == [key |-> k, contents |-> contents, visit |-> reloads]
  <2>1. \A a \in AttemptsMade' : a \in AttemptsMade \/ a = new
    <3>1. \A d \in calls' : d \in calls \/ d = c
      BY <1>2
    <3> QED
      BY <1>6, <1>11, <3>1 DEF AttemptsMade
  <2>2. new.key = k /\ new.contents = contents /\ new.visit = reloads
    OBVIOUS
  <2> HIDE DEF new
  <2>3. /\ k \in Nat /\ k # Nothing /\ reloads \in Nat /\ k = drawn' /\ reloads' = reloads
        /\ \A a \in AttemptsMade : a.key \in Nat /\ a.visit \in Nat
    BY <1>2, <1>5, AttemptsType, CheckoutAssumption
    DEF Attempt, CheckoutInv, handleSubmit
  <2>4. \A a \in AttemptsMade :
          /\ a.key <= drawn
          /\ form.key # Nothing /\ a.key = form.key => a.contents = form.fingerprint
    BY DEF AttemptsMade, CheckoutInv, KeysFit
  <2>5. ASSUME NEW a \in AttemptsMade, a.key + 1 = k, a.visit = reloads
        PROVE  a.contents # contents
    <3>1. CASE k = form.key /\ form.key # Nothing /\ form.fingerprint = contents
      BY <2>5, <3>1 DEF CheckoutInv, VisitsFit
    <3>2. CASE k = drawn + 1 /\ (form.key = Nothing \/ form.fingerprint # contents)
      <4>1. a.key = drawn /\ form.key # Nothing
        BY <1>5, <2>3, <2>5, <3>2 DEF CheckoutInv, VisitsFit
      <4> QED
        BY <2>4, <3>2, <4>1 DEF CheckoutInv, VisitsFit
    <3> QED
      BY <1>4, <3>1, <3>2
  <2>6. \A a \in AttemptsMade' : a.visit <= reloads
    BY <2>1, <2>2, <2>3 DEF CheckoutInv, VisitsFit
  <2>7. ASSUME NEW a \in AttemptsMade', NEW b \in AttemptsMade',
               b.key = a.key + 1, a.visit = b.visit
        PROVE  a.contents # b.contents
    <3>1. CASE a \in AttemptsMade /\ b \in AttemptsMade
      BY <2>7, <3>1 DEF CheckoutInv, VisitsFit
    <3>2. CASE a \in AttemptsMade /\ b = new
      BY <2>2, <2>5, <2>7, <3>2
    <3>3. CASE a = new
      BY <1>4, <1>5, <2>1, <2>2, <2>3, <2>4, <2>7, <3>3 DEF CheckoutInv, VisitsFit
    <3> QED
      BY <2>1, <3>1, <3>2, <3>3
  <2>8. \A a \in AttemptsMade' :
          a.key + 1 = drawn' /\ a.visit = reloads' => a.contents # form'.fingerprint
    BY <1>7, <2>1, <2>2, <2>3, <2>5
  <2> QED
    BY <1>7, <2>3, <2>6, <2>7, <2>8 DEF VisitsFit
<1> QED
  BY <1>8, <1>9, <1>10, <1>13, <1>14 DEF CheckoutInv

\* An answer is to the request it answers.
LEMMA AnsweredFacts ==
  ASSUME CheckoutInv, NEW c \in calls, c.what = "submit",
         NEW result \in {"url", "alreadyPaid", "error"}, Answered(c, result)
  PROVE  /\ c \in SubmitCall
         /\ calls' \subseteq Call
         /\ \A d \in calls' : d.what = "offices" => d \in calls
         /\ \A d \in calls' : Submission(d) =>
              \E e \in calls : Submission(e) /\ Same(d, e)
<1> DEFINE a == [what |-> "answer", key |-> c.key, contents |-> c.contents,
                 visit |-> c.visit, result |-> result, live |-> c.live]
<1>1. c \in SubmitCall
  BY FormType DEF Call, DeliveryCall, SubmitCall, AnswerCall
<1>2. calls' = (calls \ {c}) \cup {a}
  BY DEF Answered
<1>3. a \in AnswerCall /\ a.what = "answer" /\ Same(a, c)
  BY <1>1 DEF SubmitCall, AnswerCall, Same
<1> HIDE DEF a
<1> QED
  BY <1>1, <1>2, <1>3, FormType DEF Call, Submission, Same

LEMMA RefuseOrderInv ==
  ASSUME CheckoutInv, NEW c \in calls, RefuseOrder(c)
  PROVE  CheckoutInv'
<1>1. /\ calls' \subseteq Call
      /\ \A d \in calls' : d.what = "offices" => d \in calls
      /\ \A d \in calls' : Submission(d) =>
           \E e \in calls : Submission(e) /\ Same(d, e)
  BY AnsweredFacts DEF RefuseOrder
<1>2. CheckoutTypeOK'
  BY <1>1 DEF RefuseOrder, CheckoutInv, CheckoutTypeOK, Call, Session, Backend
<1>3. OffersFit'
  BY <1>1, OffersFrame DEF RefuseOrder
<1>4. SubmissionsFit' /\ KeysFit' /\ VisitsFit'
  BY <1>1, <1>2, KeysFrame DEF RefuseOrder, Session, Backend
<1> QED
  BY <1>2, <1>3, <1>4 DEF CheckoutInv

\* The order of a key is stored with the contents that every request with that
\* key has.
LEMMA CreateOrderInv ==
  ASSUME CheckoutInv, NEW c \in calls, NEW fails \in BOOLEAN, CreateOrder(c, fails)
  PROVE  CheckoutInv'
<1> DEFINE o == [contents |-> c.contents, visit |-> c.visit]
<1>1. PICK result \in {"url", "alreadyPaid", "error"} : Answered(c, result)
  BY DEF CreateOrder
<1>2. /\ c \in SubmitCall /\ Submission(c)
      /\ calls' \subseteq Call
      /\ \A d \in calls' : d.what = "offices" => d \in calls
      /\ \A d \in calls' : Submission(d) =>
           \E e \in calls : Submission(e) /\ Same(d, e)
  BY <1>1, AnsweredFacts DEF CreateOrder, Submission
<1>3. c.key \in Attempt /\ c.contents \in Contents /\ c.visit \in 0 .. MaxReloads
  BY <1>2 DEF SubmitCall
<1>4. o \in StoredOrder /\ o.contents = c.contents /\ o.visit = c.visit
  BY <1>3 DEF StoredOrder
<1>5. placed' = IF placed[c.key] # Nothing THEN placed ELSE [placed EXCEPT ![c.key] = o]
  BY DEF CreateOrder
<1> HIDE DEF o
<1>6. placed \in [Attempt -> StoredOrder \cup {Nothing}]
  BY DEF CheckoutInv, CheckoutTypeOK
<1>7. \A k \in Attempt :
        \/ placed'[k] = placed[k]
        \/ k = c.key /\ placed[k] = Nothing /\ placed'[k] = o
  BY <1>3, <1>5, <1>6
<1>8. CheckoutTypeOK'
  BY <1>2, <1>3, <1>4, <1>5 DEF CreateOrder, CheckoutInv, CheckoutTypeOK, Call, Session
<1>9. OffersFit'
  BY <1>2, OffersFrame DEF CreateOrder
<1>10. SubmissionsFit'
  BY <1>2, <1>4, <1>7 DEF CheckoutInv, SubmissionsFit, OfficeTakesTheParcels, Submission, Same
<1>11. KeysFit'
  <2>1. UNCHANGED <<form, drawn>>
    BY DEF CreateOrder, Session
  <2>2. /\ \A d \in calls' : Submission(d) => d.key <= drawn'
        /\ \A d, e \in calls' :
             Submission(d) /\ Submission(e) /\ d.key = e.key => d.contents = e.contents
    BY <1>2, <2>1 DEF CheckoutInv, KeysFit, Same
  <2>3. form'.key # Nothing =>
          /\ form'.key <= drawn'
          /\ \A d \in calls' : Submission(d) /\ d.key = form'.key =>
               d.contents = form'.fingerprint
    BY <1>2, <2>1 DEF CheckoutInv, KeysFit, Same
  <2>4. form'.key # Nothing /\ placed'[form'.key] # Nothing =>
          placed'[form'.key].contents = form'.fingerprint
    <3>1. form.key # Nothing => form.key \in Attempt
      BY FormType DEF Form
    <3> QED
      BY <1>2, <1>4, <1>7, <2>1, <3>1 DEF CheckoutInv, KeysFit
  <2>5. \A k \in Attempt : placed'[k] # Nothing => k <= drawn'
    BY <1>2, <1>7, <2>1 DEF CheckoutInv, KeysFit
  <2>6. OrderIsWhatWasSubmitted'
    <3> SUFFICES ASSUME NEW d \in calls', Submission(d), placed'[d.key] # Nothing
                 PROVE  placed'[d.key].contents = d.contents
      BY DEF OrderIsWhatWasSubmitted, Submission
    <3>1. PICK e \in calls : Submission(e) /\ Same(d, e)
      BY <1>2
    <3>2. e.key \in Attempt
      BY <3>1, FormType DEF Call, DeliveryCall, SubmitCall, AnswerCall, Submission
    <3>3. CASE placed'[e.key] = placed[e.key]
      BY <3>1, <3>3 DEF CheckoutInv, KeysFit, OrderIsWhatWasSubmitted, Submission, Same
    <3>4. CASE e.key = c.key /\ placed'[e.key] = o
      BY <1>2, <1>4, <3>1, <3>4 DEF CheckoutInv, KeysFit, Same
    <3> QED
      BY <1>7, <3>1, <3>2, <3>3, <3>4 DEF Same
  <2> QED
    BY <2>2, <2>3, <2>4, <2>5, <2>6 DEF KeysFit, Submission
<1>12. VisitsFit'
  <2>1. ASSUME NEW a \in AttemptsMade' PROVE a \in AttemptsMade
    <3>1. CASE \E d \in calls' :
                 /\ Submission(d)
                 /\ a = [key |-> d.key, contents |-> d.contents, visit |-> d.visit]
      BY <1>2, <3>1 DEF AttemptsMade, Same
    <3>2. CASE \E k \in Attempt :
                 /\ placed'[k] # Nothing
                 /\ a = [key |-> k, contents |-> placed'[k].contents,
                         visit |-> placed'[k].visit]
      BY <1>2, <1>4, <1>7, <3>2 DEF AttemptsMade
    <3> QED
      BY <3>1, <3>2 DEF AttemptsMade
  <2> QED
    BY <2>1, VisitsFrame DEF CreateOrder, Session
<1> QED
  BY <1>8, <1>9, <1>10, <1>11, <1>12 DEF CheckoutInv

\* Requests that end and pages that come and go send nothing and choose nothing.
LEMMA PageChanges ==
  ASSUME CheckoutInv, CheckoutTypeOK', UNCHANGED <<cart, drawn, placed>>,
         \/ UNCHANGED <<shown, form, widget, reloads>> /\ calls' \subseteq calls
         \/ /\ form' = NoForm /\ widget' = NoWidget /\ calls' = {}
            /\ reloads' = reloads + 1
  PROVE  CheckoutInv'
<1>1. CASE UNCHANGED <<shown, form, widget, reloads>> /\ calls' \subseteq calls
  <2>1. OffersFit'
    BY <1>1, OffersFrame
  <2>2. \A d \in calls' : Submission(d) => \E c \in calls : Submission(c) /\ Same(d, c)
    BY <1>1 DEF Same
  <2> QED
    BY <1>1, <2>1, <2>2, KeysFrame DEF CheckoutInv
<1>2. CASE /\ form' = NoForm /\ widget' = NoWidget /\ calls' = {}
           /\ reloads' = reloads + 1
  <2>1. OffersFit'
    BY <1>2, OffersDropped DEF NoForm, NoWidget
  <2>2. form'.key = Nothing
    BY <1>2 DEF NoForm
  <2> QED
    BY <1>2, <2>1, <2>2, KeysFrame DEF CheckoutInv
<1> QED
  BY <1>1, <1>2

LEMMA OrderAnsweredInv ==
  ASSUME CheckoutInv, NEW c \in calls, OrderAnswered(c)
  PROVE  CheckoutInv'
<1>1. c.key \in Attempt
  BY FormType DEF OrderAnswered, Call, DeliveryCall, SubmitCall, AnswerCall
<1>2. CheckoutTypeOK'
  BY <1>1 DEF OrderAnswered, CheckoutInv, CheckoutTypeOK, Backend
<1> QED
  BY <1>2, PageChanges DEF OrderAnswered, Backend

LEMMA SubmitLostInv ==
  ASSUME CheckoutInv, NEW c \in calls, SubmitLost(c)
  PROVE  CheckoutInv'
<1>1. CheckoutTypeOK'
  BY DEF SubmitLost, CheckoutInv, CheckoutTypeOK, Session, Backend
<1> QED
  BY <1>1, PageChanges DEF SubmitLost, Session, Backend

LEMMA SubmitTimerInv == ASSUME CheckoutInv, SubmitTimer PROVE CheckoutInv'
<1>1. CheckoutTypeOK'
  BY DEF SubmitTimer, CheckoutInv, CheckoutTypeOK, Session, Backend
<1> QED
  BY <1>1, PageChanges DEF SubmitTimer, Session, Backend

-------------------------------------------------------------------------------
\* The page

LEMMA LoadPageInv ==
  ASSUME CheckoutInv, NEW k \in Attempt \cup {Nothing}, LoadPage(k)
  PROVE  CheckoutInv'
<1>1. /\ form' = NoForm /\ widget' = NoWidget /\ calls' = {} /\ page' = 0 /\ shown' = {}
      /\ busy' = "no" /\ reloads' = reloads + 1 /\ UNCHANGED <<cart, drawn, placed, paid>>
  BY DEF LoadPage, Backend
<1>2. NoForm \in Form /\ NoWidget \in [cities : SUBSET City, offices : SUBSET Office]
  BY DEF NoForm, Form, NoWidget
<1>3. polling' \in [key : Attempt, left : 1 .. PollAttempts] \cup {Nothing}
  BY CheckoutAssumption DEF LoadPage
<1>4. reloads' \in 0 .. MaxReloads
  BY CheckoutAssumption DEF LoadPage, CheckoutInv, CheckoutTypeOK
<1>5. CheckoutTypeOK'
  BY <1>1, <1>2, <1>3, <1>4 DEF CheckoutInv, CheckoutTypeOK, Form
<1> QED
  BY <1>1, <1>5, PageChanges

LEMMA BackToShopInv == ASSUME CheckoutInv, BackToShop PROVE CheckoutInv'
<1>1. CheckoutTypeOK'
  BY DEF BackToShop, CheckoutInv, CheckoutTypeOK, Backend
<1> QED
  BY <1>1, PageChanges DEF BackToShop, Backend

LEMMA CustomerPaysOrderInv ==
  ASSUME CheckoutInv, NEW k \in Attempt, CustomerPaysOrder(k)
  PROVE  CheckoutInv'
<1>1. CheckoutTypeOK'
  BY DEF CustomerPaysOrder, CheckoutInv, CheckoutTypeOK, Session
<1> QED
  BY <1>1, PageChanges DEF CustomerPaysOrder, Session

LEMMA PollUnpaidInv == ASSUME CheckoutInv, PollUnpaid PROVE CheckoutInv'
<1>1. polling \in [key : Attempt, left : 1 .. PollAttempts]
  BY DEF PollUnpaid, CheckoutInv, CheckoutTypeOK
<1>2. polling' \in [key : Attempt, left : 1 .. PollAttempts] \cup {Nothing}
  BY <1>1, CheckoutAssumption DEF PollUnpaid
<1>3. CheckoutTypeOK'
  BY <1>2 DEF PollUnpaid, CheckoutInv, CheckoutTypeOK, Session, Backend
<1> QED
  BY <1>3, PageChanges DEF PollUnpaid, Session, Backend

LEMMA PollStopsInv == ASSUME CheckoutInv, PollStops PROVE CheckoutInv'
<1>1. CheckoutTypeOK'
  BY DEF PollStops, CheckoutInv, CheckoutTypeOK, Session, Backend
<1> QED
  BY <1>1, PageChanges DEF PollStops, Session, Backend

\* The new layer lists nothing; the office that is chosen stays, and fits.
LEMMA ReopenCheckoutInv == ASSUME CheckoutInv, ReopenCheckout PROVE CheckoutInv'
<1> DEFINE kinds == DeliveryKinds \cup {"submit", "answer"}
<1>1. CheckoutTypeOK /\ "price" \notin kinds /\ "offices" \in kinds
  BY DEF CheckoutInv, DeliveryKinds
<1>2. calls' = Orphan(kinds) /\ widget' = NoWidget
  BY DEF ReopenCheckout
<1> HIDE DEF kinds
<1>3. /\ calls' \subseteq Call
      /\ \A d \in calls' : ~(d.what = "offices" /\ d.live)
      /\ \A d \in calls' : Submission(d) =>
           \E c \in calls : Submission(c) /\ Same(d, c)
  BY <1>1, <1>2, OrphanFacts DEF Submission
<1>4. /\ UNCHANGED <<cart, shown, form, page, drawn, reloads, placed, paid>>
      /\ busy' = "no" /\ polling' = Nothing
  BY DEF ReopenCheckout, Session, Backend
<1>5. NoWidget \in [cities : SUBSET City, offices : SUBSET Office] /\ NoWidget.offices = {}
  BY DEF NoWidget
<1>6. CheckoutTypeOK'
  BY <1>2, <1>3, <1>4, <1>5 DEF CheckoutInv, CheckoutTypeOK, Call
<1>7. OffersFit'
  <2>1. \A d \in calls' : d.what = "offices" /\ d.live => d \in calls
    BY <1>3, Zenon
  <2>2. form'.office \in {form.office, Nothing} /\ widget'.offices \subseteq widget.offices
    BY <1>2, <1>4, <1>5
  <2> QED
    BY <1>4, <2>1, <2>2, OffersFrame
<1>8. SubmissionsFit' /\ KeysFit' /\ VisitsFit'
  BY <1>3, <1>4, <1>6, KeysFrame
<1> QED
  BY <1>6, <1>7, <1>8 DEF CheckoutInv

-------------------------------------------------------------------------------
\* The specification

LEMMA CheckoutStep == CheckoutInv /\ [CheckoutNext]_checkoutVars => CheckoutInv'
<1> SUFFICES ASSUME CheckoutInv, [CheckoutNext]_checkoutVars PROVE CheckoutInv'
  OBVIOUS
<1>1. CASE UNCHANGED checkoutVars
  <2>1. CheckoutTypeOK'
    BY <1>1 DEF checkoutVars, CheckoutInv, CheckoutTypeOK
  <2> QED
    BY <1>1, <2>1, PageChanges DEF checkoutVars
<1>2. ASSUME NEW i \in Item, addItem(i) \/ decreaseItem(i) PROVE CheckoutInv'
  BY <1>2, AddItemInv, DecreaseItemInv
<1>3. ASSUME NEW available \in SUBSET Item, removeUnavailableItems(available)
      PROVE  CheckoutInv'
  BY <1>3, RemoveUnavailableItemsInv
<1>4. ASSUME NEW c \in Customer \cup {Nothing}, EditCustomer(c) PROVE CheckoutInv'
  BY <1>4, EditCustomerInv
<1>5. CASE TypeCity \/ TypeShortCity \/ TypeOffice
  BY <1>5, TypeCityInv, TypeShortCityInv, TypeOfficeInv
<1>6. ASSUME NEW city \in City, ClickCity(city) PROVE CheckoutInv'
  BY <1>6, ClickCityInv
<1>7. ASSUME NEW o \in widget.offices, ClickOffice(o) PROVE CheckoutInv'
  BY <1>7, ClickOfficeInv
<1>8. ASSUME NEW c \in calls,
             \/ \E found \in citiesFound : CitiesAnswered(c, found)
             \/ c.what = "offices" /\ \E found \in officesFound(c.for) :
                                        OfficesAnswered(c, found)
             \/ c.what = "price" /\ \E price \in priceFound(c.for) : PriceAnswered(c, price)
             \/ \E fails \in BOOLEAN : CreateOrder(c, fails)
             \/ RefuseOrder(c) \/ OrderAnswered(c) \/ SubmitLost(c)
      PROVE  CheckoutInv'
  BY <1>8, CitiesAnsweredInv, OfficesAnsweredInv, PriceAnsweredInv, CreateOrderInv,
     RefuseOrderInv, OrderAnsweredInv, SubmitLostInv
<1>9. CASE handleSubmit \/ SubmitTimer
  BY <1>9, HandleSubmitInv, SubmitTimerInv
<1>10. ASSUME NEW k \in Attempt, OpenReturnUrl(k) \/ CustomerPaysOrder(k)
       PROVE  CheckoutInv'
  BY <1>10, LoadPageInv, CustomerPaysOrderInv DEF OpenReturnUrl
<1>11. CASE Reload \/ BackToShop
  BY <1>11, LoadPageInv, BackToShopInv DEF Reload
<1>12. CASE PollPaid \/ PollUnpaid \/ PollStops \/ ReopenCheckout
  BY <1>12, PollPaidInv, PollUnpaidInv, PollStopsInv, ReopenCheckoutInv
<1> QED
  BY <1>1, <1>2, <1>3, <1>4, <1>5, <1>6, <1>7, <1>8, <1>9, <1>10, <1>11, <1>12
  DEF CheckoutNext

\* The state of the tab and the orders it placed agree, in every reachable state:
\* their types, the offers and the cart, the keys and the contents.
THEOREM CheckoutInvariance == CheckoutSpec => []CheckoutInv
  BY CheckoutInitInv, CheckoutStep, PTL DEF CheckoutSpec

\* Every part of that state has its type.
THEOREM CheckoutTypeCorrect == CheckoutSpec => []CheckoutTypeOK
<1>1. CheckoutInv => CheckoutTypeOK
  BY DEF CheckoutInv
<1> QED
  BY <1>1, CheckoutInvariance, PTL

\* An order names a pickup point that was offered for the order's own items.
THEOREM OfficeTheorem == CheckoutSpec => []OfficeTakesTheParcels
<1>1. CheckoutInv => OfficeTakesTheParcels
  BY DEF CheckoutInv, SubmissionsFit
<1> QED
  BY <1>1, CheckoutInvariance, PTL

\* A submission is answered with an order for what was submitted.
THEOREM OrderIsWhatWasSubmittedTheorem == CheckoutSpec => []OrderIsWhatWasSubmitted
<1>1. CheckoutInv => OrderIsWhatWasSubmitted
  BY DEF CheckoutInv, KeysFit
<1> QED
  BY <1>1, CheckoutInvariance, PTL

\* A form submitted twice as it was becomes one order.
THEOREM SubmittedOnceTheorem == CheckoutSpec => []SubmittedOnce
<1>1. CheckoutInv => SubmittedOnce
  <2> SUFFICES ASSUME CheckoutInv, NEW k \in Attempt, NEW m \in Attempt, m = k + 1,
                      placed[k] # Nothing, placed[m] # Nothing,
                      placed[k].visit = placed[m].visit
               PROVE  placed[k].contents # placed[m].contents
    BY DEF SubmittedOnce
  <2> DEFINE made(j) == [key |-> j, contents |-> placed[j].contents, visit |-> placed[j].visit]
  <2>1. made(k) \in AttemptsMade /\ made(m) \in AttemptsMade
    BY DEF AttemptsMade
  <2>2. made(m).key = made(k).key + 1 /\ made(k).visit = made(m).visit
    OBVIOUS
  <2>3. made(k).contents # made(m).contents
    BY <2>1, <2>2 DEF CheckoutInv, VisitsFit
  <2> QED
    BY <2>3
<1> QED
  BY <1>1, CheckoutInvariance, PTL
===============================================================================
