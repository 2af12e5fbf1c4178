---------------------------- MODULE RetentionProofs ----------------------------
(***************************************************************************)
(* Proofs about Retention, for any set of orders.                          *)
(*                                                                         *)
(* RetentionInv is inductive.  A payment that the command does not ask     *)
(* about is dead by its row (DeadRows); what was read of an order still    *)
(* says so as long as nobody touched the order (ReadRows), since only a    *)
(* checkout brings a payable payment; and an answer that says canceled is  *)
(* final (OrderInHand).                                                    *)
(***************************************************************************)
EXTENDS Retention, TLAPS

LEMMA RetentionInitInv == RetentionInit => RetentionInv
  BY DEF RetentionInit, RetentionInv, RetentionTypeOK, DeadRows, ReadRows, OrderInHand,
         NothingPaidIsDeleted, NotAsked, Payable, Cleanup, NoCleanup, NoPaymentRow,
         OrderRow, PaymentRow, PaymentStatus, ProviderStatus

\* The columns of an order that are written together keep its type.
LEMMA OrderRowUpdates ==
  ASSUME RetentionTypeOK, NEW o \in OrderId,
         NEW s \in {"absent", "PENDING_PAYMENT", "PAID", "SHIPPED", "CANCELLED", "deleted"},
         NEW c \in {"no", "recently", "long ago"}
  PROVE  /\ [row EXCEPT ![o].status = s] \in [OrderId -> OrderRow]
         /\ [row EXCEPT ![o].status = s, ![o].completed = c] \in [OrderId -> OrderRow]
         /\ [row EXCEPT ![o].old = TRUE, ![o].completed = c] \in [OrderId -> OrderRow]
<1> DEFINE r == row[o]
<1>1. r \in OrderRow /\ row \in [OrderId -> OrderRow]
  BY DEF RetentionTypeOK
<1> HIDE DEF r
<1>2. [r EXCEPT !.status = s] \in OrderRow
  BY <1>1 DEF OrderRow
<1>3. [r EXCEPT !.status = s, !.completed = c] \in OrderRow
  BY <1>1 DEF OrderRow
<1>4. [r EXCEPT !.old = TRUE, !.completed = c] \in OrderRow
  BY <1>1 DEF OrderRow
<1>5. \A x \in OrderRow : [row EXCEPT ![o] = x] \in [OrderId -> OrderRow]
  BY <1>1
<1>6. [row EXCEPT ![o].status = s] = [row EXCEPT ![o] = [r EXCEPT !.status = s]]
  BY DEF r
<1>7. [row EXCEPT ![o].status = s, ![o].completed = c] =
        [row EXCEPT ![o] = [r EXCEPT !.status = s, !.completed = c]]
  BY DEF r, RetentionTypeOK, OrderRow
<1>8. [row EXCEPT ![o].old = TRUE, ![o].completed = c] =
        [row EXCEPT ![o] = [r EXCEPT !.old = TRUE, !.completed = c]]
  BY DEF r, RetentionTypeOK, OrderRow
<1> QED
  BY <1>2, <1>3, <1>4, <1>5, <1>6, <1>7, <1>8

\* So do those of a payment.
LEMMA PaymentRowUpdates ==
  ASSUME RetentionTypeOK, NEW o \in OrderId, NEW s \in PaymentStatus, NEW b \in BOOLEAN
  PROVE  /\ [current EXCEPT ![o].old = b] \in [OrderId -> PaymentRow]
         /\ [current EXCEPT ![o].status = s, ![o].registered = TRUE]
              \in [OrderId -> PaymentRow]
         /\ [current EXCEPT ![o].status = s, ![o].registered = TRUE, ![o].url = FALSE]
              \in [OrderId -> PaymentRow]
         /\ \A r \in PaymentRow : [current EXCEPT ![o] = r] \in [OrderId -> PaymentRow]
         /\ [NoPaymentRow EXCEPT !.status = s] \in PaymentRow
<1> DEFINE r == current[o]
<1>1. r \in PaymentRow /\ current \in [OrderId -> PaymentRow]
  BY DEF RetentionTypeOK
<1> HIDE DEF r
<1>2. [r EXCEPT !.old = b] \in PaymentRow
  BY <1>1 DEF PaymentRow
<1>3. [r EXCEPT !.status = s, !.registered = TRUE] \in PaymentRow
  BY <1>1 DEF PaymentRow
<1>4. [r EXCEPT !.status = s, !.registered = TRUE, !.url = FALSE] \in PaymentRow
  BY <1>1 DEF PaymentRow
<1>5. \A x \in PaymentRow : [current EXCEPT ![o] = x] \in [OrderId -> PaymentRow]
  BY <1>1
<1>6. [current EXCEPT ![o].old = b] = [current EXCEPT ![o] = [r EXCEPT !.old = b]]
  BY DEF r
<1>7. [current EXCEPT ![o].status = s, ![o].registered = TRUE] =
        [current EXCEPT ![o] = [r EXCEPT !.status = s, !.registered = TRUE]]
  BY DEF r, RetentionTypeOK, PaymentRow
<1>8. [current EXCEPT ![o].status = s, ![o].registered = TRUE, ![o].url = FALSE] =
        [current EXCEPT ![o] = [r EXCEPT !.status = s, !.registered = TRUE, !.url = FALSE]]
  BY DEF r, RetentionTypeOK, PaymentRow
<1>9. [NoPaymentRow EXCEPT !.status = s] \in PaymentRow
  BY DEF NoPaymentRow, PaymentRow
<1> QED
  BY <1>2, <1>3, <1>4, <1>5, <1>6, <1>7, <1>8, <1>9

\* What an action other than those of the command does to RetentionInv: it may
\* make a payment payable only where it touches the order or where the payment
\* was payable before.
LEMMA ShopStepInv ==
  ASSUME RetentionInv, RetentionTypeOK', DeadRows', UNCHANGED cleanup,
         touched \subseteq touched',
         \A o \in OrderId \ touched' :
           /\ Payable(o)' => Payable(o)
           /\ row'[o].status = "deleted" => row[o].status = "deleted"
  PROVE  RetentionInv'
<1>1. ReadRows'
  BY DEF RetentionInv, RetentionTypeOK, ReadRows, Cleanup
<1>2. OrderInHand'
  BY DEF RetentionInv, RetentionTypeOK, OrderInHand, Cleanup
<1>3. NothingPaidIsDeleted'
  BY DEF RetentionInv, NothingPaidIsDeleted
<1> QED
  BY <1>1, <1>2, <1>3 DEF RetentionInv

\* A checkout that reuses a payment leaves it.
LEMMA CheckoutReusesInv ==
  ASSUME RetentionInv, NEW o \in OrderId, CheckoutReuses(o)
  PROVE  RetentionInv'
<1>1. RetentionTypeOK'
  <2>1. row' \in [OrderId -> OrderRow]
    BY OrderRowUpdates DEF RetentionInv, RetentionTypeOK, CheckoutReuses, CheckedOut,
                           Exists
  <2>2. current' \in [OrderId -> PaymentRow]
    BY PaymentRowUpdates DEF RetentionInv, RetentionTypeOK, CheckoutReuses
  <2>3. charge' \in [OrderId -> ProviderStatus \cup {"absent"}]
    BY DEF RetentionInv, RetentionTypeOK, CheckoutReuses, ProviderStatus
  <2>4. linked' \subseteq OrderId /\ touched' \subseteq OrderId /\ cleanup' \in Cleanup
    BY DEF RetentionInv, RetentionTypeOK, CheckoutReuses, CheckedOut
  <2> QED
    BY <2>1, <2>2, <2>3, <2>4 DEF RetentionTypeOK
<1>2. DeadRows'
  BY DEF RetentionInv, RetentionTypeOK, DeadRows, NotAsked, Payable, CheckoutReuses,
         CheckedOut, Exists,
         PaymentRow, ProviderStatus
<1>3. \A p \in OrderId \ touched' :
        /\ Payable(p)' => Payable(p)
        /\ row'[p].status = "deleted" => row[p].status = "deleted"
  BY DEF RetentionInv, RetentionTypeOK, Payable, CheckoutReuses, CheckedOut, Exists,
         OrderRow, PaymentRow
<1>4. touched \subseteq touched' /\ UNCHANGED cleanup
  BY DEF CheckoutReuses, CheckedOut
<1> QED
  BY <1>1, <1>2, <1>3, <1>4, ShopStepInv

\* The restored payment is PENDING or SUCCEEDED, and its order touched.
LEMMA CheckoutRestoresInv ==
  ASSUME RetentionInv, NEW o \in OrderId, CheckoutRestores(o)
  PROVE  RetentionInv'
<1>1. RetentionTypeOK'
  <2>1. row' \in [OrderId -> OrderRow]
    BY OrderRowUpdates DEF RetentionInv, RetentionTypeOK, CheckoutRestores, CheckedOut,
                           Exists
  <2>2. current' \in [OrderId -> PaymentRow]
    <3>1. CASE charge[o] = "succeeded"
      <4>1. "SUCCEEDED" \in PaymentStatus
        BY DEF PaymentStatus
      <4>2. [current EXCEPT ![o].status = "SUCCEEDED", ![o].registered = TRUE]
              \in [OrderId -> PaymentRow]
        BY <4>1, TRUE \in BOOLEAN, PaymentRowUpdates DEF RetentionInv
      <4>3. current' = [current EXCEPT ![o].status = "SUCCEEDED", ![o].registered = TRUE]
        BY <3>1 DEF CheckoutRestores
      <4> QED
        BY <4>2, <4>3
    <3>2. CASE charge[o] # "succeeded"
      <4>1. current[o].old \in BOOLEAN
        BY DEF RetentionInv, RetentionTypeOK, PaymentRow
      <4>2. OpenRow(current[o].old) \in PaymentRow /\ "PENDING" \in PaymentStatus
        BY <4>1 DEF OpenRow, PaymentRow, PaymentStatus
      <4> QED
        BY <3>2, <4>2, PaymentRowUpdates DEF RetentionInv, CheckoutRestores
    <3> QED
      BY <3>1, <3>2
  <2>3. charge' \in [OrderId -> ProviderStatus \cup {"absent"}]
    BY DEF RetentionInv, RetentionTypeOK, CheckoutRestores, ProviderStatus
  <2>4. linked' \subseteq OrderId /\ touched' \subseteq OrderId /\ cleanup' \in Cleanup
    BY DEF RetentionInv, RetentionTypeOK, CheckoutRestores, CheckedOut
  <2> QED
    BY <2>1, <2>2, <2>3, <2>4 DEF RetentionTypeOK
<1>2. DeadRows'
  BY DEF RetentionInv, RetentionTypeOK, DeadRows, NotAsked, Payable, CheckoutRestores,
         CheckedOut, Exists, OpenRow,
         PaymentRow, ProviderStatus
<1>3. \A p \in OrderId \ touched' :
        /\ Payable(p)' => Payable(p)
        /\ row'[p].status = "deleted" => row[p].status = "deleted"
  BY DEF RetentionInv, RetentionTypeOK, Payable, CheckoutRestores, CheckedOut, Exists,
         OpenRow, OrderRow, PaymentRow
<1>4. touched \subseteq touched' /\ UNCHANGED cleanup
  BY DEF CheckoutRestores, CheckedOut
<1> QED
  BY <1>1, <1>2, <1>3, <1>4, ShopStepInv

\* A FAILED row is one of which nobody has a link.
LEMMA CheckoutPaysInv ==
  ASSUME RetentionInv, NEW o \in OrderId, CheckoutPays(o)
  PROVE  RetentionInv'
<1>1. RetentionTypeOK'
  <2>1. row' \in [OrderId -> OrderRow]
    BY OrderRowUpdates DEF RetentionInv, RetentionTypeOK, CheckoutPays, CheckedOut,
                           Exists
  <2>2. current' \in [OrderId -> PaymentRow]
    <3>1. \E r \in PaymentRow : current' = [current EXCEPT ![o] = r]
      <4>1. OpenRow(FALSE) \in PaymentRow
        BY DEF OpenRow, PaymentRow, PaymentStatus
      <4>2. \A status \in {"PENDING", "PROVIDER_UNKNOWN", "FAILED"} :
              [NoPaymentRow EXCEPT !.status = status] \in PaymentRow
        BY DEF NoPaymentRow, PaymentRow, PaymentStatus
      <4> QED
        BY <4>1, <4>2 DEF CheckoutPays
    <3> QED
      BY <3>1 DEF RetentionInv, RetentionTypeOK
  <2>3. charge' \in [OrderId -> ProviderStatus \cup {"absent"}]
    BY DEF RetentionInv, RetentionTypeOK, CheckoutPays, ProviderStatus
  <2>4. linked' \subseteq OrderId /\ touched' \subseteq OrderId /\ cleanup' \in Cleanup
    BY DEF RetentionInv, RetentionTypeOK, CheckoutPays, CheckedOut
  <2> QED
    BY <2>1, <2>2, <2>3, <2>4 DEF RetentionTypeOK
<1>2. DeadRows'
  BY DEF RetentionInv, RetentionTypeOK, DeadRows, NotAsked, Payable, CheckoutPays,
         CheckedOut, Exists, OpenRow, NoPaymentRow,
         PaymentRow, ProviderStatus
<1>3. \A p \in OrderId \ touched' :
        /\ Payable(p)' => Payable(p)
        /\ row'[p].status = "deleted" => row[p].status = "deleted"
  BY DEF RetentionInv, RetentionTypeOK, Payable, CheckoutPays, CheckedOut, Exists,
         OpenRow, NoPaymentRow, OrderRow, PaymentRow
<1>4. touched \subseteq touched' /\ UNCHANGED cleanup
  BY DEF CheckoutPays, CheckedOut
<1> QED
  BY <1>1, <1>2, <1>3, <1>4, ShopStepInv

\* Who pays could pay.
LEMMA CustomerPaysLinkInv ==
  ASSUME RetentionInv, NEW o \in OrderId, CustomerPaysLink(o)
  PROVE  RetentionInv'
<1>1. RetentionTypeOK'
  <2>1. row' \in [OrderId -> OrderRow]
    BY OrderRowUpdates DEF RetentionInv, RetentionTypeOK, CustomerPaysLink
  <2>2. current' \in [OrderId -> PaymentRow]
    BY PaymentRowUpdates DEF RetentionInv, RetentionTypeOK, CustomerPaysLink
  <2>3. charge' \in [OrderId -> ProviderStatus \cup {"absent"}]
    BY DEF RetentionInv, RetentionTypeOK, CustomerPaysLink, ProviderStatus
  <2>4. linked' \subseteq OrderId /\ touched' \subseteq OrderId /\ cleanup' \in Cleanup
    BY DEF RetentionInv, RetentionTypeOK, CustomerPaysLink
  <2> QED
    BY <2>1, <2>2, <2>3, <2>4 DEF RetentionTypeOK
<1>2. DeadRows'
  BY DEF RetentionInv, RetentionTypeOK, DeadRows, NotAsked, Payable, CustomerPaysLink,
         PaymentRow, ProviderStatus
<1>3. \A p \in OrderId \ touched' :
        /\ Payable(p)' => Payable(p)
        /\ row'[p].status = "deleted" => row[p].status = "deleted"
  BY DEF RetentionInv, RetentionTypeOK, Payable, CustomerPaysLink, OrderRow, PaymentRow
<1>4. touched \subseteq touched' /\ UNCHANGED cleanup
  BY DEF CustomerPaysLink
<1> QED
  BY <1>1, <1>2, <1>3, <1>4, ShopStepInv

\* An expired payment is payable no more.
LEMMA PaymentExpiresInv ==
  ASSUME RetentionInv, NEW o \in OrderId, PaymentExpires(o)
  PROVE  RetentionInv'
<1>1. RetentionTypeOK'
  <2>1. row' \in [OrderId -> OrderRow]
    BY OrderRowUpdates DEF RetentionInv, RetentionTypeOK, PaymentExpires
  <2>2. current' \in [OrderId -> PaymentRow]
    BY PaymentRowUpdates DEF RetentionInv, RetentionTypeOK, PaymentExpires
  <2>3. charge' \in [OrderId -> ProviderStatus \cup {"absent"}]
    BY DEF RetentionInv, RetentionTypeOK, PaymentExpires, ProviderStatus
  <2>4. linked' \subseteq OrderId /\ touched' \subseteq OrderId /\ cleanup' \in Cleanup
    BY DEF RetentionInv, RetentionTypeOK, PaymentExpires
  <2> QED
    BY <2>1, <2>2, <2>3, <2>4 DEF RetentionTypeOK
<1>2. DeadRows'
  BY DEF RetentionInv, RetentionTypeOK, DeadRows, NotAsked, Payable, PaymentExpires,
         PaymentRow, ProviderStatus
<1>3. \A p \in OrderId \ touched' :
        /\ Payable(p)' => Payable(p)
        /\ row'[p].status = "deleted" => row[p].status = "deleted"
  BY DEF RetentionInv, RetentionTypeOK, Payable, PaymentExpires, OrderRow, PaymentRow
<1>4. touched \subseteq touched' /\ UNCHANGED cleanup
  BY DEF PaymentExpires
<1> QED
  BY <1>1, <1>2, <1>3, <1>4, ShopStepInv

\* A row becomes CANCELED only by a canceled payment.
LEMMA OutcomeArrivesInv ==
  ASSUME RetentionInv, NEW o \in OrderId, NEW webhook \in BOOLEAN, OutcomeArrives(o, webhook)
  PROVE  RetentionInv'
<1>1. RetentionTypeOK'
  <2>1. row' \in [OrderId -> OrderRow]
    BY OrderRowUpdates DEF RetentionInv, RetentionTypeOK, OutcomeArrives, Exists,
                           OrderRow
  <2>2. current' \in [OrderId -> PaymentRow]
    BY PaymentRowUpdates DEF RetentionInv, RetentionTypeOK, OutcomeArrives,
                             mapYooKassaStatus, PaymentStatus
  <2>3. charge' \in [OrderId -> ProviderStatus \cup {"absent"}]
    BY DEF RetentionInv, RetentionTypeOK, OutcomeArrives, ProviderStatus
  <2>4. linked' \subseteq OrderId /\ touched' \subseteq OrderId /\ cleanup' \in Cleanup
    BY DEF RetentionInv, RetentionTypeOK, OutcomeArrives
  <2> QED
    BY <2>1, <2>2, <2>3, <2>4 DEF RetentionTypeOK
<1>2. DeadRows'
  BY DEF RetentionInv, RetentionTypeOK, DeadRows, NotAsked, Payable, OutcomeArrives,
         Exists, mapYooKassaStatus,
         PaymentRow, ProviderStatus
<1>3. \A p \in OrderId \ touched' :
        /\ Payable(p)' => Payable(p)
        /\ row'[p].status = "deleted" => row[p].status = "deleted"
  BY DEF RetentionInv, RetentionTypeOK, Payable, OutcomeArrives, Exists,
         mapYooKassaStatus, OrderRow, PaymentRow
<1>4. touched \subseteq touched' /\ UNCHANGED cleanup
  BY DEF OutcomeArrives
<1> QED
  BY <1>1, <1>2, <1>3, <1>4, ShopStepInv

\* The admin's change touches no payment.
LEMMA AdminSetsInv ==
  ASSUME RetentionInv, NEW o \in OrderId, NEW status \in {"SHIPPED", "CANCELLED"},
         AdminSets(o, status)
  PROVE  RetentionInv'
<1>1. RetentionTypeOK'
  <2>1. row' \in [OrderId -> OrderRow]
    <3>1. row[o].completed \in {"no", "recently", "long ago"}
      BY DEF RetentionInv, RetentionTypeOK, OrderRow
    <3>2. PICK c \in {"no", "recently", "long ago"} :
            row' = [row EXCEPT ![o].status = status, ![o].completed = c]
      BY <3>1 DEF AdminSets
    <3> QED
      BY <3>2, OrderRowUpdates DEF RetentionInv
  <2>2. current' \in [OrderId -> PaymentRow]
    BY PaymentRowUpdates DEF RetentionInv, RetentionTypeOK, AdminSets
  <2>3. charge' \in [OrderId -> ProviderStatus \cup {"absent"}]
    BY DEF RetentionInv, RetentionTypeOK, AdminSets, ProviderStatus
  <2>4. linked' \subseteq OrderId /\ touched' \subseteq OrderId /\ cleanup' \in Cleanup
    BY DEF RetentionInv, RetentionTypeOK, AdminSets
  <2> QED
    BY <2>1, <2>2, <2>3, <2>4 DEF RetentionTypeOK
<1>2. DeadRows'
  BY DEF RetentionInv, RetentionTypeOK, DeadRows, NotAsked, Payable, AdminSets, Exists,
         PaymentRow, ProviderStatus
<1>3. \A p \in OrderId \ touched' :
        /\ Payable(p)' => Payable(p)
        /\ row'[p].status = "deleted" => row[p].status = "deleted"
  BY DEF RetentionInv, RetentionTypeOK, Payable, AdminSets, Exists, OrderRow, PaymentRow
<1>4. touched \subseteq touched' /\ UNCHANGED cleanup
  BY DEF AdminSets
<1> QED
  BY <1>1, <1>2, <1>3, <1>4, ShopStepInv

\* Neither does time.
LEMMA DaysPassInv ==
  ASSUME RetentionInv, NEW o \in OrderId, DaysPass(o)
  PROVE  RetentionInv'
<1>1. RetentionTypeOK'
  <2>1. row' \in [OrderId -> OrderRow]
    <3>1. row[o].completed \in {"no", "recently", "long ago"}
      BY DEF RetentionInv, RetentionTypeOK, OrderRow
    <3>2. PICK c \in {"no", "recently", "long ago"} :
            row' = [row EXCEPT ![o].old = TRUE, ![o].completed = c]
      BY <3>1 DEF DaysPass
    <3> QED
      BY <3>2, OrderRowUpdates DEF RetentionInv
  <2>2. current' \in [OrderId -> PaymentRow]
    BY PaymentRowUpdates DEF RetentionInv, RetentionTypeOK, DaysPass, PaymentStatus
  <2>3. charge' \in [OrderId -> ProviderStatus \cup {"absent"}]
    BY DEF RetentionInv, RetentionTypeOK, DaysPass, ProviderStatus
  <2>4. linked' \subseteq OrderId /\ touched' \subseteq OrderId /\ cleanup' \in Cleanup
    BY DEF RetentionInv, RetentionTypeOK, DaysPass
  <2> QED
    BY <2>1, <2>2, <2>3, <2>4 DEF RetentionTypeOK
<1>2. DeadRows'
  BY DEF RetentionInv, RetentionTypeOK, DeadRows, NotAsked, Payable, DaysPass, Exists,
         PaymentRow, ProviderStatus
<1>3. \A p \in OrderId \ touched' :
        /\ Payable(p)' => Payable(p)
        /\ row'[p].status = "deleted" => row[p].status = "deleted"
  <2>1. UNCHANGED <<charge, linked>>
    BY DEF DaysPass
  <2>2. PICK c : row' = [row EXCEPT ![o].old = TRUE, ![o].completed = c]
    BY DEF DaysPass
  <2>3. row' = [row EXCEPT ![o] = [row[o] EXCEPT !.old = TRUE, !.completed = c]]
    BY <2>2 DEF RetentionInv, RetentionTypeOK, OrderRow
  <2>4. [row[o] EXCEPT !.old = TRUE, !.completed = c].status = row[o].status
    BY DEF RetentionInv, RetentionTypeOK, OrderRow
  <2>5. row \in [OrderId -> OrderRow]
    BY DEF RetentionInv, RetentionTypeOK
  <2> QED
    BY <2>1, <2>3, <2>4, <2>5 DEF Payable
<1>4. touched \subseteq touched' /\ UNCHANGED cleanup
  BY DEF DaysPass
<1> QED
  BY <1>1, <1>2, <1>3, <1>4, ShopStepInv

\* It begins with nothing in hand.
LEMMA StartCleanupInv ==
  ASSUME RetentionInv, NEW dryRun \in BOOLEAN, StartCleanup(dryRun)
  PROVE  RetentionInv'
<1> USE DEF shopVars
<1>1. RetentionTypeOK'
  BY DEF RetentionInv, RetentionTypeOK, StartCleanup, NoCleanup, NoPaymentRow, Cleanup,
         OrderRow,
         PaymentRow, PaymentStatus
<1>2. DeadRows'
  BY DEF RetentionInv, RetentionTypeOK, DeadRows, Payable, StartCleanup, NoCleanup,
         NoPaymentRow, PaymentRow
<1>3. ReadRows'
  BY DEF RetentionInv, RetentionTypeOK, DeadRows, ReadRows, Payable, StartCleanup,
         NoCleanup, NoPaymentRow, Cleanup
<1>4. OrderInHand'
  BY DEF RetentionInv, RetentionTypeOK, DeadRows, ReadRows, OrderInHand, NotAsked,
         Payable,
         StartCleanup, NoCleanup, NoPaymentRow, Cleanup, PaymentRow, PaymentStatus,
         ProviderStatus
<1>5. NothingPaidIsDeleted'
  BY DEF RetentionInv, RetentionTypeOK, OrderInHand, NothingPaidIsDeleted, Payable,
         StartCleanup, NoCleanup, NoPaymentRow, Cleanup, OrderRow
<1> QED
  BY <1>1, <1>2, <1>3, <1>4, <1>5 DEF RetentionInv

\* What is read is what is there, and none of it is deleted.
LEMMA FindCandidatesInv ==
  ASSUME RetentionInv, FindCandidates
  PROVE  RetentionInv'
<1> USE DEF shopVars
<1>1. RetentionTypeOK'
  BY DEF RetentionInv, RetentionTypeOK, FindCandidates, Candidates, NoPaymentRow,
         Cleanup, OrderRow,
         PaymentRow, PaymentStatus
<1>2. DeadRows'
  BY DEF RetentionInv, RetentionTypeOK, DeadRows, Payable, FindCandidates, Candidates,
         NoPaymentRow, PaymentRow
<1>3. ReadRows'
  BY DEF RetentionInv, RetentionTypeOK, DeadRows, ReadRows, Payable, FindCandidates,
         Candidates, NoPaymentRow, Cleanup
<1>4. OrderInHand'
  BY DEF RetentionInv, RetentionTypeOK, DeadRows, ReadRows, OrderInHand, NotAsked,
         Payable,
         FindCandidates, Candidates, NoPaymentRow, Cleanup, PaymentRow, PaymentStatus,
         ProviderStatus
<1>5. NothingPaidIsDeleted'
  BY DEF RetentionInv, RetentionTypeOK, OrderInHand, NothingPaidIsDeleted, Payable,
         FindCandidates, Candidates, NoPaymentRow, Cleanup, OrderRow
<1> QED
  BY <1>1, <1>2, <1>3, <1>4, <1>5 DEF RetentionInv

\* What canDelete lets pass is dead: by its row, or by the final answer.
LEMMA CheckOrderInv ==
  ASSUME RetentionInv, NEW o \in OrderId, NEW answer \in {charge[o], "error"},
         CheckOrder(o, answer)
  PROVE  RetentionInv'
<1> USE DEF shopVars
<1>1. RetentionTypeOK'
  BY DEF RetentionInv, RetentionTypeOK, CheckOrder, canDelete, mapYooKassaStatus,
         Cleanup, OrderRow,
         PaymentRow, PaymentStatus
<1>2. DeadRows'
  BY DEF RetentionInv, RetentionTypeOK, DeadRows, Payable, CheckOrder, canDelete,
         mapYooKassaStatus, PaymentRow
<1>3. ReadRows'
  BY DEF RetentionInv, RetentionTypeOK, DeadRows, ReadRows, Payable, CheckOrder,
         canDelete, mapYooKassaStatus, Cleanup
<1>4. OrderInHand'
  BY DEF RetentionInv, RetentionTypeOK, DeadRows, ReadRows, OrderInHand, NotAsked,
         Payable,
         CheckOrder, canDelete, mapYooKassaStatus, Cleanup, PaymentRow, PaymentStatus,
         ProviderStatus
<1>5. NothingPaidIsDeleted'
  BY DEF RetentionInv, RetentionTypeOK, OrderInHand, NothingPaidIsDeleted, Payable,
         CheckOrder, canDelete, mapYooKassaStatus, Cleanup, OrderRow
<1> QED
  BY <1>1, <1>2, <1>3, <1>4, <1>5 DEF RetentionInv

\* The order in hand was dead, and still is if nobody touched it.
LEMMA DeleteOrderInv ==
  ASSUME RetentionInv, NEW o \in OrderId, DeleteOrder(o)
  PROVE  RetentionInv'
<1> USE DEF shopVars
<1>1. RetentionTypeOK'
  <2>1. row' \in [OrderId -> OrderRow]
    BY OrderRowUpdates DEF RetentionInv, DeleteOrder
  <2>2. cleanup' \in Cleanup
    BY DEF RetentionInv, RetentionTypeOK, DeleteOrder, Cleanup
  <2> QED
    BY <2>1, <2>2 DEF RetentionInv, RetentionTypeOK, DeleteOrder
<1>2. DeadRows'
  BY DEF RetentionInv, RetentionTypeOK, DeadRows, Payable, DeleteOrder, PaymentRow
<1>3. ReadRows'
  BY DEF RetentionInv, RetentionTypeOK, DeadRows, ReadRows, Payable, DeleteOrder,
         Cleanup
<1>4. OrderInHand'
  BY DEF RetentionInv, RetentionTypeOK, DeadRows, ReadRows, OrderInHand, NotAsked,
         Payable,
         DeleteOrder, Cleanup, PaymentRow, PaymentStatus, ProviderStatus
<1>5. NothingPaidIsDeleted'
  BY DEF RetentionInv, RetentionTypeOK, OrderInHand, NothingPaidIsDeleted, Payable,
         DeleteOrder, Cleanup, OrderRow
<1> QED
  BY <1>1, <1>2, <1>3, <1>4, <1>5 DEF RetentionInv

\* Nothing is left of the first status.
LEMMA NextCandidatesInv ==
  ASSUME RetentionInv, NextCandidates
  PROVE  RetentionInv'
<1> USE DEF shopVars
<1>1. RetentionTypeOK'
  BY DEF RetentionInv, RetentionTypeOK, NextCandidates, Cleanup, OrderRow,
         PaymentRow, PaymentStatus
<1>2. DeadRows'
  BY DEF RetentionInv, RetentionTypeOK, DeadRows, Payable, NextCandidates, PaymentRow
<1>3. ReadRows'
  BY DEF RetentionInv, RetentionTypeOK, DeadRows, ReadRows, Payable, NextCandidates,
         Cleanup
<1>4. OrderInHand'
  BY DEF RetentionInv, RetentionTypeOK, DeadRows, ReadRows, OrderInHand, NotAsked,
         Payable,
         NextCandidates, Cleanup, PaymentRow, PaymentStatus, ProviderStatus
<1>5. NothingPaidIsDeleted'
  BY DEF RetentionInv, RetentionTypeOK, OrderInHand, NothingPaidIsDeleted, Payable,
         NextCandidates, Cleanup, OrderRow
<1> QED
  BY <1>1, <1>2, <1>3, <1>4, <1>5 DEF RetentionInv

\* The links of the rows are no part of what is payable.
LEMMA ClearPaymentUrlsInv ==
  ASSUME RetentionInv, ClearPaymentUrls
  PROVE  RetentionInv'
<1> USE DEF shopVars
<1>1. RetentionTypeOK'
  <2>1. current' \in [OrderId -> PaymentRow]
    <3>1. \A r \in PaymentRow : [r EXCEPT !.url = FALSE] \in PaymentRow
      BY DEF PaymentRow
    <3> QED
      BY <3>1 DEF RetentionInv, RetentionTypeOK, ClearPaymentUrls
  <2>2. cleanup' \in Cleanup
    BY DEF ClearPaymentUrls, NoCleanup, NoPaymentRow, Cleanup, PaymentRow
  <2> QED
    BY <2>1, <2>2 DEF RetentionInv, RetentionTypeOK, ClearPaymentUrls
<1>2. DeadRows'
  BY DEF RetentionInv, RetentionTypeOK, DeadRows, Payable, ClearPaymentUrls, NoCleanup,
         NoPaymentRow, PaymentRow
<1>3. ReadRows'
  BY DEF RetentionInv, RetentionTypeOK, DeadRows, ReadRows, Payable, ClearPaymentUrls,
         NoCleanup, NoPaymentRow, Cleanup
<1>4. OrderInHand'
  BY DEF RetentionInv, RetentionTypeOK, DeadRows, ReadRows, OrderInHand, NotAsked,
         Payable,
         ClearPaymentUrls, NoCleanup, NoPaymentRow, Cleanup, PaymentRow, PaymentStatus,
         ProviderStatus
<1>5. NothingPaidIsDeleted'
  BY DEF RetentionInv, RetentionTypeOK, OrderInHand, NothingPaidIsDeleted, Payable,
         ClearPaymentUrls, NoCleanup, NoPaymentRow, Cleanup, OrderRow
<1> QED
  BY <1>1, <1>2, <1>3, <1>4, <1>5 DEF RetentionInv

\* What was deleted stays deleted.
LEMMA CleanupFailsInv ==
  ASSUME RetentionInv, CleanupFails
  PROVE  RetentionInv'
<1> USE DEF shopVars
<1>1. RetentionTypeOK'
  BY DEF RetentionInv, RetentionTypeOK, CleanupFails, NoCleanup, NoPaymentRow, Cleanup,
         OrderRow,
         PaymentRow, PaymentStatus
<1>2. DeadRows'
  BY DEF RetentionInv, RetentionTypeOK, DeadRows, Payable, CleanupFails, NoCleanup,
         NoPaymentRow, PaymentRow
<1>3. ReadRows'
  BY DEF RetentionInv, RetentionTypeOK, DeadRows, ReadRows, Payable, CleanupFails,
         NoCleanup, NoPaymentRow, Cleanup
<1>4. OrderInHand'
  BY DEF RetentionInv, RetentionTypeOK, DeadRows, ReadRows, OrderInHand, NotAsked,
         Payable,
         CleanupFails, NoCleanup, NoPaymentRow, Cleanup, PaymentRow, PaymentStatus,
         ProviderStatus
<1>5. NothingPaidIsDeleted'
  BY DEF RetentionInv, RetentionTypeOK, OrderInHand, NothingPaidIsDeleted, Payable,
         CleanupFails, NoCleanup, NoPaymentRow, Cleanup, OrderRow
<1> QED
  BY <1>1, <1>2, <1>3, <1>4, <1>5 DEF RetentionInv

LEMMA RetentionStep == RetentionInv /\ [RetentionNext]_retentionVars => RetentionInv'
<1> SUFFICES ASSUME RetentionInv, [RetentionNext]_retentionVars PROVE RetentionInv'
  OBVIOUS
<1>1. CASE UNCHANGED retentionVars
  BY <1>1 DEF RetentionInv, RetentionTypeOK, DeadRows, ReadRows, OrderInHand,
              NothingPaidIsDeleted, Payable, retentionVars
<1>2. ASSUME NEW o \in OrderId,
             CheckoutReuses(o) \/ CheckoutRestores(o) \/ CheckoutPays(o)
             \/ CustomerPaysLink(o) \/ PaymentExpires(o) \/ DaysPass(o)
      PROVE  RetentionInv'
  BY <1>2, CheckoutReusesInv, CheckoutRestoresInv, CheckoutPaysInv, CustomerPaysLinkInv,
     PaymentExpiresInv, DaysPassInv
<1>3. ASSUME NEW o \in OrderId, NEW webhook \in BOOLEAN, OutcomeArrives(o, webhook)
      PROVE  RetentionInv'
  BY <1>3, OutcomeArrivesInv
<1>4. ASSUME NEW o \in OrderId, NEW status \in {"SHIPPED", "CANCELLED"},
         AdminSets(o, status)
      PROVE  RetentionInv'
  BY <1>4, AdminSetsInv
<1>5. ASSUME NEW o \in OrderId, NEW answer \in {charge[o], "error"}, CheckOrder(o, answer)
      PROVE  RetentionInv'
  BY <1>5, CheckOrderInv
<1>6. ASSUME NEW o \in OrderId, DeleteOrder(o) PROVE RetentionInv'
  BY <1>6, DeleteOrderInv
<1>7. ASSUME NEW dryRun \in BOOLEAN, StartCleanup(dryRun) PROVE RetentionInv'
  BY <1>7, StartCleanupInv
<1>8. CASE FindCandidates \/ NextCandidates \/ ClearPaymentUrls \/ CleanupFails
  BY <1>8, FindCandidatesInv, NextCandidatesInv, ClearPaymentUrlsInv, CleanupFailsInv
<1> QED
  BY <1>1, <1>2, <1>3, <1>4, <1>5, <1>6, <1>7, <1>8 DEF RetentionNext

\* Rows, snapshots and the order in hand agree with what YooKassa has, in every
\* reachable state of the shop and the command.
THEOREM RetentionInvariance == RetentionSpec => []RetentionInv
  BY RetentionInitInv, RetentionStep, PTL DEF RetentionSpec

\* An order is deleted only when its current payment is dead, unless a checkout
\* or an admin touched it between the command's reading and its deleting.
THEOREM NothingPaidTheorem == RetentionSpec => []NothingPaidIsDeleted
<1>1. RetentionInv => NothingPaidIsDeleted
  BY DEF RetentionInv
<1> QED
  BY <1>1, RetentionInvariance, PTL
================================================================================
