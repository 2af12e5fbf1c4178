------------------------------- MODULE Retention -------------------------------
(***************************************************************************)
(* The cleanup command (scripts/retentionCleanup, retention.service and    *)
(* its tasks), run by hand beside the shop.  It deletes old unpaid orders  *)
(* after asking YooKassa about their current payment, and takes the        *)
(* confirmation links from payments that are old or over.                  *)
(*                                                                         *)
(* The shop around it is coarse: a checkout, a notice and an admin's       *)
(* change are one action each (module Payments has their steps).  Only an  *)
(* order's current payment is kept, as the command asks about no other.    *)
(* The clearing of comments, telegrams and job errors is left out: nothing *)
(* here reads them.                                                        *)
(***************************************************************************)
EXTENDS ShopTypes

CONSTANT OrderId   \* the orders

VARIABLES
  row,       \* Order rows: status, createdAt before the cutoff or not, completedAt
  current,   \* the current payment's row
  charge,    \* what YooKassa has of that payment
  linked,    \* the orders whose customer was given the link of that payment
  touched,   \* the orders a checkout or an admin changed since the cleanup read them
  cleanup    \* the command: mode, step, status it looks for, what it read, order in hand

shopVars      == <<row, current, charge, linked>>
retentionVars == <<row, current, charge, linked, touched, cleanup>>

-------------------------------------------------------------------------------
OrderRow == [status : {"absent", "PENDING_PAYMENT", "PAID", "SHIPPED", "CANCELLED", "deleted"},
             old : BOOLEAN, completed : {"no", "recently", "long ago"}]

PaymentRow == [status : PaymentStatus \cup {"absent"}, registered : BOOLEAN, url : BOOLEAN,
               old : BOOLEAN]
NoPaymentRow == [status |-> "absent", registered |-> FALSE, url |-> FALSE, old |-> FALSE]

Cleanup == [dryRun : BOOLEAN, step : {"off", "find", "check", "delete", "clear"},
            status : {"PENDING_PAYMENT", "CANCELLED"},
            todo : SUBSET OrderId, read : [OrderId -> PaymentRow], order : SUBSET OrderId]

NoCleanup == [dryRun |-> FALSE, step |-> "off", status |-> "PENDING_PAYMENT",
              todo |-> {}, read |-> [o \in OrderId |-> NoPaymentRow], order |-> {}]

RetentionInit ==
  /\ row = [o \in OrderId |-> [status |-> "absent", old |-> FALSE, completed |-> "no"]]
  /\ current = [o \in OrderId |-> NoPaymentRow]
  /\ charge = [o \in OrderId |-> "absent"]
  /\ linked = {} /\ touched = {}
  /\ cleanup = NoCleanup

Exists(o) == row[o].status \notin {"absent", "deleted"}

-------------------------------------------------------------------------------
\* The shop

OpenRow(old) == [status |-> "PENDING", registered |-> TRUE, url |-> TRUE, old |-> old]

\* The order of a checkout, new or there already.
CheckedOut(o) ==
  /\ row[o].status # "deleted"
  /\ row' = IF Exists(o) THEN row ELSE [row EXCEPT ![o].status = "PENDING_PAYMENT"]
  /\ touched' = touched \cup {o}
  /\ UNCHANGED cleanup

\* resolveCheckoutPayment: a payment with a link, or one that succeeded, stays.
CheckoutReuses(o) ==
  /\ \/ current[o].status = "PENDING" /\ current[o].url
     \/ current[o].status = "SUCCEEDED"
  /\ CheckedOut(o)
  /\ UNCHANGED <<current, charge, linked>>

\* An unknown payment is restored under its idempotence key.
CheckoutRestores(o) ==
  /\ current[o].status = "PROVIDER_UNKNOWN" /\ charge[o] # "canceled"
  /\ CheckedOut(o)
  /\ IF charge[o] = "succeeded"
     THEN /\ current' = [current EXCEPT ![o].status = "SUCCEEDED", ![o].registered = TRUE]
          /\ UNCHANGED <<charge, linked>>
     ELSE /\ current' = [current EXCEPT ![o] = OpenRow(current[o].old)]
          /\ charge' = [charge EXCEPT ![o] = "pending"]
          /\ linked' = linked \cup {o}

\* createNewPaymentForOrder: a link; or, after an error or a death, a row that
\* says nothing of what YooKassa has, which is a payment nobody has a link of.
CheckoutPays(o) ==
  /\ ~(current[o].status = "PENDING" /\ current[o].url) /\ current[o].status # "SUCCEEDED"
  /\ CheckedOut(o)
  /\ \/ /\ current' = [current EXCEPT ![o] = OpenRow(FALSE)]
        /\ charge' = [charge EXCEPT ![o] = "pending"]
        /\ linked' = linked \cup {o}
     \/ \E status \in {"PENDING", "PROVIDER_UNKNOWN", "FAILED"},
            made \in {"absent", "pending"} :
          /\ current' = [current EXCEPT ![o] = [NoPaymentRow EXCEPT !.status = status]]
          /\ charge' = [charge EXCEPT ![o] = made]
          /\ linked' = linked \ {o}

CustomerPaysLink(o) ==
  /\ o \in linked /\ charge[o] = "pending"
  /\ charge' = [charge EXCEPT ![o] = "succeeded"]
  /\ UNCHANGED <<row, current, linked, touched, cleanup>>

PaymentExpires(o) ==
  /\ charge[o] = "pending"
  /\ charge' = [charge EXCEPT ![o] = "canceled"]
  /\ UNCHANGED <<row, current, linked, touched, cleanup>>

\* The webhook or the status check records an outcome, and with it the order's
\* status; a webhook of a cancelled payment reopens the order.
OutcomeArrives(o, webhook) ==
  /\ Exists(o) /\ charge[o] \in {"succeeded", "canceled"}
  /\ current' = [current EXCEPT ![o].status = mapYooKassaStatus(charge[o]),
                                ![o].registered = TRUE, ![o].url = FALSE]
  /\ row' = IF charge[o] = "succeeded" /\ row[o].status # "SHIPPED"
            THEN [row EXCEPT ![o].status = "PAID"]
            ELSE IF charge[o] = "canceled" /\ webhook
            THEN [row EXCEPT ![o].status = "PENDING_PAYMENT"]
            ELSE row
  /\ UNCHANGED <<charge, linked, touched, cleanup>>

\* updateStatus; completedAt is set once.
AdminSets(o, status) ==
  /\ Exists(o)
  /\ row' = [row EXCEPT ![o].status = status,
               ![o].completed = IF status = "CANCELLED" /\ @ = "no" THEN "recently" ELSE @]
  /\ touched' = touched \cup {o}
  /\ UNCHANGED <<current, charge, linked, cleanup>>

\* Thirty days pass.  A run of the command takes its cutoffs once, at its start.
DaysPass(o) ==
  /\ Exists(o) /\ cleanup.step = "off"
  /\ row' = [row EXCEPT ![o].old = TRUE,
                        ![o].completed = IF @ = "recently" THEN "long ago" ELSE @]
  /\ current' = [current EXCEPT ![o].old = (current[o].status # "absent")]
  /\ UNCHANGED <<charge, linked, touched, cleanup>>

-------------------------------------------------------------------------------
\* The command

\* main and parseCleanupMode: exactly one of --dry-run and --apply.
StartCleanup(dryRun) ==
  /\ cleanup.step = "off"
  /\ cleanup' = [NoCleanup EXCEPT !.step = "find", !.dryRun = dryRun]
  /\ UNCHANGED <<shopVars, touched>>

\* findOldUnpaidOrderCandidates: old by createdAt, or by completedAt.
Candidates ==
  {o \in OrderId :
     /\ row[o].status = cleanup.status
     /\ IF cleanup.status = "CANCELLED" THEN row[o].completed = "long ago" ELSE row[o].old
     /\ current[o].status # "SUCCEEDED"}

FindCandidates ==
  /\ cleanup.step = "find"
  /\ cleanup' = [cleanup EXCEPT !.step = "check", !.todo = Candidates,
                   !.read = [o \in OrderId |-> IF o \in Candidates THEN current[o]
                                             ELSE NoPaymentRow]]
  /\ touched' = touched \ Candidates
  /\ UNCHANGED shopVars

\* Mutant: a payment that nobody answers for is taken for dead.
canDeleteUnasked(p, answer) ==
  p.status # "SUCCEEDED" /\ answer # "succeeded"

\* checkCurrentPaymentBeforeDeletion, by the row that was read and by YooKassa's
\* answer; "error" if there is none.
canDelete(p, answer) ==
  \/ p.status \notin {"SUCCEEDED", "PENDING", "PROVIDER_UNKNOWN"}
  \/ /\ p.status \in {"PENDING", "PROVIDER_UNKNOWN"} /\ p.registered
     /\ answer # "error" /\ mapYooKassaStatus(answer) \in {"CANCELED", "FAILED"}

\* One round of deleteEligibleOldOrders up to order.delete.  A dry run counts.
CheckOrder(o, answer) ==
  /\ cleanup.step = "check" /\ o \in cleanup.todo
  /\ answer \in {charge[o], "error"} \ {"absent"}
  /\ cleanup' = IF canDelete(cleanup.read[o], answer) /\ ~cleanup.dryRun
                THEN [cleanup EXCEPT !.step = "delete", !.order = {o}, !.todo = @ \ {o}]
                ELSE [cleanup EXCEPT !.todo = @ \ {o}]
  /\ UNCHANGED <<shopVars, touched>>

\* order.delete by id, whatever became of the order; payments go with it.
DeleteOrder(o) ==
  /\ cleanup.step = "delete" /\ o \in cleanup.order
  /\ row' = [row EXCEPT ![o].status = "deleted"]
  /\ cleanup' = [cleanup EXCEPT !.step = "check", !.order = {}]
  /\ UNCHANGED <<current, charge, linked, touched>>

NextCandidates ==
  /\ cleanup.step = "check" /\ cleanup.todo = {}
  /\ cleanup' = IF cleanup.status = "PENDING_PAYMENT"
                THEN [cleanup EXCEPT !.step = "find", !.status = "CANCELLED"]
                ELSE [cleanup EXCEPT !.step = "clear"]
  /\ UNCHANGED <<shopVars, touched>>

\* clearPaymentConfirmationUrls: payments that are over, or older than 30 days.
ClearPaymentUrls ==
  /\ cleanup.step = "clear"
  /\ current' = IF cleanup.dryRun THEN current
                ELSE [o \in OrderId |->
                        IF \/ current[o].status \in {"SUCCEEDED", "CANCELED", "FAILED"}
                           \/ current[o].old
                        THEN [current[o] EXCEPT !.url = FALSE] ELSE current[o]]
  /\ cleanup' = NoCleanup
  /\ UNCHANGED <<row, charge, linked, touched>>

\* A statement fails, or the command is stopped.
CleanupFails ==
  /\ cleanup.step # "off"
  /\ cleanup' = NoCleanup
  /\ UNCHANGED <<shopVars, touched>>

RetentionNext ==
  \/ \E o \in OrderId :
       \/ CheckoutReuses(o) \/ CheckoutRestores(o) \/ CheckoutPays(o)
       \/ CustomerPaysLink(o) \/ PaymentExpires(o) \/ DaysPass(o)
       \/ \E webhook \in BOOLEAN : OutcomeArrives(o, webhook)
       \/ \E status \in {"SHIPPED", "CANCELLED"} : AdminSets(o, status)
       \/ \E answer \in {charge[o], "error"} : CheckOrder(o, answer)
       \/ DeleteOrder(o)
  \/ \E dryRun \in BOOLEAN : StartCleanup(dryRun)
  \/ FindCandidates \/ NextCandidates \/ ClearPaymentUrls \/ CleanupFails

RetentionSpec == RetentionInit /\ [][RetentionNext]_retentionVars

-------------------------------------------------------------------------------
\* Properties

RetentionTypeOK ==
  /\ row \in [OrderId -> OrderRow] /\ current \in [OrderId -> PaymentRow]
  /\ charge \in [OrderId -> ProviderStatus \cup {"absent"}]
  /\ linked \subseteq OrderId /\ touched \subseteq OrderId
  /\ cleanup \in Cleanup

\* The customer has paid the current payment, or still can.
Payable(o) == charge[o] = "succeeded" \/ (o \in linked /\ charge[o] = "pending")

\* An order that nobody touched after the cleanup had read it is deleted only
\* when its current payment is dead: whatever notices were lost and answers
\* failed, its customer has not paid it and cannot any more
\* (findOldUnpaidOrderCandidates, checkCurrentPaymentBeforeDeletion).
NothingPaidIsDeleted ==
  \A o \in OrderId \ touched : row[o].status = "deleted" => ~Payable(o)

-------------------------------------------------------------------------------
\* The inductive invariant behind it

\* The statuses that checkCurrentPaymentBeforeDeletion takes as they are.
NotAsked == {"absent", "CANCELED", "FAILED"}

DeadRows == \A o \in OrderId : current[o].status \in NotAsked => ~Payable(o)

\* What was read of an order that nobody touched since still tells as much.
ReadRows ==
  cleanup.step \in {"check", "delete"} =>
    \A o \in cleanup.todo \ touched : cleanup.read[o].status \in NotAsked => ~Payable(o)

OrderInHand ==
  /\ cleanup.step # "delete" => cleanup.order = {}
  /\ \A o \in cleanup.order \ touched : ~Payable(o)

\* A row that says that nothing can be paid is right, and so is what the command
\* goes by, however long ago it read it, of the orders that nobody touched
\* (findOldUnpaidOrderCandidates, deleteEligibleOldOrders).
RetentionInv == RetentionTypeOK /\ DeadRows /\ ReadRows /\ OrderInHand /\ NothingPaidIsDeleted
===============================================================================
