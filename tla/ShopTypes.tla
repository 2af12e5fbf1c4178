------------------------------ MODULE ShopTypes ------------------------------
(***************************************************************************)
(* The enumerations of prisma/schema.prisma that more than one component   *)
(* uses, and the pure helpers of backend/src/helpers that translate what   *)
(* the payment provider says into what the shop stores.  "absent" stands   *)
(* for a row (or a remote object) that does not exist.                     *)
(***************************************************************************)

OrderStatus == {"PENDING_PAYMENT", "PAID", "FULFILLMENT_PENDING",
                "SHIPPED", "DELIVERED", "CANCELLED"}

PaymentStatus == {"PENDING", "SUCCEEDED", "CANCELED", "FAILED",
                  "PROVIDER_UNKNOWN"}

\* The states a payment has at YooKassa.  With capture = true it never waits
\* for a capture, and both outcomes are final.
ProviderStatus == {"pending", "succeeded", "canceled"}

\* How a call to YooKassa may go wrong, by what the Error says: an explicit
\* refusal, a transport error (ECONNRESET, socket, 50x, ...), or the message
\* withTimeout rejects with ("YooKassa ... timed out").
ProviderError == {"refused", "network", "timedOut"}

\* Mutant: what is not canceled is paid.
mapYooKassaStatusPaid(s) == IF s = "canceled" THEN "CANCELED" ELSE "SUCCEEDED"

mapYooKassaStatus(s) ==
  CASE s = "succeeded" -> "SUCCEEDED"
    [] s = "canceled"  -> "CANCELED"
    [] OTHER           -> "PENDING"

\* The columns buildPaymentUpdateFromProvider writes; url says whether
\* confirmationUrl is set.
buildPaymentUpdateFromProvider(row, s) ==
  [row EXCEPT !.status     = mapYooKassaStatus(s),
              !.registered = TRUE,
              !.url        = (mapYooKassaStatus(s) = "PENDING")]

\* None of the substrings the helper looks for occurs in "... timed out".
shouldMarkProviderUnknown(e) == e = "network"

failedStatus(e) ==
  IF shouldMarkProviderUnknown(e) THEN "PROVIDER_UNKNOWN" ELSE "FAILED"
==============================================================================
