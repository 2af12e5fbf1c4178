# Verification of the shop

TLA+ models of the shop's backend, the configurations that check them with TLC,
and proofs of their main invariants with TLAPS. The models are translated from
the code under `src/`; `PROJECT.json` names for every definition the lines it
stands for, and for every hazard of the code the properties that watch it.

## The system

A storefront (React) and a backend (Express, Prisma, PostgreSQL) sell objects:
the customer pays through YooKassa, CDEK delivers, and a worker process sends
the confirmation email. Node runs one request at a time between two `await`s;
requests, the worker and the cleanup command interleave at every statement sent
to the database and every call to a provider. Apart from the creation of an
order with its items and the swap of two images, nothing runs in a transaction.

| Component | State it keeps | Operations | Interacts with |
| --- | --- | --- | --- |
| Orders and payments (`checkoutController`, `order.service`, `yookassa.service`, `paymentController`, `ordersController`) | `Order`, `OrderItem`, `Payment` | create an order, webhook, status check, admin status change, shipment retry | YooKassa; calls the shipments |
| CDEK shipments (`cdek.service` and its helpers) | `Shipment`, one row per order | create, restore, wait for the number | CDEK; writes `Order.status`, enqueues the email |
| Confirmation emails (`notification.service`, `notification-job.service`, `notification.worker`, `mail.service`) | `NotificationJob` | enqueue, claim, send, mark, requeue | SMTP; a process of its own |
| Retention cleanup (`retention.service`) | deletes `Order` rows, clears fields | a command run by hand | YooKassa; races with all of the above |
| CDEK client (`cdek.api`) | the cached token | token, suggestions, price, registration, lookup | CDEK |
| Catalogue (`itemController`, `imageController`) | `Item`, `ItemImage` and its position | upload, delete, swap, edit | files on disk |
| Cart and checkout form | zustand stores, partly in localStorage | add, remove, choose city, office and price | backend |
| Checkout submission | whether a submission is under way, the attempt key | submit, poll the payment | backend |
| Layer switching | opened layers, active object and section | open, close, navigate | the router |
| Admin pages | table, filters, requests in flight | list orders, change status, order photos | backend |
| Backup and deployment scripts | which services run | stop, dump, start | Docker |
| Authentication, validation, logging, presentation | none that lasts | checks per request | |

### What is hard, and what makes it correct

*Orders and payments.* A payment exists twice, as a row and at YooKassa, and
the two are brought together by four uncoordinated paths: the answer of the
create call, a repeated checkout, the webhook and the status check. Any of them
may die or time out between two statements. It is correct if no order is
confirmed or shipped without a charge, no outcome is invented, a customer who
repeats a checkout is given the payment that can still be paid, and a charge is
eventually recorded. Two checkouts of one order that overlap break the third,
and nothing keeps them from overlapping (see CheckoutRaces).

*Shipments.* A webhook, a status check and an admin's retry may all ask CDEK
for the shipment of one order. The `Shipment` row with its unique `orderId` and
a conditional update serve as a lock that no process holds: a crash leaves it
taken. It is correct if one call at a time may register, if a confirmed row
names a shipment CDEK has, and if the lock is given back.

*Emails.* The job's row is the lock; it expires after fifteen minutes. It is
correct if a job is in one worker's hands, ends, and stays ended. An `await` that
throws after its statement was committed is the hard case: the `catch` then writes
over what the statement stored.

*Checkout in the storefront.* Answers for cities, pickup points and prices come
back in any order while the cart changes, and a submission is repeated after a
lost answer. It is correct if an order names a pickup point that was offered for its
own items, if one attempt key never stands for two contents, and if a submission
that is repeated unchanged is no second order.

*Layers.* The store and the path of the browser are kept in step by two effects
and by navigations that complete later. They are correct if the layers stay
stacked, if a deep link restores them, and if the two come to rest. The second
fails for one order of events (run `layers_stranded`).

*Admin pages.* Tables and modals send requests that outlive the render, the
query or the modal that started them. They are correct if the table settles on
what the controls say, and if images keep their files and their positions.

*Retention.* The command deletes by what it read before an `await`. It is
correct if nothing paid, or still payable, is deleted, unless a checkout or an
admin touched the order meanwhile.

*CDEK token, backup, deployment.* A token must outlive the request that carries
it. The scripts stop the services and must start them again when a command of
theirs fails, on a schema that fits the code.

## Modules

| Module | Models | Extended or used by |
| --- | --- | --- |
| `ShopTypes` | statuses and the conversions `mapYooKassaStatus`, `buildPaymentUpdateFromProvider`, `shouldMarkProviderUnknown` | all of Payments, OrderLifecycle |
| `Payments` | checkout, payments, webhook, status check, admin actions, YooKassa | `MCPayments`, `CheckoutRaces` |
| `CheckoutRaces` | Payments with a history of the payments that two checkouts worked on at once | `MCRaces`, `PaymentsProofs` |
| `OrderLifecycle` | the abstract contract of an order's status | instantiated by `Payments` |
| `Shipments` | `createCdekShipmentForPaidOrder` and what it calls, CDEK | `MCShipments`, `ShipmentsProofs` |
| `Parcels` | the abstract contract of the shipments | instantiated by `Shipments` |
| `Notifications` | jobs, workers, SMTP | all three `MC` modules below, `NotificationsProofs` |
| `Outbox` | the abstract contract of the emails | instantiated by `Notifications` |
| `Checkout` | cart, checkout form, submission, polling | `MCStorefront`, `CheckoutProofs` |
| `Images` | images of the items, their rows and files | `MCStorefront`, `ImagesProofs` |
| `Layers` | layers, paths and the effects between them | `MCSite`, run `layers_stranded`, `LayersProofs` |
| `AdminOrders` | the admin's table of orders | `MCSite`, `OperationsProofs` |
| `Retention` | the cleanup of old orders and links | `MCSite`, `RetentionProofs` |
| `TokenCache` | the token of the CDEK client | `MCSite`, `OperationsProofs` |
| `Backup` | backup and deployment scripts | `MCSite`, `OperationsProofs` |
| `MCPayments`, `MCRaces`, `MCShipments`, `MCNotifications` | symmetry sets for TLC | |
| `MCStorefront`, `MCSite` | several parts in one run, see Runs | |
| `*Proofs` | theorems and their lemmas | |

Every request or worker is a process with a program counter; an action is what
the code does between two `await`s, so everything else may happen in between.
What a process read earlier it keeps in its record and may use when it is stale.

### Payments

`order[k]` is the `Order` row of checkout attempt key `k`, `payment[p]` a
`Payment` row, `provider[p]` what YooKassa has under the row's idempotence key,
`requested` the creations sent and not settled, `links` the rows whose
confirmation link a customer was given, `notices` the webhooks YooKassa still
has to deliver, `handler[h]` a request. The steps of a checkout are `insert`, `load`,
`new`, `link`, `awaitCreate`, `applyCreate`, `awaitRestore`, `applyRestore` and `respond`;
of a webhook `awaitHook`, `applyHook`, `hookOrder`, `hookReopen`; of marking an
order paid `markRead`, `markWrite`, `ship`. YooKassa may make a payment before,
after or without its answer arriving, never refuses what exists, and repeats a
notice until it is acknowledged. It goes by the idempotence key alone: that a
restore repeats the key with a new `metadata.time` is assumed to make no
difference. The steps `applyCreate`, `applyRestore`, `applyHook` and
`applyCheck` hold an answer that may be old by the time it is written.

Left out: items and prices (`prepareOrderItems`), the validation of the body,
and the branches of the webhook that a genuine notice does not reach (unknown
payment, status or metadata that do not match, lines 49-57 and 71-100). A failed
database statement ends its request, as in the code's `catch`; the two places
where the code handles it otherwise, the `try` blocks of
`createNewPaymentForOrder` and `tryRestoreUnknownPayment`, are `CreateFails` and
`RestoreFails`. Step `ship` stands for `createCdekShipmentForPaidOrder`, which
module Shipments models; what it does to the order, and that it may fail, is in
`ShipSucceeds` and `ShipFails`.

### CheckoutRaces

Nothing makes the checkout requests of one key take turns. The form's
`isSubmitting` belongs to the component (`CheckoutLayer.tsx` line 84), and a layer
that is closed is unmounted; the key is in the global store, so that a form that
is opened again submits the same key while the first request is still served. The
`finally` at line 304 frees the form of a request that the client gave up, too.
`Payments` therefore lets the checkouts of a key overlap, always. What it promises
about links then holds of the payments that were made alone: `raced` collects the
payments a checkout worked on, from their row to YooKassa's answer, while another
checkout of the order was about to make or restore one (`Racing`). It is a history
variable that no guard reads: `RacesSpec` has the behaviours of `Spec`.
`TwoLinksNeedARace` says that every repeat that does not meet another checkout,
whatever was lost or died before it, gives the customer the link that can be
paid; `ChargedAloneIsCurrent` that a race can only hide the payments it made.

### Shipments

`shipment[o]` is the `Shipment` row, `order[o]` the order's status, `jobs` the
orders with an email job, `remote[u]` what CDEK keeps under id `u`, `late` the
registrations whose caller gave up and that may still arrive, `handler[h]` a
call of `createCdekShipmentForPaidOrder`. The tracking number is represented by
the id it was given to. CDEK accepts or rejects a registration at once, and
numbers, invalidates or removes the shipment later. CDEK's rejection stands for the
errors by which it says that it registered nothing; an error answer that leaves
this open (a 504, a proxy's 5xx) is a call whose answer was lost. As the code returns the
promise of `waitForCdekShipment` without `await`, an INVALID shipment ends the
call and not its `catch` (`PollInvalid`). A payload that cannot be built throws
outside the `try` and ends the call like a crash (`HandlerDies`).

`Parcels` sees of this the parcels CDEK ever registered for an order (`parcels`:
the ids in `remote`), which orders have a number, the parcel an order is shown
with (`shown`: the id of a CREATED row), whose customer is written to (`jobs`), and
whether every call to CDEK was answered (`lost = 0`). The rows in PROCESSING or
FAILED, the calls, their polls and deaths are steps the contract does not see.

### Notifications

`job[o]` is the job of order `o`; `queue` is the order of `runAt`; `mails[o]`
counts what the SMTP server accepted. `lockedAt` is none, fresh or stale
by the age of the claim. A lock that nobody works under gets old (`LockAges`);
that one gets old under its worker (`LockExpires`, at most `MaxExpired` times)
takes a step of fifteen minutes where `SMTP_TIMEOUT_MS` is 15 s, but nothing in
the code excludes it. The three statements of a claim are steps of their own, so
another worker may come between them; a job enqueued after the round began
(`seen`) is left to the next one, as `runAt <= now` leaves it. A statement whose
answer is lost may have been stored or not: in `MarkSentErrs` the worker goes on
to `markNotificationJobFailed` over a row that may say SENT already.

`Outbox` sees of an order "none", "open" (PENDING or PROCESSING), "sent" or
"failed" (`Outcome`), the mails that went out, whether nothing went wrong so
far (`calm`: no lost answer, expired lock or death) and whether no answer was lost
(`answered`). Once one was, the contract has a step `Reopen` that opens again what
was sent, as the code does; FAILED it never opens. Locks, rounds, attempts and the
failures that leave a job open are steps the contract does not see.

### Checkout

One customer in one tab. `cart`, `shown` (the items that were loaded), `form`
and `widget` are the stores and the state of `O_CheckoutDeliveryFields`; `calls`
are the requests that the page awaits, each with what the closure of its handler
had read; `page`, `polling`, `drawn` and `reloads` are the tab; `placed` and
`paid` the orders at the backend. A pickup point or a price *is* what it was
calculated for, a city and a cart, so a stale one can be told from a fresh one.
`resetDeliverySelection` changes the `key` of the delivery fields, so that React
mounts a new instance: `Orphan` marks the requests of the old one, whose
`setState` does nothing, but whose writes to the store still arrive, as in the
code. A submission is `handleSubmit`, then `CreateOrder` or `RefuseOrder` at the
backend, then `OrderAnswered` or `SubmitLost`; `ReopenCheckout` closes the layer
and opens it again under a request. `visit`, in requests and orders, is the page
load that made them, which `SubmittedOnce` asks for: a reload forgets the key. The
customer's fields are one choice of complete contents; texts, masks and toasts are left out.

### Images

`items`, `image` and `files` are the rows and what lies in `static/uploads`; a
request of an admin is a record with its next step, and may fail at any. An
upload is file, last position, row (`AddImage`, `ReadLast`, `InsertImage`), a
deletion row, then file (`RemoveImage`, `UnlinkFile`), a swap two reads and one
transaction. `overlapped` records that two uploads or swaps of one item
overlapped, after which positions may coincide, in the model as in the code.
An image goes by its file, a file or item by a number that is used again only
when nothing refers to it.

### Layers

`layers` is the store, `path` the rendered path, `navigation` the one under way,
`effect` says that App's second effect is due. The actions of the store are
operators on its state (`openLayer`, `closeLayer`, ...), the controls are
actions that apply them (`ClickCard`, `ClickInfo`, ...). `Browse` is a link or
the browser's history, to any path, the rendered one included: then it replaces a
navigation under way, no dependency of App's second effect changes, and the
layers that navigation was for stay open under the old path. This takes the store
and the path out of step (`layers_stranded`); `StaysInStep` says that nothing
else does.

### AdminOrders

`query` is what the controls select, `table` what is shown, `loads` the lists
under way, each with the query of the render that asked, `operation` the status
changes and retries, `disabled` the rows whose controls wait. `Effect` is the
effect that loads again when `loadOrders` is made anew. `database` is listed by
`getOrders` with search, sorting and pages. `orderBy` has the one key that was
chosen: `Listings` are all the lists that respect it (`Before`), an order's place in
each, and a request takes any of them, so that orders of equal total may change
places between two requests, as in Postgres. `createdAt` is taken as different
for any two orders. A page holds the places between `skip` and `skip + take`.
`disturbed` notes that loads
overlapped, used an older query, or that the widget was not told of an operation.

### Retention

`row`, `current` and `charge` are an order, its current payment and what
YooKassa has of it; `linked` says who was given the link. `cleanup` is the
command, with what it read (`read`) and the order it is about to delete
(`order`). `touched` are the orders that a checkout or an admin changed since the
command read them. The shop around the command is coarse; `Payments` has its
steps. Left out: comments, telegrams and the errors of jobs.

### TokenCache and Backup

A token is known by the time it dies at. `TokenCacheAssumption` says what
`cdek.api.ts` relies on: the margin of 60 s is wide enough for the request for a
token and the request that uses it, of at most 10 s each.

In `Backup` a script is a process with a step. `knows` are the scripts whose
variable `SERVICES_STOPPED` is 1, `container` the version that the containers
were made from. `broken` notes what the scripts cannot undo: that two overlapped,
that docker failed, or that a deployment failed after its backup. A script that
is killed, or a host that goes down, runs no trap and is not modelled.

## Runs

Constants not named are sets of model values; `expect` is in `PROJECT.json`.

| Run | Instance | Shows |
| --- | --- | --- |
| `payments_concurrent` | 1 key, 2 payments, 2 requests of any kind, overlapping | `RacesInv`, `PaidOrderWasCharged`, `LocalOutcomeIsReal`, `TwoLinksNeedARace`, `ChargedAloneIsCurrent`, `ImplementsLifecycle` |
| `payments_live` | 1 key, 1 payment, 2 requests, 1 death, fairness | `ChargeIsRecorded` |
| `payments_duplicate` | overlapping checkouts | violates `OnePayablePayment` |
| `payments_failed` | 1 payment, 1 request | violates `FailedIsExplicit` |
| `payments_stale_hook` | a webhook beside a checkout | violates `StaleWebhookIgnored` |
| `shipments_calls` | 1 order, 2 ids, 2 calls, 1 lost call, 1 death, fairness | `SafeInv`, `OneRegistrar`, `CreatedIsRegistered`, `EmailHasNumber`, `OneLiveWhileAnswered`, `ImplementsParcels`, `LockIsReleased` |
| `shipments_duplicate` | 1 lost call | violates `OneLiveShipment` |
| `shipments_no_email` | fairness | violates `CreatedIsEmailed` |
| `notifications_workers` | emails: 2 jobs, 2 workers, 1 loss, 1 expiry under a worker, 1 death | `MailInv`, `OneWorkerPerJob`, `SentWasMailed`, `OneMailPerOrder` |
| | checkout: 1 item up to 2 times, 1 city, 2 attempt keys, 2 requests, 1 reload | `CheckoutInv`, `OfficeTakesTheParcels`, `OrderIsWhatWasSubmitted`, `SubmittedOnce` |
| | images: 2 items, 2 files, 2 requests, positions up to 3 | `ImagesInv`, `RowHasItsFile`, `PositionsDistinct` |
| `notifications_single` | emails: 2 jobs, 1 worker, fairness, 1 loss, 1 death | `SiteInv`, `ImplementsOutbox`, `EveryJobEnds` |
| | layers: 2 objects, 3 events, fairness | `SiteInv`, `StackIsSound`, `StaysInStep`, `ComesToRest` |
| | admin: 3 orders on pages of 2, two of one total, 3 events, 2 loads, fairness | `SiteInv`, `TableSettles` |
| | retention: 1 order | `RetentionInv`, `NothingPaidIsDeleted` |
| | token: 2 callers, 12 units of time | `SiteInv`, `NoDeadToken` |
| | scripts: 2 deployments, 1 write | `BackupInv`, `SnapshotIsConsistent`, `ServicesComeBack`, `RunningCodeFitsSchema` |
| `layers_stranded` | layers: 2 objects, 2 events | violates `PathRestoresLayers` |
| `notifications_attempts` | 1 job, 1 worker, 1 death | violates `AtMostThreeAttempts` |

`MCStorefront` and `MCSite` check several parts in one run. The parts share no
state; the variable `part` is chosen once, the parts that are not chosen stay as
they begin, and the states of the parts add up instead of multiplying. Such a run
is several checks, not a composition: each property speaks of the part in whose
row the table has it, and holds in the others' behaviours because it holds at
their start.

The properties whose names end in `Inv` are the inductive invariants of the
proofs (with the types), checked here on the instances; `SiteInv` is those of the
parts that have none of their own in the table: what the outcomes of the one
worker rest on (`OutcomeInv`, which lets a worker hold a job that ended only after
a lost answer, `Misled`), `TokenInv`, the types of the layers, `AdminInv`.

A property whose name or definition carries a condition (`OneLiveWhileAnswered`:
no call to CDEK has failed; `OneWorkerPerJob`: `Undisturbed`) is checked in the
run with the faults and says nothing after the first of those it names; the
other faults, above all the deaths, are covered. In the same way
`PositionsDistinct` ends with the first overlap of two writers of an item,
`TableSettles` with `disturbed`; the contracts ask less once a call failed
(`answered` in `Parcels` and `Outbox`) or anything went wrong (`calm` in `Outbox`), and
what they ask then is what the code keeps through faults; the properties of
CheckoutRaces speak of the payments not in `raced`, also after others raced;
`NothingPaidIsDeleted` leaves out the orders in `touched`, and the properties of
`Backup` name in `broken` what they except.

The violation runs are disagreements between the code and what the README or a
test says of it; `PROJECT.json` quotes them under `findings`.

### Bounds

- Payments: `PaymentId` bounds the payments ever created and `Handler` the
  requests at once; `MaxFaults` the deaths, 1 in `payments_live` and 0 in
  `payments_concurrent`, where calls to YooKassa fail and time out but no request
  dies; the theorems about its properties hold for any number of deaths. Two
  payments of an order are enough for one to replace another, and two requests
  for every race of two: two
  checkouts, or a webhook or a status check beside one. A request that ended
  starts again as any other, so repetitions are not bounded.
- Shipments: two ids are enough for a duplicate; `PollAttempts` is 2 instead of
  4, which still has a poll that is not the last one; `MaxLost` and `MaxCrashes`
  bound the lost calls and the deaths.
- Notifications: two jobs, so that one can stand before the other; `MaxLost`,
  `MaxCrashes` as above. `MaxCounted` bounds the failures of a job: a mail is
  refused only while its job counts at most so many attempts. Without it two
  workers could hand a failing job to each other for ever, because the job is
  PENDING between the two updates of its third failure. In the run with fairness
  it is 6 and cannot be reached (three failures, one loss and one death).
- Checkout: `MaxCalls` bounds the requests awaited at once, `MaxKeys` the attempt
  keys, `MaxReloads` the page loads; that `TypeCity` waits for the others is a
  bound too. One item with quantities 0 to 2 gives carts that differ, two
  requests an answer that overtakes another, two keys a resubmission with other
  contents.
- Images: two requests overlap in every way that two can; two items let a
  deletion cascade beside an upload.
- Layers, AdminOrders: `MaxEvents` and `MaxActions` bound what the user does. A
  state of the layers is two or three events from any other. Three orders on pages
  of two, the two that a search finds of one total, make search, sorting and page
  change what is listed, and let equal totals change places across a page's end.
- Retention: one order, since the command handles each by itself and the shop
  never relates two. Its conditions need no counter: time passes by `DaysPass`.
- TokenCache: `MaxTime` is twice the life of a token; `Life`, `Margin` and
  `Timeout` have the proportions that matter, 2 * Timeout <= Margin < Life.
- Backup: two versions after the first, so that a failed deployment can be
  followed by another; one write, to tell dump from archive.
- The proofs have none of these bounds: they hold for every value of them.

### Assumptions of the deployment

- One worker in `notifications_single`: `docker-compose.prod.yml` starts one. The
  theorems that need it have it as a hypothesis (`OneWorker`).
- `OneWorkerPerJob` holds while `Undisturbed`. With one failed statement or a lock
  that expired under its worker it does not (`notification-job.service.ts` lines 64
  and 81).
- Nothing is assumed of the order in which a customer's requests arrive.

### Fairness

- A request that was accepted goes on (weak fairness of its steps): Node runs
  it as soon as its `await` is answered, and every provider call has a timeout.
- A request that keeps asking YooKassa is answered some time, and a notice is
  repeated until it is acknowledged (strong fairness, `Payments!Fairness`): this
  is what YooKassa promises for webhooks. `payments_live` needs both.
- The worker loops for ever and Docker restarts it (`restart: unless-stopped`);
  time passes, so a lock left behind gets old (`LockAges`).
- `LayersFairness`: React runs an effect that is due, and React Router completes
  a navigation. `AdminFairness`: the effect runs, and a request is answered or
  fails, as each has a timeout or a connection that ends.
- Nothing is assumed of customers, admins, or CDEK's later decisions.

## Proofs

All theorems hold for every value of the constants under the module's named
assumption (`None` is not an element of the sets it stands beside, the bounds
are natural numbers). A theorem with a further hypothesis states it.

| Theorem | Says |
| --- | --- |
| `PaymentsProofs!Invariance`, `TypeCorrect` | `IInv` and `TypeOK` are invariants of Payments |
| `PaymentsProofs!PaidOrderWasChargedTheorem` | an order is confirmed or about to be shipped only after a charge |
| `PaymentsProofs!LocalOutcomeIsRealTheorem` | SUCCEEDED and CANCELED rows are so at YooKassa |
| `PaymentsProofs!RacesInvariance` | `RacesInv`: links, current payments and checkouts agree on every payment that was made alone |
| `PaymentsProofs!TwoLinksNeedARaceTheorem` | of two links of an order that can be paid, one comes from checkouts that overlapped |
| `PaymentsProofs!ChargedAloneIsCurrentTheorem` | a charged payment that was made alone is the order's current one |
| `PaymentsProofs!Refinement` | Payments implements `OrderLifecycle` |
| `ShipmentsProofs!Invariance`, `Lock` | `IInv` of Shipments; one registrar per order |
| `ShipmentsProofs!CreatedIsRegisteredTheorem`, `EmailHasNumberTheorem` | what a CREATED row and an email job imply at CDEK |
| `ShipmentsProofs!SafeInvariance`, `OneLiveWhileAnsweredTheorem` | one live shipment per order until a call to CDEK is lost |
| `ShipmentsProofs!CreatedKeepsIdTheorem` | until a call to CDEK is lost no step takes or changes the id of a CREATED row |
| `ShipmentsProofs!Refinement` | Shipments implements `Parcels` |
| `NotificationsProofs!Invariance`, `SentWasMailedTheorem` | rows, queue and workers agree; SENT means accepted |
| `NotificationsProofs!OneWorkerPerJobTheorem` | exclusive claims while `Undisturbed`, whatever dies |
| `NotificationsProofs!MailInvariance`, `OneMailPerOrderTheorem` | at most one mail per order while `Undisturbed` and nobody died |
| `NotificationsProofs!OutcomeIsFinalTheorem` | with one worker no step reopens a job that FAILED, nor one that is SENT until an answer is lost |
| `NotificationsProofs!Refinement` | with one worker Notifications implements `Outbox` |
| `CheckoutProofs!CheckoutInvariance`, `CheckoutTypeCorrect` | `CheckoutInv` and the type invariant |
| `CheckoutProofs!OfficeTheorem` | the pickup point of an order was offered for its own items |
| `CheckoutProofs!OrderIsWhatWasSubmittedTheorem` | a key stands for one content |
| `CheckoutProofs!SubmittedOnceTheorem` | an unchanged form that is submitted again is no second order |
| `ImagesProofs!ImagesInvariance`, `RowHasItsFileTheorem` | `ImagesInv`; a row always has its file |
| `ImagesProofs!PositionsDistinctTheorem` | positions differ until two writers of an item overlap |
| `RetentionProofs!RetentionInvariance`, `NothingPaidTheorem` | nothing paid or payable is deleted, unless touched |
| `LayersProofs!LayersTypeCorrect`, `StackIsSoundTheorem` | the layers stay stacked |
| `LayersProofs!StaysInStepTheorem` | only a link to the rendered path takes layers and path out of step |
| `OperationsProofs!TokenInvariance`, `NoDeadTokenTheorem` | no request carries a dead token |
| `OperationsProofs!BackupInvariance`, `SnapshotTheorem`, `ServicesComeBackTheorem`, `RunningCodeFitsSchemaTheorem` | what the scripts promise while they do not overlap |
| `OperationsProofs!AdminInvariance`, `TableIsCurrentTheorem` | an admin's table at rest shows what is selected, as the database holds it, unless disturbed |
| `OperationsProofs!PagesTheorem` | sorted by `createdAt`, every order that a search finds is on exactly one page, each page asked by itself |
| `OperationsProofs!SiteInvariance` | every part of `MCSite` keeps its invariant, whichever part runs |

The argument is the same throughout: a property speaks of rows, but
rows are written from what a process read earlier, so the invariant must say
what a process may still rely on at each step.

- In Payments `HandlerInv` says that an answer of YooKassa that is final stays
  true, so writing it late does no harm, and that a handler that goes to
  `markRead` knows of a charge; charges are never undone.
- `TwoLinksNeedARace` needs to know what a checkout in progress will do with the
  link that the customer already has. `LinkInv` says that a payment made alone
  that can still be paid is the order's current one and looks reusable to the next
  checkout; `SessionInv`, that a checkout that is past that look
  (`resolveCheckoutPayment`) found nothing alive that was made alone, and still owns
  the current payment unless it has met another. Whoever could disturb the second
  is a checkout about to make a payment of its own, and meeting one puts the payment
  in `raced` in that very step (`Racing`). Without that condition the statement is
  `OnePayablePayment`, which `payments_duplicate` shows false.
- In Shipments the lock is held by a call in `create`, `save` or `fail`
  (`Registering`). It is taken by inserting the unique row or by a claim that
  needs FAILED; so while somebody registers the row must not be FAILED
  (`CallInv`). A call that polls has an id in the row, which excludes a
  registrar (`LockInv`). What is known of CDEK only grows, whatever
  calls are interrupted.
- `OneLiveWhileAnswered` counts shipments at CDEK, where the lock counts calls.
  `OnceInv` closes the gap: behind a row that may be taken (absent or FAILED),
  and behind a call that has yet to register, there is no registration, neither
  at CDEK nor on its way. A death leaves the row where nobody may take it,
  therefore it does no harm; a lost answer makes the row FAILED with a
  registration behind it, therefore the condition.
- `Parcels` follows from `SafeInv`: a registration is of an id CDEK has not given
  before and, while nothing is lost, for an order with nothing behind it
  (`OnceInv`); a row becomes CREATED with an id that CDEK has for its order, and
  loses it only to a call that decided on an older state, which needs a lost call.
  Every write of a row is one lemma (`RowMaps`), every registration, by a call that
  waits or that gave up, another (`RegistrationMaps`).
- In Notifications `ClaimInv` says that a job being worked on is PROCESSING with
  a lock in force, or FAILED, so that neither `Claim` nor `Requeue` can hand it
  to another worker. FAILED is needed: a worker that dies slowly in `giveUp` may
  mark a job that another has claimed since. It rests on statements that
  do not fail, because a failed claim puts the job back to PENDING without
  holding it.
- `OneMailPerOrder` adds that a job which is PENDING, or in the hands of a worker
  that has yet to send or whose mail was refused, has no mail behind it
  (`MailsInv`). `OutcomeIsFinal` has another reason, the single worker, and so
  another invariant (`OutcomeInv`): the lock is on PROCESSING rows only, which
  confines `Requeue`, and a worker that is past its claim holds a job that has
  not ended, unless it did not hear that SENT was stored (`Misled`), from where its
  only way is `markNotificationJobFailed`. With `MailsInv` it carries the
  refinement of `Outbox`: what the worker holds is open, so that a mail and an
  outcome are steps of an open entry, and a
  refused mail leaves none behind when the job is given up.
- In Checkout a key is drawn only for a form that differs from the last one
  submitted in this page load, and the store keeps the last key until the reload.
  `VisitsFit` says so of all attempts, under way or ordered: consecutive ones of one
  load differ, and none of the load exists without a key in the form.
- In Images the order of the steps is the argument. An upload has its file before
  its row and a deletion drops its row before its file (`RequestInv`); no two
  requests share a file that has no row yet (`PairInv`), so no deletion can reach
  the file of an upload. Positions are written from what was read earlier: while
  an item has one writer, only deletions come in between, and they free positions
  without giving any (`ReadInv`). That the next position is free is a lemma about
  `nextPosition` (`NextPositionIsFree`), with the existence of a greatest
  position of a bounded set.
- In Layers a sound stack is one of six, and for each `getLayersByPath` after
  `getPathByState` gives it back (`PathRoundTrip`). Whatever changes the layers, or
  renders another path, makes the effect due, and the effect leaves the two equal or
  navigates; `InStep` names these three, and is lost only if the navigation is
  replaced by one to the rendered path.
- In AdminOrders what the table shows was read by a load that began earlier.
  `TableInv` follows it: undisturbed there is one load at most, for the query of the
  controls unless the effect is due, and its answer is what the database holds, or
  was until a change whose handler is about to load again (`Reload`).
- A place lies between the bounds of one page only (`PageArithmetic`), so the pages
  of one list hold each order once (`OnePageEach`). Each page comes from a list of
  its own; by `createdAt` there is only one, as an order's place is the number of
  orders before it (`PlaceIsRank`). By the total there is no such theorem.
- In MCSite a step is one part's or none's; each invariant is kept by its own
  part's step and by the others, which leave its variables alone (`PartsStep`).

Only model-checked is what needs fairness (`ChargeIsRecorded`, `LockIsReleased`,
`EveryJobEnds`, `ComesToRest`, `TableSettles`): liveness is out of the prover's
reach. For `TableSettles` the safe half is `TableIsCurrentTheorem`. Every other
property of a run that passes is stated by a theorem. `CreatedKeepsId` and
`OutcomeIsFinal` are theorems only: the contracts, which runs check, ask for them
among other things.

## Plan

Done: Payments with OrderLifecycle, Shipments with Parcels, Notifications with
Outbox, Checkout, Images, Layers, AdminOrders, Retention, TokenCache, Backup, and
the proofs above. Possible next, in this order:

1. `Shop`: Payments' step `ship` replaced by the calls of Shipments, and jobs
   handed to Notifications; the components shown to implement their contracts in
   it, on one order.
2. Retention beside the steps of Payments instead of its coarse shop.

## Not modelled

- Authentication: a token is checked per request and nothing is kept.
- Validation of input, sanitizing of file names: pure checks of strings; the
  models start from inputs that passed.
- `buildCdekPackagesFromOrderItems`, `buildCdekShipmentRegistrationBody` and the
  sums of `prepareOrderItems`: maps and sums over the items of an order that keep
  no state. A model of them would repeat them line by line.
- `changeItem`: one statement on columns that no other part reads back.
- The clearing of comments, telegrams and job errors by the cleanup.
- Configuration, logging, presentation, legal texts.
