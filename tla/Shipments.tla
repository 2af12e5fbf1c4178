------------------------------ MODULE Shipments ------------------------------
(***************************************************************************)
(* Registering the shipment of a paid order at CDEK, exactly once: the     *)
(* calls of createCdekShipmentForPaidOrder (cdek.service) that a webhook,  *)
(* a status check and the admin's retry make for one order at the same     *)
(* time, the lookup that restores a shipment CDEK already has, the polling *)
(* for its tracking number, and CDEK itself.                               *)
(*                                                                         *)
(* As in Payments, a handler runs without interruption from one await to   *)
(* the next.  The Shipment row of the order is the lock: who inserts it,   *)
(* or turns it from FAILED back to PENDING, may register at CDEK.          *)
(***************************************************************************)
EXTENDS Naturals, ShopTypes

CONSTANTS
  Order,         \* orders whose current payment succeeded
  Uuid,          \* ids CDEK may hand out (a bound)
  Handler,       \* calls in progress at the same time (a bound)
  None,          \* SQL NULL
  PollAttempts,  \* CDEK_SHIPMENT_POLL_ATTEMPTS
  MaxLost,       \* how many calls to CDEK, or writes of what it said, may fail (a bound)
  MaxCrashes     \* how many calls may die half-way (a bound)

ASSUME ShipmentsAssumption ==
  /\ None \notin Order
  /\ None \notin Uuid
  /\ PollAttempts \in Nat \ {0}
  /\ MaxLost \in Nat
  /\ MaxCrashes \in Nat

VARIABLES
  order,     \* Order.status
  shipment,  \* Shipment rows by orderId
  jobs,      \* orders with a SHIPMENT_CREATED_EMAIL job
  remote,    \* what CDEK keeps under each id
  late,      \* registrations given up by their caller that may still arrive
  handler,   \* the calls in progress
  lost,      \* failed calls so far
  crashes    \* calls that died so far

vars == <<order, shipment, jobs, remote, late, handler, lost, crashes>>

-------------------------------------------------------------------------------
\* The code never stores CANCELED, IN_TRANSIT, READY_FOR_PICKUP or DELIVERED.
ShipmentStatus == {"PENDING", "CREATED", "FAILED"}

Shipment == [status: ShipmentStatus \cup {"absent"}, id: Uuid \cup {None},
             tracking: Uuid \cup {None}]   \* whose number trackingNumber is

\* A shipment CDEK accepted gets a number, or turns out invalid, later.
Remote == [order: Order \cup {None},
           status: {"absent", "accepted", "invalid", "removed"},
           numbered: BOOLEAN]

Step == {"idle", "insert", "restore", "restoreRow", "restoreOrder", "claim",
         "create", "save", "fail", "poll", "pollRow", "pollOrder", "enqueue"}

\* A call remembers the id it works with and the number CDEK answered.
Call == [pc: Step, order: Order \cup {None}, id: Uuid \cup {None},
         tracking: Uuid \cup {None}, polls: 0..(PollAttempts - 1)]

Idle       == [pc |-> "idle", order |-> None, id |-> None, tracking |-> None,
               polls |-> 0]
NoShipment == [status |-> "absent", id |-> None, tracking |-> None]
NoRemote   == [order |-> None, status |-> "absent", numbered |-> FALSE]

\* The row an insert or a claim leaves: locked, and nothing registered yet.
Locked == [NoShipment EXCEPT !.status = "PENDING"]

TypeOK ==
  /\ order \in [Order -> OrderStatus]
  /\ shipment \in [Order -> Shipment]
  /\ jobs \subseteq Order
  /\ remote \in [Uuid -> Remote]
  /\ late \subseteq Order \X (1..(MaxLost + MaxCrashes))
  /\ handler \in [Handler -> Call]
  /\ lost \in 0..MaxLost
  /\ crashes \in 0..MaxCrashes

Init ==
  /\ order = [o \in Order |-> "PAID"]
  /\ shipment = [o \in Order |-> NoShipment]
  /\ jobs = {}
  /\ remote = [u \in Uuid |-> NoRemote]
  /\ late = {}
  /\ handler = [h \in Handler |-> Idle]
  /\ lost = 0
  /\ crashes = 0

-------------------------------------------------------------------------------
At(h, pc) == handler[h].pc = pc

Become(h, call) == handler' = [handler EXCEPT ![h] = call]

Goto(h, pc) == handler' = [handler EXCEPT ![h].pc = pc]

Row(h) == shipment[handler[h].order]

\* A handler moves on and only its own state changes.
Only(step) ==
  step /\ UNCHANGED <<order, shipment, jobs, remote, late, lost, crashes>>

LosesCall == lost < MaxLost /\ lost' = lost + 1

\* A registration nobody waits for any more.
Abandoned(h) == <<handler[h].order, lost + crashes + 1>>

-------------------------------------------------------------------------------
\* createCdekShipmentForPaidOrder

\* What a call that found the order's row goes on to do: nothing for one that
\* is CREATED or that somebody else registers, else poll, or try again.
Decide(h, o) ==
  LET row == shipment[o]
      next(pc) == Become(h, [Idle EXCEPT !.pc = pc, !.order = o, !.id = row.id])
  IN  \/ row.status = "CREATED" /\ Become(h, Idle)
      \/ row.status = "PENDING" /\ row.id # None /\ next("poll")
      \/ row.status = "PENDING" /\ row.id = None /\ Become(h, Idle)
      \/ row.status = "FAILED" /\ next("restore")

CallFindsNone(h, o) ==
  /\ At(h, "idle") /\ shipment[o].status = "absent"
  /\ Only(Become(h, [Idle EXCEPT !.pc = "insert", !.order = o]))

CallFindsRow(h, o) ==
  /\ At(h, "idle") /\ shipment[o].status # "absent"
  /\ Only(Decide(h, o))

Insert(h) ==
  /\ At(h, "insert") /\ Row(h).status = "absent"
  /\ shipment' = [shipment EXCEPT ![handler[h].order] = Locked]
  /\ Goto(h, "create")
  /\ UNCHANGED <<order, jobs, remote, late, lost, crashes>>

\* Mutant: who loses the race to insert registers the shipment all the same.
InsertConflictCreates(h) ==
  /\ At(h, "insert") /\ Row(h).status # "absent"
  /\ Only(Goto(h, "create"))

\* P2002: the row of the winner is read again.
InsertConflict(h) ==
  /\ At(h, "insert") /\ Row(h).status # "absent"
  /\ Only(Decide(h, handler[h].order))

-------------------------------------------------------------------------------
\* restoreShipmentFromCdekIfExists

Live(u) == remote[u].status = "accepted"

RemotesOf(o) == {u \in Uuid : remote[u].order = o}

\* CDEK is asked for the order's number and may answer with any shipment of it.
RestoreFinds(h, u) ==
  /\ At(h, "restore")
  /\ u \in RemotesOf(handler[h].order) /\ Live(u)
  /\ Only(Become(h, [handler[h] EXCEPT
            !.pc = "restoreRow", !.id = u,
            !.tracking = IF remote[u].numbered THEN u ELSE None]))

RestoreMisses(h) ==
  /\ At(h, "restore")
  /\ \/ RemotesOf(handler[h].order) = {}
     \/ \E u \in RemotesOf(handler[h].order) : ~Live(u)
  /\ Only(Goto(h, "claim"))

\* An error of the lookup counts as "CDEK has none".
RestoreLookupFails(h) ==
  /\ At(h, "restore") /\ LosesCall
  /\ Goto(h, "claim")
  /\ UNCHANGED <<order, shipment, jobs, remote, late, crashes>>

\* Mutant: the row is revived without the id CDEK gave.
RestoreRowWithoutId(h) ==
  /\ At(h, "restoreRow")
  /\ shipment' = [shipment EXCEPT ![handler[h].order].status = "CREATED"]
  /\ Goto(h, "restoreOrder")
  /\ UNCHANGED <<order, jobs, remote, late, lost, crashes>>

RestoreRow(h) ==
  /\ At(h, "restoreRow")
  /\ shipment' = [shipment EXCEPT ![handler[h].order] =
                    [status |-> "CREATED", id |-> handler[h].id,
                     tracking |-> handler[h].tracking]]
  /\ Goto(h, "restoreOrder")
  /\ UNCHANGED <<order, jobs, remote, late, lost, crashes>>

AwaitFulfilment(h) ==
  order' = [order EXCEPT ![handler[h].order] = "FULFILLMENT_PENDING"]

\* No email is enqueued on this path.
RestoreOrder(h) ==
  /\ At(h, "restoreOrder")
  /\ AwaitFulfilment(h)
  /\ Become(h, Idle)
  /\ UNCHANGED <<shipment, jobs, remote, late, lost, crashes>>

-------------------------------------------------------------------------------
\* Claiming a failed row, registering, and what becomes of it

\* Mutant: the claim forgets to ask that the row is still FAILED.
ClaimAnyway(h) ==
  /\ At(h, "claim")
  /\ shipment' = [shipment EXCEPT ![handler[h].order] = Locked]
  /\ Goto(h, "create")
  /\ UNCHANGED <<order, jobs, remote, late, lost, crashes>>

Claim(h) ==
  /\ At(h, "claim") /\ Row(h).status = "FAILED"
  /\ shipment' = [shipment EXCEPT ![handler[h].order] = Locked]
  /\ Goto(h, "create")
  /\ UNCHANGED <<order, jobs, remote, late, lost, crashes>>

ClaimIsLost(h) ==
  /\ At(h, "claim") /\ Row(h).status # "FAILED"
  /\ Only(Become(h, Idle))

Registered(o) == [order |-> o, status |-> "accepted", numbered |-> FALSE]

\* createCdekOrder is answered with an id ...
CdekRegisters(h, u) ==
  /\ At(h, "create") /\ remote[u].status = "absent"
  /\ remote' = [remote EXCEPT ![u] = Registered(handler[h].order)]
  /\ Become(h, [handler[h] EXCEPT !.pc = "save", !.id = u])
  /\ UNCHANGED <<order, shipment, jobs, late, lost, crashes>>

\* ... or refuses it, with errors or an HTTP error ...
CdekRejects(h) ==
  /\ At(h, "create")
  /\ Only(Goto(h, "fail"))

\* ... or too late: the request is aborted after CDEK_REQUEST_TIMEOUT_MS.  An HTTP
\* error of a gateway, behind which CDEK has taken or will take the registration,
\* counts as a lost call too.
CreateIsLost(h) ==
  /\ At(h, "create") /\ LosesCall
  /\ late' = late \cup {Abandoned(h)}
  /\ Goto(h, "fail")
  /\ UNCHANGED <<order, shipment, jobs, remote, crashes>>

Save(h) ==
  /\ At(h, "save")
  /\ shipment' = [shipment EXCEPT ![handler[h].order].id = handler[h].id]
  /\ Goto(h, "poll")
  /\ UNCHANGED <<order, jobs, remote, late, lost, crashes>>

\* The update fails inside the try block.
SaveFails(h) ==
  /\ At(h, "save") /\ LosesCall
  /\ Goto(h, "fail")
  /\ UNCHANGED <<order, shipment, jobs, remote, late, crashes>>

\* Mutant: the error is passed on and the row left as it is.
FailUnrecorded(h) ==
  /\ At(h, "fail")
  /\ Only(Become(h, Idle))

Fail(h) ==
  /\ At(h, "fail")
  /\ shipment' = [shipment EXCEPT ![handler[h].order].status = "FAILED"]
  /\ Become(h, Idle)
  /\ UNCHANGED <<order, jobs, remote, late, lost, crashes>>

-------------------------------------------------------------------------------
\* waitForCdekShipment

\* Mutant: a shipment counts as confirmed before CDEK numbered it.
NumberKnownEarly(u) == remote[u].status # "invalid"
NumberKnown(u) == remote[u].numbered /\ remote[u].status # "invalid"

PollNumbered(h) ==
  /\ At(h, "poll") /\ NumberKnown(handler[h].id)
  /\ Only(Become(h, [handler[h] EXCEPT !.pc = "pollRow", !.tracking = handler[h].id]))

\* INVALID is thrown to the caller, past the catch that would mark the row.
PollInvalid(h) ==
  /\ At(h, "poll") /\ remote[handler[h].id].status = "invalid"
  /\ Only(Become(h, Idle))

\* No number yet, or no answer, which the poll takes for the same.
PollAgain(h) ==
  /\ At(h, "poll")
  /\ Only(IF handler[h].polls + 1 < PollAttempts
          THEN Become(h, [handler[h] EXCEPT !.polls = @ + 1])
          ELSE Become(h, Idle))

PollRow(h) ==
  /\ At(h, "pollRow")
  /\ shipment' = [shipment EXCEPT ![handler[h].order].status = "CREATED",
                                  ![handler[h].order].tracking = handler[h].tracking]
  /\ Goto(h, "pollOrder")
  /\ UNCHANGED <<order, jobs, remote, late, lost, crashes>>

PollOrder(h) ==
  /\ At(h, "pollOrder")
  /\ AwaitFulfilment(h)
  /\ Goto(h, "enqueue")
  /\ UNCHANGED <<shipment, jobs, remote, late, lost, crashes>>

\* enqueueShipmentCreatedEmail: an upsert that leaves an existing job alone.
Enqueue(h) ==
  /\ At(h, "enqueue")
  /\ jobs' = jobs \cup {handler[h].order}
  /\ Become(h, Idle)
  /\ UNCHANGED <<order, shipment, remote, late, lost, crashes>>

-------------------------------------------------------------------------------
\* CDEK, the admin, and crashes

CdekRegistersLate(o, n, u) ==
  /\ <<o, n>> \in late /\ remote[u].status = "absent"
  /\ late' = late \ {<<o, n>>}
  /\ remote' = [remote EXCEPT ![u] = Registered(o)]
  /\ UNCHANGED <<order, shipment, jobs, handler, lost, crashes>>

CdekDecides(u, result) ==
  /\ Live(u)
  /\ remote' = [remote EXCEPT ![u] = result]
  /\ UNCHANGED <<order, shipment, jobs, late, handler, lost, crashes>>

CdekNumbers(u) ==
  ~remote[u].numbered /\ CdekDecides(u, [remote[u] EXCEPT !.numbered = TRUE])

CdekInvalidates(u) ==
  ~remote[u].numbered /\ CdekDecides(u, [remote[u] EXCEPT !.status = "invalid"])

CdekRemoves(u) == CdekDecides(u, [remote[u] EXCEPT !.status = "removed"])

AdminUpdateStatus(o, s) ==
  /\ order' = [order EXCEPT ![o] = s]
  /\ UNCHANGED <<shipment, jobs, remote, late, handler, lost, crashes>>

\* The process or its database connection ends, or the order's data is refused
\* by buildCdekShipmentRegistrationBody, which throws outside the try block.
HandlerDies(h) ==
  /\ ~At(h, "idle") /\ crashes < MaxCrashes
  /\ crashes' = crashes + 1
  /\ late' = IF At(h, "create") THEN late \cup {Abandoned(h)} ELSE late
  /\ Become(h, Idle)
  /\ UNCHANGED <<order, shipment, jobs, remote, lost>>

-------------------------------------------------------------------------------
\* What a call does until it returns.
Continue(h) ==
  \/ Insert(h) \/ InsertConflict(h)
  \/ RestoreMisses(h) \/ RestoreLookupFails(h) \/ RestoreRow(h) \/ RestoreOrder(h)
  \/ Claim(h) \/ ClaimIsLost(h)
  \/ CdekRejects(h) \/ CreateIsLost(h) \/ Save(h) \/ SaveFails(h) \/ Fail(h)
  \/ PollNumbered(h) \/ PollInvalid(h) \/ PollAgain(h)
  \/ PollRow(h) \/ PollOrder(h) \/ Enqueue(h)
  \/ \E u \in Uuid : RestoreFinds(h, u) \/ CdekRegisters(h, u)

Next ==
  \/ \E h \in Handler :
       \/ Continue(h)
       \/ HandlerDies(h)
       \/ \E o \in Order : CallFindsNone(h, o) \/ CallFindsRow(h, o)
  \/ \E u \in Uuid :
       \/ CdekNumbers(u) \/ CdekInvalidates(u) \/ CdekRemoves(u)
       \/ \E o \in Order, n \in 1..(MaxLost + MaxCrashes) :
            CdekRegistersLate(o, n, u)
  \/ \E o \in Order, s \in {"SHIPPED", "DELIVERED", "CANCELLED"} :
       AdminUpdateStatus(o, s)

Spec == Init /\ [][Next]_vars

\* Node goes on with every call it accepted until it returns or dies.
FairSpec == Spec /\ \A h \in Handler : WF_vars(Continue(h))

-------------------------------------------------------------------------------
\* Properties

\* h holds the order's lock: it may register, or has to say how that ended.
Registering(h) == handler[h].pc \in {"create", "save", "fail"}

\* The unique orderId and the conditional claim are a lock: an order's shipment
\* is never registered by two calls at once, whoever of them fails or dies
\* (createCdekShipmentForPaidOrder).
OneRegistrar ==
  \A g, h \in Handler :
    /\ Registering(g) /\ Registering(h)
    /\ handler[g].order = handler[h].order
    => g = h

\* README: "repeated webhooks do not create duplicate shipments": an order has at
\* most one shipment at CDEK (createCdekShipmentForPaidOrder).
OneLiveShipment ==
  \A u, v \in Uuid :
    Live(u) /\ Live(v) /\ remote[u].order = remote[v].order => u = v

\* ... which holds while no call to CDEK fails: a repeated webhook, a status check
\* or a retry does not register the order again, whichever of them die.
OneLiveWhileAnswered == lost = 0 => OneLiveShipment

\* A row says CREATED only with the id of a shipment that CDEK keeps for this
\* order, and shows only numbers CDEK gave it, although rows are written from
\* answers read long before (restoreShipmentFromCdekIfExists, waitForCdekShipment).
CreatedIsRegistered ==
  \A o \in Order :
    LET row == shipment[o]
    IN  /\ row.status = "CREATED" => row.id \in RemotesOf(o)
        /\ row.tracking # None =>
             row.tracking \in RemotesOf(o) /\ remote[row.tracking].numbered

\* The customer is written to only about a shipment that has a number
\* (waitForCdekShipment, enqueueShipmentCreatedEmail).
EmailHasNumber ==
  \A o \in jobs : \E u \in RemotesOf(o) : remote[u].numbered

\* While no call to CDEK fails, a row that says CREATED keeps its status and its
\* shipment: calls that decided on an older state of the row neither reset it nor
\* point it elsewhere (the claim, restoreShipmentFromCdekIfExists).
CreatedKeepsId ==
  [][\A o \in Order :
       shipment[o].status = "CREATED" /\ lost' = 0 =>
         /\ shipment'[o].status = "CREATED"
         /\ shipment'[o].id = shipment[o].id]_vars

Contract == INSTANCE Parcels WITH
  parcels  <- [o \in Order |-> RemotesOf(o)],
  numbered <- {o \in Order : \E u \in RemotesOf(o) : remote[u].numbered},
  shown    <- [o \in Order |-> IF shipment[o].status = "CREATED" THEN shipment[o].id
                                ELSE None],
  told     <- jobs,
  answered <- (lost = 0)

\* Every step of the calls, of CDEK and of what they lose is a step of the contract
\* of Parcels, or none: one parcel per order, and a shown one that stays, until a
\* call to CDEK fails; a parcel that exists, and a number, always
\* (createCdekShipmentForPaidOrder, waitForCdekShipment).
ImplementsParcels == Contract!Spec

\* The lock is released: an order whose shipment is being registered gets an id
\* or a FAILED row that can be tried again, though CDEK answers late or never,
\* unless a call dies (the catch of createCdekShipmentForPaidOrder).
LockIsReleased ==
  \A o \in Order : shipment[o] = Locked ~> shipment[o] # Locked \/ crashes > 0

\* README: the backend "creates a CDEK shipment, and enqueues an email job".
CreatedIsEmailed ==
  \A o \in Order : shipment[o].status = "CREATED" ~> o \in jobs

-------------------------------------------------------------------------------
\* The inductive invariant behind OneRegistrar, CreatedIsRegistered and
\* EmailHasNumber

Polling(h) == handler[h].pc \in {"poll", "pollRow"}

RowInv(o) ==
  LET row == shipment[o]
  IN  /\ row.status = "absent" => row = NoShipment
      /\ row.status = "CREATED" => row.id # None
      /\ row.id # None => row.id \in RemotesOf(o)
      /\ row.tracking # None =>
           row.tracking \in RemotesOf(o) /\ remote[row.tracking].numbered

\* Who registers holds a row that is not FAILED; who polls, one with an id that
\* nobody registers; and what a call remembers of CDEK is still so.
CallInv(h) ==
  LET c   == handler[h]
      row == shipment[c.order]
  IN  /\ IF c.pc = "idle" THEN c = Idle ELSE c.order \in Order
      /\ c.pc \notin {"idle", "insert"} => row.status # "absent"
      /\ Registering(h) => row.status \in {"PENDING", "CREATED"}
      /\ Polling(h) => row.status \in {"PENDING", "CREATED"} /\ row.id # None
      /\ c.pc \in {"restoreRow", "save", "poll", "pollRow"} =>
           c.id \in RemotesOf(c.order)
      /\ c.tracking # None =>
           c.tracking \in RemotesOf(c.order) /\ remote[c.tracking].numbered
      /\ c.pc \in {"pollRow", "pollOrder", "enqueue"} => c.tracking # None

\* Nobody registers a shipment that somebody polls, or that has an id already.
LockInv ==
  \A g, h \in Handler :
    /\ Registering(g) /\ Polling(h) => handler[g].order # handler[h].order
    /\ Registering(g) => ~(/\ shipment[handler[g].order].status = "PENDING"
                           /\ shipment[handler[g].order].id # None)

IInv ==
  /\ TypeOK
  /\ \A o \in Order : RowInv(o)
  /\ \A h \in Handler : CallInv(h)
  /\ \A u \in Uuid : remote[u].status = "absent" <=> remote[u].order = None
  /\ OneRegistrar
  /\ LockInv
  /\ EmailHasNumber
-------------------------------------------------------------------------------
\* The inductive invariant behind OneLiveWhileAnswered and CreatedKeepsId

LateOf(o) == {n \in 1..(MaxLost + MaxCrashes) : <<o, n>> \in late}

\* Nothing of this order is at CDEK, or on its way there with nobody waiting.
Unspent(o) == RemotesOf(o) = {} /\ LateOf(o) = {}

\* One registration, or one on its way; and none of either while a call may still
\* send one: with the row free to be taken, or with the call that took it.
OnceInv(o) ==
  /\ \A u, v \in RemotesOf(o) : u = v
  /\ \A m, n \in LateOf(o) : m = n
  /\ RemotesOf(o) = {} \/ LateOf(o) = {}
  /\ shipment[o].status \in {"absent", "FAILED"} => Unspent(o)
  /\ \A h \in Handler :
       handler[h].order = o /\ handler[h].pc \in {"create", "fail"} => Unspent(o)

\* A row that is FAILED, or that nobody made, has nothing behind it at CDEK while
\* every call is answered, though calls may die anywhere: only an unanswered
\* registration, or a write that fails, lets a retry register the order twice
\* (the catch of createCdekShipmentForPaidOrder).
SafeInv == IInv /\ (lost = 0 => \A o \in Order : OnceInv(o))
===============================================================================
