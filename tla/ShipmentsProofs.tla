--------------------------- MODULE ShipmentsProofs ---------------------------
(***************************************************************************)
(* The Shipment row is a lock: IInv of module Shipments is an inductive    *)
(* invariant, and with it OneRegistrar, CreatedIsRegistered and            *)
(* EmailHasNumber hold for any number of orders, ids and calls, any number *)
(* of lost answers and any number of crashes.                              *)
(*                                                                         *)
(* Until a call to CDEK is lost SafeInv holds too: a registration is sent  *)
(* only by the call that took a row behind which there is nothing, so one  *)
(* order has one shipment, and a CREATED row keeps its id.                 *)
(*                                                                         *)
(* SafeInv carries the refinement of Parcels.  A write of one row shows,   *)
(* hides or leaves what is shown (RowMaps); a registration, in time or     *)
(* late, is a parcel of its order, and the only one while CDEK answers     *)
(* (RegistrationMaps); the other steps move within what the contract does  *)
(* not see.                                                                *)
(***************************************************************************)
EXTENDS Shipments, TLAPS

USE ShipmentsAssumption

\* CDEK never forgets whose shipment an id is, nor a number it gave.
Grows ==
  \A u \in Uuid : remote[u].status # "absent" =>
    /\ remote'[u].order = remote[u].order
    /\ remote[u].numbered => remote'[u].numbered

\* What the rows, the jobs and the other calls know of CDEK stays true.
LEMMA KnownStays ==
  ASSUME IInv, Grows, NEW o \in Order, NEW u \in RemotesOf(o)
  PROVE  /\ u \in RemotesOf(o)'
         /\ remote[u].numbered => remote'[u].numbered
<1>1. u \in Uuid /\ remote[u].order = o /\ remote[u].status # "absent"
  BY DEF IInv, RemotesOf
<1>. QED
  BY <1>1 DEF Grows, RemotesOf

LEMMA EmailStays ==
  ASSUME IInv, Grows, jobs' \subseteq jobs
  PROVE  EmailHasNumber'
<1>. SUFFICES ASSUME NEW o \in jobs
              PROVE  \E u \in RemotesOf(o)' : remote'[u].numbered
  BY DEF EmailHasNumber
<1>1. PICK u \in RemotesOf(o) : remote[u].numbered
  BY DEF IInv, EmailHasNumber
<1>2. o \in Order
  BY DEF IInv, TypeOK
<1>. QED
  BY <1>1, <1>2, KnownStays

LEMMA RowStays ==
  ASSUME IInv, Grows, NEW o \in Order, shipment'[o] = shipment[o]
  PROVE  RowInv(o)'
<1>1. RowInv(o)
  BY DEF IInv
<1>. QED
  BY <1>1, KnownStays DEF RowInv

\* A call that does not move keeps its invariant while its row does.
LEMMA CallStays ==
  ASSUME IInv, Grows, NEW h \in Handler, handler'[h] = handler[h],
         handler[h].order \in Order =>
           shipment'[handler[h].order] = shipment[handler[h].order]
  PROVE  CallInv(h)'
<1>1. CallInv(h) /\ handler[h] \in Call
  BY DEF IInv, TypeOK
<1>2. CASE handler[h].order \in Order
  <2>1. /\ handler[h].id \in RemotesOf(handler[h].order) =>
             handler[h].id \in RemotesOf(handler[h].order)'
        /\ handler[h].tracking \in RemotesOf(handler[h].order) =>
             /\ handler[h].tracking \in RemotesOf(handler[h].order)'
             /\ remote[handler[h].tracking].numbered =>
                  remote'[handler[h].tracking].numbered
    BY <1>2, KnownStays
  <2>. QED
    BY <1>1, <1>2, <2>1 DEF CallInv, Registering, Polling, RemotesOf
<1>3. CASE handler[h].order \notin Order
  BY <1>1, <1>3 DEF CallInv, Idle, Registering, Polling
<1>. QED
  BY <1>2, <1>3

\* Moves that leave the rows alone: enough to look at the call that moves.
LEMMA LocalStep ==
  ASSUME IInv, NEW h \in Handler, NEW c \in Call, Become(h, c),
         order' \in [Order -> OrderStatus],
         jobs' \subseteq jobs,
         late' \subseteq Order \X (1..(MaxLost + MaxCrashes)),
         lost' \in 0..MaxLost, crashes' \in 0..MaxCrashes,
         UNCHANGED <<shipment, remote>>,
         CallInv(h)',
         c.pc \in {"create", "save", "fail"} =>
           Registering(h) /\ c.order = handler[h].order,
         c.pc \in {"poll", "pollRow"} =>
           \A g \in Handler : Registering(g) /\ g # h => handler[g].order # c.order
  PROVE  IInv'
<1>1. /\ handler' \in [Handler -> Call] /\ handler'[h] = c
      /\ \A g \in Handler : g # h => handler'[g] = handler[g]
  BY DEF Become, IInv, TypeOK
<1>2. Grows
  BY DEF Grows
<1>3. TypeOK'
  BY <1>1 DEF IInv, TypeOK
<1>4. \A o \in Order : RowInv(o)'
  BY <1>2, RowStays
<1>5. \A g \in Handler : CallInv(g)'
  BY <1>1, <1>2, CallStays
<1>6. EmailHasNumber'
  BY <1>2, EmailStays
<1>7. \A g \in Handler :
         Registering(g)' => Registering(g) /\ handler'[g].order = handler[g].order
  BY <1>1 DEF Registering
<1>8. OneRegistrar'
  BY <1>7 DEF IInv, OneRegistrar
<1>9. LockInv'
  <2>. SUFFICES ASSUME NEW f \in Handler, NEW g \in Handler, Registering(f)'
                PROVE  /\ Polling(g)' => handler'[f].order # handler'[g].order
                       /\ ~(/\ shipment[handler'[f].order].status = "PENDING"
                            /\ shipment[handler'[f].order].id # None)
    BY DEF LockInv
  <2>1. CASE g = h
    BY <2>1, <1>1, <1>7 DEF IInv, LockInv, Registering, Polling
  <2>2. CASE g # h
    BY <2>2, <1>1, <1>7 DEF IInv, LockInv, Polling
  <2>. QED
    BY <2>1, <2>2
<1>. QED
  BY <1>3, <1>4, <1>5, <1>6, <1>8, <1>9 DEF IInv

LEMMA IdleCall == Idle \in Call
BY DEF Idle, Call, Step

\* A call that returns leaves nothing to check.
LEMMA Returns ==
  ASSUME IInv, NEW h \in Handler, Become(h, Idle),
         order' \in [Order -> OrderStatus],
         jobs' \subseteq jobs,
         late' \subseteq Order \X (1..(MaxLost + MaxCrashes)),
         lost' \in 0..MaxLost, crashes' \in 0..MaxCrashes,
         UNCHANGED <<shipment, remote>>
  PROVE  IInv'
<1>1. handler'[h] = Idle
  BY DEF Become, IInv, TypeOK
<1>2. CallInv(h)'
  BY <1>1 DEF CallInv, Idle, Registering, Polling
<1>. QED
  BY <1>2, IdleCall, LocalStep DEF Idle

\* What a call at work may rely on.
LEMMA AtWork ==
  ASSUME IInv, NEW h \in Handler, handler[h].pc # "idle"
  PROVE  /\ handler[h] \in Call /\ CallInv(h)
         /\ handler[h].order \in Order
         /\ shipment[handler[h].order] \in Shipment
BY DEF IInv, CallInv, TypeOK

LEMMA Moves ==
  ASSUME IInv, NEW h \in Handler, NEW c \in Call, Become(h, c)
  PROVE  /\ handler' \in [Handler -> Call]
         /\ handler'[h] = c
         /\ \A g \in Handler : g # h => handler'[g] = handler[g]
BY DEF Become, IInv, TypeOK

LEMMA GotoBecome ==
  ASSUME IInv, NEW h \in Handler, NEW pc \in Step, Goto(h, pc)
  PROVE  /\ [handler[h] EXCEPT !.pc = pc] \in Call
         /\ Become(h, [handler[h] EXCEPT !.pc = pc])
BY DEF Goto, Become, IInv, TypeOK, Call

-------------------------------------------------------------------------------
\* Steps that leave every row alone

LEMMA DecideInv ==
  ASSUME IInv, NEW h \in Handler, NEW o \in Order, shipment[o].status # "absent",
         Only(Decide(h, o))
  PROVE  IInv'
<1>1. UNCHANGED <<order, shipment, jobs, remote, late, lost, crashes>>
  BY DEF Only
<1>2. CASE Become(h, Idle)
  BY <1>1, <1>2, Returns DEF IInv, TypeOK
<1>3. ASSUME NEW pc \in {"poll", "restore"},
             Become(h, [Idle EXCEPT !.pc = pc, !.order = o, !.id = shipment[o].id]),
             pc = "poll" => shipment[o].status = "PENDING" /\ shipment[o].id # None
      PROVE  IInv'
  <2>. DEFINE c == [Idle EXCEPT !.pc = pc, !.order = o, !.id = shipment[o].id]
  <2>1. RowInv(o) /\ shipment[o] \in Shipment
    BY DEF IInv, TypeOK
  <2>2. c \in Call
    BY <2>1, IdleCall DEF Call, Step, Shipment
  <2>3. handler'[h] = c
    BY <1>3, <2>2, Moves
  <2>4. CallInv(h)'
    BY <1>1, <1>3, <2>1, <2>3 DEF CallInv, RowInv, Idle, Registering, Polling, RemotesOf
  <2>5. pc = "poll" =>
          \A g \in Handler : Registering(g) => handler[g].order # o
    BY <1>3 DEF IInv, LockInv
  <2>. QED
    BY <1>1, <1>3, <2>2, <2>4, <2>5, LocalStep DEF Idle, IInv, TypeOK
<1>. QED
  BY <1>2, <1>3 DEF Only, Decide

LEMMA CallInvoked ==
  ASSUME IInv, NEW h \in Handler, NEW o \in Order,
         CallFindsNone(h, o) \/ CallFindsRow(h, o)
  PROVE  IInv'
<1>1. CASE CallFindsRow(h, o)
  BY <1>1, DecideInv DEF CallFindsRow
<1>2. CASE CallFindsNone(h, o)
  <2>. DEFINE c == [Idle EXCEPT !.pc = "insert", !.order = o]
  <2>1. c \in Call /\ Become(h, c)
    BY <1>2, IdleCall DEF CallFindsNone, Only, Call, Step
  <2>2. handler'[h] = c
    BY <2>1, Moves
  <2>3. CallInv(h)'
    BY <2>2 DEF CallInv, Idle, Registering, Polling
  <2>. QED
    BY <1>2, <2>1, <2>3, LocalStep DEF CallFindsNone, Only, Idle, IInv, TypeOK
<1>. QED
  BY <1>1, <1>2

LEMMA ReturnInv ==
  ASSUME IInv, NEW h \in Handler,
         ClaimIsLost(h) \/ PollInvalid(h) \/ RestoreOrder(h) \/ HandlerDies(h)
  PROVE  IInv'
<1>1. ClaimIsLost(h) \/ PollInvalid(h) => IInv'
  BY Returns DEF ClaimIsLost, PollInvalid, Only, IInv, TypeOK
<1>2. CASE RestoreOrder(h)
  BY <1>2, Returns DEF RestoreOrder, AwaitFulfilment, OrderStatus, IInv, TypeOK
<1>3. CASE HandlerDies(h)
  <2>1. handler[h].order \in Order
    BY <1>3, AtWork DEF HandlerDies, At
  <2>2. late' \subseteq Order \X (1..(MaxLost + MaxCrashes))
    BY <1>3, <2>1 DEF HandlerDies, Abandoned, IInv, TypeOK
  <2>. QED
    BY <1>3, <2>2, Returns DEF HandlerDies, IInv, TypeOK
<1>. QED
  BY <1>1, <1>2, <1>3

\* The moves of a call that only change where it is.
LEMMA GotoInv ==
  ASSUME IInv, NEW h \in Handler,
         \/ RestoreMisses(h) \/ RestoreLookupFails(h) \/ CdekRejects(h)
         \/ CreateIsLost(h) \/ SaveFails(h) \/ PollOrder(h)
  PROVE  IInv'
<1>. DEFINE r == handler[h]
<1>1. PICK pc \in Step : Goto(h, pc) /\
        \/ r.pc = "restore" /\ pc = "claim"
        \/ r.pc \in {"create", "save"} /\ pc = "fail"
        \/ r.pc = "pollOrder" /\ pc = "enqueue"
  BY DEF RestoreMisses, RestoreLookupFails, CdekRejects, CreateIsLost, SaveFails,
         PollOrder, Only, At, Step
<1>2. /\ r \in Call /\ CallInv(h) /\ r.order \in Order
  BY <1>1, AtWork
<1>. DEFINE c == [r EXCEPT !.pc = pc]
<1>3. c \in Call /\ Become(h, c) /\ c.pc = pc /\ c.order = r.order
  BY <1>1, <1>2, GotoBecome DEF Call
<1>4. /\ UNCHANGED <<shipment, jobs, remote>>
      /\ order' \in [Order -> OrderStatus]
      /\ lost' \in 0..MaxLost /\ crashes' \in 0..MaxCrashes
  BY <1>2 DEF RestoreMisses, RestoreLookupFails, CdekRejects, CreateIsLost, SaveFails,
         PollOrder, Only, LosesCall, AwaitFulfilment, OrderStatus, IInv, TypeOK
<1>5. late' \subseteq Order \X (1..(MaxLost + MaxCrashes))
  <2>1. CASE CreateIsLost(h)
    BY <2>1, <1>2 DEF CreateIsLost, LosesCall, Abandoned, IInv, TypeOK
  <2>2. CASE ~CreateIsLost(h)
    BY <2>2 DEF RestoreMisses, RestoreLookupFails, CdekRejects, SaveFails,
                PollOrder, Only, IInv, TypeOK
  <2>. QED
    BY <2>1, <2>2
<1>6. handler'[h] = c
  BY <1>3, Moves
<1>7. CallInv(h)'
  BY <1>1, <1>2, <1>4, <1>6 DEF CallInv, Call, Registering, Polling, RemotesOf
<1>. QED
  BY <1>1, <1>3, <1>4, <1>5, <1>7, LocalStep DEF Registering

\* CDEK's answers to a lookup or a poll.
LEMMA AnswerInv ==
  ASSUME IInv, NEW h \in Handler,
         \/ PollNumbered(h) \/ PollAgain(h)
         \/ \E u \in Uuid : RestoreFinds(h, u)
  PROVE  IInv'
<1>. DEFINE r == handler[h]
<1>1. /\ r.pc \in {"poll", "restore"}
      /\ UNCHANGED <<order, shipment, jobs, remote, late, lost, crashes>>
  BY DEF PollNumbered, PollAgain, RestoreFinds, Only, At
<1>2. /\ r \in Call /\ CallInv(h) /\ r.order \in Order
  BY <1>1, AtWork
<1>3. CASE Become(h, Idle)
  BY <1>1, <1>3, Returns DEF IInv, TypeOK
<1>4. ASSUME NEW c \in Call, Become(h, c), c.order = r.order,
             c.pc \in {"poll", "pollRow", "restoreRow"},
             c.pc \in {"poll", "pollRow"} => r.pc = "poll",
             c.id \in RemotesOf(r.order),
             c.tracking # None =>
               c.tracking \in RemotesOf(r.order) /\ remote[c.tracking].numbered,
             c.pc = "pollRow" => c.tracking # None
      PROVE  IInv'
  <2>1. handler'[h] = c
    BY <1>4, Moves
  <2>2. CallInv(h)'
    BY <1>1, <1>2, <1>4, <2>1 DEF CallInv, Registering, Polling, RemotesOf
  <2>3. r.pc = "poll" =>
          \A g \in Handler : Registering(g) => handler[g].order # r.order
    BY DEF IInv, LockInv, Polling
  <2>. QED
    BY <1>1, <1>4, <2>2, <2>3, LocalStep DEF IInv, TypeOK
<1>5. CASE PollAgain(h)
  <2>1. CASE r.polls + 1 < PollAttempts
    <3>. DEFINE c == [r EXCEPT !.polls = @ + 1]
    <3>1. c \in Call
      BY <1>2, <2>1 DEF Call
    <3>2. /\ Become(h, c) /\ c.order = r.order /\ c.id = r.id
          /\ c.tracking = r.tracking /\ c.pc = r.pc /\ r.pc = "poll"
      BY <1>2, <1>5, <2>1 DEF PollAgain, Only, At, Call
    <3>. QED
      BY <1>2, <1>4, <3>1, <3>2 DEF CallInv
  <2>2. CASE ~(r.polls + 1 < PollAttempts)
    BY <1>3, <1>5, <2>2 DEF PollAgain, Only
  <2>. QED
    BY <2>1, <2>2
<1>6. CASE PollNumbered(h)
  <2>. DEFINE c == [r EXCEPT !.pc = "pollRow", !.tracking = r.id]
  <2>1. /\ Become(h, c) /\ r.pc = "poll" /\ remote[r.id].numbered
        /\ r.id \in RemotesOf(r.order)
    BY <1>2, <1>6 DEF PollNumbered, NumberKnown, Only, At, CallInv
  <2>2. c \in Call /\ c.order = r.order /\ c.id = r.id /\ c.tracking = r.id
        /\ c.pc = "pollRow" /\ r.id # None
    BY <1>2, <2>1 DEF Call, Step, RemotesOf
  <2>. QED
    BY <1>4, <2>1, <2>2
<1>7. ASSUME NEW u \in Uuid, RestoreFinds(h, u) PROVE IInv'
  <2>. DEFINE t == IF remote[u].numbered THEN u ELSE None
              c == [r EXCEPT !.pc = "restoreRow", !.id = u, !.tracking = t]
  <2>1. Become(h, c) /\ u \in RemotesOf(r.order)
    BY <1>7 DEF RestoreFinds, Only
  <2>2. c \in Call /\ c.order = r.order /\ c.id = u /\ c.tracking = t
        /\ c.pc = "restoreRow"
    BY <1>2, <2>1 DEF Call, Step
  <2>. QED
    BY <1>4, <2>1, <2>2
<1>. QED
  BY <1>5, <1>6, <1>7

LEMMA EnqueueInv ==
  ASSUME IInv, NEW h \in Handler, Enqueue(h)
  PROVE  IInv'
<1>. DEFINE r == handler[h]
<1>1. /\ r.order \in Order /\ r.tracking \in RemotesOf(r.order)
      /\ remote[r.tracking].numbered
  BY AtWork DEF Enqueue, At, CallInv
<1>2. /\ Become(h, Idle) /\ jobs' = jobs \cup {r.order}
      /\ UNCHANGED <<order, shipment, remote, late, lost, crashes>>
  BY DEF Enqueue
<1>3. EmailHasNumber'
  BY <1>1, <1>2 DEF EmailHasNumber, IInv, RemotesOf
<1>4. handler' = [handler EXCEPT ![h] = Idle] /\ handler[h] \in Call
  BY <1>2 DEF Become, IInv, TypeOK
<1>5. TypeOK'
  BY <1>1, <1>2, <1>4, IdleCall DEF IInv, TypeOK
<1>6. \A g \in Handler : handler'[g] = IF g = h THEN Idle ELSE handler[g]
  BY <1>4 DEF IInv, TypeOK
<1>7. \A g \in Handler : CallInv(g)'
  BY <1>2, <1>6 DEF IInv, CallInv, Idle, Registering, Polling, RemotesOf
<1>8. \A g \in Handler :
        /\ Registering(g)' => Registering(g) /\ handler'[g].order = handler[g].order
        /\ Polling(g)' => Polling(g) /\ handler'[g].order = handler[g].order
  BY <1>6 DEF Registering, Polling, Idle
<1>9. OneRegistrar'
  BY <1>8 DEF IInv, OneRegistrar
<1>10. LockInv'
  BY <1>2, <1>8 DEF IInv, LockInv
<1>11. \A o \in Order : RowInv(o)'
  BY <1>2 DEF IInv, RowInv, RemotesOf
<1>. QED
  BY <1>2, <1>3, <1>5, <1>7, <1>9, <1>10, <1>11 DEF IInv

-------------------------------------------------------------------------------
\* Steps that write a row

\* It is enough to look at the calls of the order whose row is written.
LEMMA RowStep ==
  ASSUME IInv, NEW h \in Handler, NEW o \in Order, handler[h].order = o,
         NEW c \in Call, Become(h, c), c.order = o \/ c = Idle,
         NEW row \in Shipment, shipment' = [shipment EXCEPT ![o] = row],
         UNCHANGED <<order, jobs, remote, late, lost, crashes>>,
         RowInv(o)',
         CallInv(h)',
         \A g \in Handler : g # h /\ handler[g].order = o => CallInv(g)',
         c.pc \in {"create", "save", "fail"} =>
           /\ ~(row.status = "PENDING" /\ row.id # None)
           /\ \A g \in Handler : g # h /\ handler[g].order = o
                                => ~Registering(g) /\ ~Polling(g),
         c.pc \in {"poll", "pollRow"} \/ (row.status = "PENDING" /\ row.id # None) =>
           \A g \in Handler : g # h /\ handler[g].order = o => ~Registering(g)
  PROVE  IInv'
<1>2. /\ handler' \in [Handler -> Call] /\ handler'[h] = c
      /\ \A g \in Handler : g # h => handler'[g] = handler[g]
  BY Moves
<1>3. /\ shipment' \in [Order -> Shipment] /\ shipment'[o] = row
      /\ \A q \in Order : q # o => shipment'[q] = shipment[q]
  BY DEF IInv, TypeOK
<1>4. Grows
  BY DEF Grows
<1>5. TypeOK'
  BY <1>2, <1>3 DEF IInv, TypeOK
<1>6. \A q \in Order : RowInv(q)'
  BY <1>3, <1>4, RowStays
<1>7. \A g \in Handler : CallInv(g)'
  <2>. SUFFICES ASSUME NEW g \in Handler, g # h, handler[g].order # o
                PROVE  CallInv(g)'
    OBVIOUS
  <2>. QED
    BY <1>2, <1>3, <1>4, CallStays
<1>8. EmailHasNumber'
  BY <1>4, EmailStays
<1>9. \A g \in Handler : g # h =>
        /\ Registering(g)' <=> Registering(g)
        /\ Polling(g)' <=> Polling(g)
        /\ handler'[g].order = handler[g].order
  BY <1>2 DEF Registering, Polling
<1>10. /\ Registering(h)' <=> c.pc \in {"create", "save", "fail"}
       /\ Polling(h)' <=> c.pc \in {"poll", "pollRow"}
       /\ Registering(h)' \/ Polling(h)' => handler'[h].order = o
  BY <1>2 DEF Registering, Polling, Idle
<1>11. OneRegistrar'
  BY <1>9, <1>10 DEF IInv, OneRegistrar
<1>12. ASSUME NEW f \in Handler, NEW g \in Handler, Registering(f)', Polling(g)'
       PROVE  handler'[f].order # handler'[g].order
  <2>1. CASE f # h /\ g # h
    BY <1>9, <1>12, <2>1 DEF IInv, LockInv
  <2>2. CASE f = h
    BY <1>9, <1>10, <1>12, <2>2 DEF Registering, Polling
  <2>3. CASE f # h /\ g = h
    BY <1>9, <1>10, <1>12, <2>3
  <2>. QED
    BY <2>1, <2>2, <2>3
<1>13. ASSUME NEW f \in Handler, Registering(f)'
       PROVE  ~(/\ shipment'[handler'[f].order].status = "PENDING"
                /\ shipment'[handler'[f].order].id # None)
  <2>1. CASE f = h
    BY <1>3, <1>10, <1>13, <2>1
  <2>2. CASE f # h /\ handler[f].order = o
    BY <1>3, <1>9, <1>13, <2>2
  <2>3. CASE f # h /\ handler[f].order # o
    <3>1. handler[f].order \in Order
      BY <1>9, <1>13, <2>3, AtWork DEF Registering
    <3>. QED
      BY <1>3, <1>9, <1>13, <2>3, <3>1 DEF IInv, LockInv
  <2>. QED
    BY <2>1, <2>2, <2>3
<1>14. LockInv'
  BY <1>12, <1>13 DEF LockInv
<1>. QED
  BY <1>4, <1>5, <1>6, <1>7, <1>8, <1>11, <1>14 DEF IInv

\* What the other calls of an order need of its row after a write.
LEMMA OthersKeep ==
  ASSUME IInv, NEW h \in Handler, NEW o \in Order, NEW c \in Call, Become(h, c),
         NEW row \in Shipment, shipment' = [shipment EXCEPT ![o] = row],
         UNCHANGED remote, row.status # "absent",
         NEW g \in Handler, g # h, handler[g].order = o,
         Registering(g) => row.status \in {"PENDING", "CREATED"},
         Polling(g) => row.status \in {"PENDING", "CREATED"} /\ row.id # None
  PROVE  CallInv(g)'
<1>1. handler'[g] = handler[g] /\ CallInv(g)
  BY Moves DEF IInv
<1>2. shipment'[o] = row
  BY DEF IInv, TypeOK
<1>. QED
  BY <1>1, <1>2 DEF CallInv, Registering, Polling, RemotesOf

LEMMA LockedRow == Locked \in Shipment /\ Locked.status = "PENDING"
                   /\ Locked.id = None /\ Locked.tracking = None
BY DEF Locked, NoShipment, Shipment, ShipmentStatus

\* Insert and Claim: nobody registers or polls a row that is absent or FAILED.
LEMMA LockTaken ==
  ASSUME IInv, NEW h \in Handler, Insert(h) \/ Claim(h)
  PROVE  IInv'
<1>. DEFINE r == handler[h]
            c == [r EXCEPT !.pc = "create"]
<1>1. /\ r.pc \in {"insert", "claim"} /\ Goto(h, "create")
      /\ shipment[r.order].status \in {"absent", "FAILED"}
      /\ shipment' = [shipment EXCEPT ![r.order] = Locked]
      /\ UNCHANGED <<order, jobs, remote, late, lost, crashes>>
  BY DEF Insert, Claim, At, Row
<1>2. /\ r \in Call /\ CallInv(h) /\ r.order \in Order
  BY <1>1, AtWork
<1>3. PICK o \in Order : o = r.order
  BY <1>2
<1>4. "create" \in Step
  BY DEF Step
<1>5. c \in Call /\ Become(h, c) /\ c.pc = "create" /\ c.order = o
  BY <1>1, <1>2, <1>3, <1>4, GotoBecome DEF Call
<1>6. \A g \in Handler : handler[g].order = o => ~Registering(g) /\ ~Polling(g)
  BY <1>1, <1>3 DEF IInv, CallInv
<1>7. shipment'[o] = Locked /\ handler'[h] = c
  BY <1>1, <1>3, <1>5, Moves DEF IInv, TypeOK
<1>8. RowInv(o)'
  BY <1>7, LockedRow DEF RowInv
<1>9. CallInv(h)'
  BY <1>1, <1>2, <1>3, <1>5, <1>7, LockedRow
     DEF CallInv, Call, Registering, Polling, RemotesOf
<1>10. \A g \in Handler : g # h /\ handler[g].order = o => CallInv(g)'
  BY <1>1, <1>3, <1>5, <1>6, LockedRow, OthersKeep
<1>. QED
  BY <1>1, <1>3, <1>5, <1>6, <1>8, <1>9, <1>10, LockedRow, RowStep

\* RestoreRow and PollRow: the row becomes CREATED and has an id.
LEMMA CreatedWritten ==
  ASSUME IInv, NEW h \in Handler, RestoreRow(h) \/ PollRow(h)
  PROVE  IInv'
<1>. DEFINE r == handler[h]
<1>1. /\ r.pc \in {"restoreRow", "pollRow"}
      /\ UNCHANGED <<order, jobs, remote, late, lost, crashes>>
  BY DEF RestoreRow, PollRow, At
<1>2. PICK o \in Order : o = r.order
  BY <1>1, AtWork
<1>3. /\ r \in Call /\ CallInv(h) /\ shipment[o] \in Shipment /\ RowInv(o)
  BY <1>1, <1>2, AtWork DEF IInv
<1>4. PICK row \in Shipment :
        /\ shipment' = [shipment EXCEPT ![o] = row]
        /\ row.status = "CREATED" /\ row.tracking = r.tracking
        /\ row.id \in RemotesOf(o) /\ row.id # None
  <2>1. CASE RestoreRow(h)
    <3>. DEFINE row == [status |-> "CREATED", id |-> r.id, tracking |-> r.tracking]
    <3>1. r.id \in RemotesOf(o) /\ r.id # None
      BY <1>2, <1>3, <2>1 DEF RestoreRow, At, CallInv, RemotesOf
    <3>2. row \in Shipment
      BY <1>3 DEF Shipment, ShipmentStatus, Call
    <3>3. shipment' = [shipment EXCEPT ![o] = row]
      BY <1>2, <2>1 DEF RestoreRow
    <3>. QED
      BY <3>1, <3>2, <3>3
  <2>2. CASE PollRow(h)
    <3>. DEFINE row == [shipment[o] EXCEPT !.status = "CREATED", !.tracking = r.tracking]
    <3>1. /\ row \in Shipment /\ row.status = "CREATED" /\ row.tracking = r.tracking
          /\ row.id = shipment[o].id
      BY <1>3 DEF Shipment, ShipmentStatus, Call
    <3>2. shipment[o].id \in RemotesOf(o) /\ shipment[o].id # None
      BY <1>2, <1>3, <2>2 DEF PollRow, At, CallInv, RowInv, Polling
    <3>3. shipment' = [shipment EXCEPT ![o] = row]
      BY <1>2, <1>3, <2>2 DEF PollRow, IInv, TypeOK
    <3>. QED
      BY <3>1, <3>2, <3>3
  <2>. QED
    BY <2>1, <2>2
<1>5. PICK pc \in {"restoreOrder", "pollOrder"} :
        Goto(h, pc) /\ (pc = "pollOrder" => r.pc = "pollRow")
  BY DEF RestoreRow, PollRow, At
<1>. DEFINE c == [r EXCEPT !.pc = pc]
<1>6. pc \in Step
  BY DEF Step
<1>7. c \in Call /\ Become(h, c) /\ c.pc = pc /\ c.order = o
  BY <1>2, <1>3, <1>5, <1>6, GotoBecome DEF Call
<1>8. shipment'[o] = row /\ handler'[h] = c
  BY <1>4, <1>7, Moves DEF IInv, TypeOK
<1>9. RowInv(o)'
  BY <1>1, <1>2, <1>3, <1>4, <1>8 DEF RowInv, CallInv, RemotesOf
<1>10. CallInv(h)'
  BY <1>1, <1>2, <1>3, <1>4, <1>5, <1>8
     DEF CallInv, Call, Registering, Polling, RemotesOf
<1>11. \A g \in Handler : g # h /\ handler[g].order = o => CallInv(g)'
  BY <1>1, <1>4, <1>7, OthersKeep
<1>. QED
  BY <1>1, <1>2, <1>4, <1>5, <1>7, <1>9, <1>10, <1>11, RowStep

\* Save and Fail: the one call that holds the lock gives it up.
LEMMA LockReleased ==
  ASSUME IInv, NEW h \in Handler, Save(h) \/ Fail(h)
  PROVE  IInv'
<1>. DEFINE r == handler[h]
<1>1. /\ r.pc \in {"save", "fail"} /\ Registering(h)
      /\ UNCHANGED <<order, jobs, remote, late, lost, crashes>>
  BY DEF Save, Fail, At, Registering
<1>2. PICK o \in Order : o = r.order
  BY <1>1, AtWork
<1>. DEFINE old == shipment[o]
<1>3. /\ r \in Call /\ CallInv(h) /\ old \in Shipment /\ RowInv(o)
      /\ old.status \in {"PENDING", "CREATED"}
  BY <1>1, <1>2, AtWork DEF IInv, CallInv
<1>4. \A g \in Handler : g # h /\ handler[g].order = o
                        => ~Registering(g) /\ ~Polling(g)
  BY <1>1, <1>2 DEF IInv, OneRegistrar, LockInv
<1>5. CASE Save(h)
  <2>. DEFINE row == [old EXCEPT !.id = r.id]
              c == [r EXCEPT !.pc = "poll"]
  <2>1. r.pc = "save" /\ Goto(h, "poll") /\ r.id \in RemotesOf(o) /\ "poll" \in Step
    BY <1>2, <1>3, <1>5 DEF Save, At, CallInv, Step
  <2>2. shipment' = [shipment EXCEPT ![o] = row]
    BY <1>2, <1>3, <1>5 DEF Save, IInv, TypeOK
  <2>3. /\ row \in Shipment /\ row.status = old.status /\ row.id = r.id
        /\ row.tracking = old.tracking /\ row.id # None
    BY <1>3, <2>1 DEF Shipment, RemotesOf
  <2>4. c \in Call /\ Become(h, c) /\ c.pc = "poll" /\ c.order = o
    BY <1>2, <1>3, <2>1, GotoBecome DEF Call
  <2>5. shipment'[o] = row /\ handler'[h] = c
    BY <2>2, <2>3, <2>4, Moves DEF IInv, TypeOK
  <2>6. RowInv(o)'
    BY <1>1, <1>3, <2>1, <2>3, <2>5 DEF RowInv, RemotesOf
  <2>7. CallInv(h)'
    BY <1>1, <1>2, <1>3, <2>1, <2>3, <2>5
       DEF CallInv, Call, Registering, Polling, RemotesOf
  <2>8. \A g \in Handler : g # h /\ handler[g].order = o => CallInv(g)'
    BY <1>1, <1>3, <1>4, <2>2, <2>3, <2>4, OthersKeep
  <2>. QED
    BY <1>1, <1>2, <1>4, <2>2, <2>3, <2>4, <2>6, <2>7, <2>8, RowStep
<1>6. CASE Fail(h)
  <2>. DEFINE row == [old EXCEPT !.status = "FAILED"]
  <2>1. shipment' = [shipment EXCEPT ![o] = row] /\ Become(h, Idle)
    BY <1>2, <1>3, <1>6 DEF Fail, IInv, TypeOK
  <2>2. /\ row \in Shipment /\ row.status = "FAILED" /\ row.id = old.id
        /\ row.tracking = old.tracking
    BY <1>3 DEF Shipment, ShipmentStatus
  <2>3. shipment'[o] = row /\ handler'[h] = Idle
    BY <2>1, <2>2, IdleCall, Moves DEF IInv, TypeOK
  <2>4. RowInv(o)'
    BY <1>1, <1>3, <2>2, <2>3 DEF RowInv, RemotesOf
  <2>5. CallInv(h)'
    BY <2>3 DEF CallInv, Idle, Registering, Polling
  <2>6. \A g \in Handler : g # h /\ handler[g].order = o => CallInv(g)'
    BY <1>1, <1>4, <2>1, <2>2, IdleCall, OthersKeep
  <2>. QED
    BY <1>1, <1>2, <2>1, <2>2, <2>4, <2>5, <2>6, IdleCall, RowStep DEF Idle
<1>. QED
  BY <1>5, <1>6

-------------------------------------------------------------------------------
\* Steps of CDEK and of the admin

LEMMA Registers ==
  ASSUME IInv, NEW u \in Uuid, NEW o \in Order, remote[u].status = "absent",
         remote' = [remote EXCEPT ![u] = Registered(o)]
  PROVE  /\ Grows /\ u \in RemotesOf(o)'
         /\ remote' \in [Uuid -> Remote]
         /\ \A v \in Uuid : remote'[v].status = "absent" <=> remote'[v].order = None
BY DEF IInv, TypeOK, Grows, Registered, Remote, RemotesOf

LEMMA Decides ==
  ASSUME IInv, NEW u \in Uuid,
         CdekNumbers(u) \/ CdekInvalidates(u) \/ CdekRemoves(u)
  PROVE  /\ Grows
         /\ remote' \in [Uuid -> Remote]
         /\ \A v \in Uuid : remote'[v].status = "absent" <=> remote'[v].order = None
<1>1. remote[u] \in Remote /\ remote[u].status = "accepted"
  BY DEF IInv, TypeOK, CdekNumbers, CdekInvalidates, CdekRemoves, CdekDecides, Live
<1>2. PICK new \in Remote :
        /\ remote' = [remote EXCEPT ![u] = new]
        /\ new.order = remote[u].order /\ new.status # "absent"
        /\ remote[u].numbered => new.numbered
  <2>1. CASE CdekNumbers(u)
    <3>. DEFINE new == [remote[u] EXCEPT !.numbered = TRUE]
    <3>1. new \in Remote /\ new.order = remote[u].order /\ new.status = "accepted"
          /\ new.numbered = TRUE
      BY <1>1 DEF Remote
    <3>. QED
      BY <2>1, <3>1 DEF CdekNumbers, CdekDecides
  <2>2. ASSUME NEW s \in {"invalid", "removed"},
               CdekDecides(u, [remote[u] EXCEPT !.status = s])
        PROVE  \E new \in Remote :
                 /\ remote' = [remote EXCEPT ![u] = new]
                 /\ new.order = remote[u].order /\ new.status # "absent"
                 /\ remote[u].numbered => new.numbered
    <3>. DEFINE new == [remote[u] EXCEPT !.status = s]
    <3>1. new \in Remote /\ new.order = remote[u].order /\ new.status = s
          /\ new.numbered = remote[u].numbered
      BY <1>1 DEF Remote
    <3>. QED
      BY <2>2, <3>1 DEF CdekDecides
  <2>. QED
    BY <2>1, <2>2 DEF CdekInvalidates, CdekRemoves
<1>. QED
  BY <1>1, <1>2 DEF IInv, TypeOK, Grows

\* CDEK's own steps touch no call and no row.
LEMMA RemoteInv ==
  ASSUME IInv, NEW u \in Uuid,
         \/ CdekNumbers(u) \/ CdekInvalidates(u) \/ CdekRemoves(u)
         \/ \E o \in Order, n \in 1..(MaxLost + MaxCrashes) : CdekRegistersLate(o, n, u)
  PROVE  IInv'
<1>1. /\ Grows
      /\ remote' \in [Uuid -> Remote]
      /\ \A v \in Uuid : remote'[v].status = "absent" <=> remote'[v].order = None
  BY Registers, Decides DEF CdekRegistersLate
<1>2. UNCHANGED <<order, shipment, jobs, handler, lost, crashes>> /\ late' \subseteq late
  BY DEF CdekNumbers, CdekInvalidates, CdekRemoves, CdekDecides, CdekRegistersLate
<1>3. TypeOK'
  BY <1>1, <1>2 DEF IInv, TypeOK
<1>4. \A o \in Order : RowInv(o)'
  BY <1>1, <1>2, RowStays
<1>5. \A h \in Handler : CallInv(h)'
  BY <1>1, <1>2, CallStays
<1>6. EmailHasNumber'
  BY <1>1, <1>2, EmailStays
<1>7. OneRegistrar' /\ LockInv'
  BY <1>2 DEF IInv, OneRegistrar, LockInv, Registering, Polling
<1>. QED
  BY <1>1, <1>3, <1>4, <1>5, <1>6, <1>7 DEF IInv

LEMMA RegisteredInv ==
  ASSUME IInv, NEW h \in Handler, NEW u \in Uuid, CdekRegisters(h, u)
  PROVE  IInv'
<1>. DEFINE r == handler[h]
            c == [r EXCEPT !.pc = "save", !.id = u]
<1>1. /\ r.pc = "create" /\ remote[u].status = "absent" /\ Become(h, c)
      /\ remote' = [remote EXCEPT ![u] = Registered(r.order)]
      /\ UNCHANGED <<order, shipment, jobs, late, lost, crashes>>
  BY DEF CdekRegisters, At
<1>2. /\ r \in Call /\ CallInv(h) /\ r.order \in Order /\ Registering(h)
  BY <1>1, AtWork DEF Registering
<1>3. /\ Grows
      /\ remote' \in [Uuid -> Remote] /\ remote'[u].order = r.order
      /\ \A v \in Uuid : remote'[v].status = "absent" <=> remote'[v].order = None
  BY <1>1, <1>2, Registers DEF RemotesOf
<1>4. c \in Call /\ c.pc = "save" /\ c.order = r.order /\ c.id = u
      /\ c.tracking = r.tracking
  BY <1>2 DEF Call, Step
<1>5. /\ handler' \in [Handler -> Call] /\ handler'[h] = c
      /\ \A g \in Handler : g # h => handler'[g] = handler[g]
  BY <1>1, <1>4, Moves
<1>6. TypeOK'
  BY <1>1, <1>3, <1>5 DEF IInv, TypeOK
<1>7. \A o \in Order : RowInv(o)'
  BY <1>1, <1>3, RowStays
<1>8. CallInv(h)'
  <2>1. PICK o \in Order : o = r.order
    BY <1>2
  <2>2. c.tracking # None =>
          c.tracking \in RemotesOf(o)' /\ remote'[c.tracking].numbered
    BY <1>2, <1>3, <1>4, <2>1, KnownStays DEF CallInv
  <2>. QED
    BY <1>1, <1>2, <1>3, <1>4, <1>5, <2>1, <2>2
       DEF CallInv, Registering, Polling, RemotesOf
<1>9. \A g \in Handler : CallInv(g)'
  BY <1>1, <1>3, <1>5, <1>8, CallStays
<1>10. EmailHasNumber'
  BY <1>1, <1>3, EmailStays
<1>11. \A g \in Handler :
        /\ Registering(g)' => Registering(g) /\ handler'[g].order = handler[g].order
        /\ Polling(g)' => Polling(g) /\ handler'[g].order = handler[g].order
  BY <1>2, <1>4, <1>5 DEF Registering, Polling
<1>12. OneRegistrar'
  BY <1>11 DEF IInv, OneRegistrar
<1>13. LockInv'
  BY <1>1, <1>11 DEF IInv, LockInv
<1>. QED
  BY <1>3, <1>6, <1>7, <1>9, <1>10, <1>12, <1>13 DEF IInv

\* What only the order's status distinguishes, or nothing.
LEMMA OrderOnly ==
  ASSUME IInv, order' \in [Order -> OrderStatus],
         UNCHANGED <<shipment, jobs, remote, late, handler, lost, crashes>>
  PROVE  IInv'
<1>1. TypeOK'
  BY DEF IInv, TypeOK
<1>2. /\ \A o \in Order : RowInv(o)'
      /\ \A h \in Handler : CallInv(h)'
      /\ EmailHasNumber' /\ OneRegistrar' /\ LockInv'
  BY DEF IInv, RowInv, CallInv, EmailHasNumber, OneRegistrar, LockInv, Registering,
         Polling, RemotesOf
<1>. QED
  BY <1>1, <1>2 DEF IInv

-------------------------------------------------------------------------------
\* The invariant

LEMMA InitInv == Init => IInv
<1>. SUFFICES ASSUME Init PROVE IInv
  OBVIOUS
<1>. USE DEF Init, NoShipment, NoRemote, Idle
<1>1. TypeOK
  BY IdleCall DEF TypeOK, OrderStatus, Shipment, Remote
<1>2. \A o \in Order : RowInv(o)
  BY DEF RowInv
<1>3. \A h \in Handler : CallInv(h)
  BY DEF CallInv, Registering, Polling
<1>4. OneRegistrar /\ LockInv /\ EmailHasNumber
  BY DEF OneRegistrar, LockInv, EmailHasNumber, Registering
<1>. QED
  BY <1>1, <1>2, <1>3, <1>4 DEF IInv

LEMMA ConflictInv ==
  ASSUME IInv, NEW h \in Handler, InsertConflict(h)
  PROVE  IInv'
<1>1. handler[h].order \in Order
  BY AtWork DEF InsertConflict, At
<1>. QED
  BY <1>1, DecideInv DEF InsertConflict, Row

LEMMA NextInv == IInv /\ [Next]_vars => IInv'
<1>. SUFFICES ASSUME IInv, [Next]_vars PROVE IInv'
  OBVIOUS
<1>1. ASSUME NEW h \in Handler, Continue(h) PROVE IInv'
  BY <1>1, ConflictInv, LockTaken, GotoInv, AnswerInv, CreatedWritten, ReturnInv,
     LockReleased, EnqueueInv, RegisteredInv DEF Continue
<1>2. ASSUME NEW h \in Handler, HandlerDies(h) PROVE IInv'
  BY <1>2, ReturnInv
<1>3. ASSUME NEW h \in Handler, NEW o \in Order,
             CallFindsNone(h, o) \/ CallFindsRow(h, o)
      PROVE  IInv'
  BY <1>3, CallInvoked
<1>4. ASSUME NEW u \in Uuid,
             \/ CdekNumbers(u) \/ CdekInvalidates(u) \/ CdekRemoves(u)
             \/ \E o \in Order, n \in 1..(MaxLost + MaxCrashes) :
                  CdekRegistersLate(o, n, u)
      PROVE  IInv'
  BY <1>4, RemoteInv
<1>5. ASSUME NEW o \in Order, NEW s \in {"SHIPPED", "DELIVERED", "CANCELLED"},
             AdminUpdateStatus(o, s)
      PROVE  IInv'
  BY <1>5, OrderOnly DEF AdminUpdateStatus, OrderStatus, IInv, TypeOK
<1>6. CASE UNCHANGED vars
  BY <1>6, OrderOnly DEF vars, IInv, TypeOK
<1>. QED
  BY <1>1, <1>2, <1>3, <1>4, <1>5, <1>6 DEF Next

\* Rows, calls and CDEK agree, for any number of each (the whole of
\* createCdekShipmentForPaidOrder and what it calls).
THEOREM Invariance == Spec => []IInv
<1>1. Init => IInv
  BY InitInv
<1>2. IInv /\ [Next]_vars => IInv'
  BY NextInv
<1>. QED
  BY <1>1, <1>2, PTL DEF Spec

\* The unique row and the conditional claim are a lock: two calls never register
\* the same order's shipment at once (createCdekShipmentForPaidOrder).
THEOREM Lock == Spec => []OneRegistrar
<1>1. IInv => OneRegistrar
  BY DEF IInv
<1>. QED
  BY <1>1, Invariance, PTL

\* A CREATED row names a shipment CDEK has for this order, and only numbers CDEK
\* gave it (restoreShipmentFromCdekIfExists, waitForCdekShipment).
THEOREM CreatedIsRegisteredTheorem == Spec => []CreatedIsRegistered
<1>1. IInv => CreatedIsRegistered
  BY DEF IInv, RowInv, CreatedIsRegistered
<1>. QED
  BY <1>1, Invariance, PTL

\* A customer is written to only about a numbered shipment (waitForCdekShipment).
THEOREM EmailHasNumberTheorem == Spec => []EmailHasNumber
<1>1. IInv => EmailHasNumber
  BY DEF IInv
<1>. QED
  BY <1>1, Invariance, PTL
-------------------------------------------------------------------------------
\* While every call is answered

\* A call that sends, or says it sent in vain: nothing of its order is at CDEK.
Sends(h) == handler[h].pc \in {"create", "fail"}

\* A step that changes nothing at CDEK need only show that what it frees, and
\* whom it lets send, had nothing there.
LEMMA OnceStays ==
  ASSUME NEW o \in Order, OnceInv(o),
         RemotesOf(o)' = RemotesOf(o), LateOf(o)' = LateOf(o),
         shipment'[o].status \in {"absent", "FAILED"} => Unspent(o),
         \A h \in Handler :
           handler'[h].order = o /\ handler'[h].pc \in {"create", "fail"}
             => Unspent(o)
  PROVE  OnceInv(o)'
<1>1. Unspent(o)' <=> Unspent(o)
  BY DEF Unspent
<1>. QED
  BY <1>1 DEF OnceInv

LEMMA SameRemotes ==
  ASSUME UNCHANGED <<remote, late>>
  PROVE  \A o \in Order : RemotesOf(o)' = RemotesOf(o) /\ LateOf(o)' = LateOf(o)
BY DEF RemotesOf, LateOf

\* One call moves, and no row becomes free.
LEMMA OnceMoves ==
  ASSUME IInv, \A o \in Order : OnceInv(o),
         NEW h \in Handler, NEW c \in Call, Become(h, c), UNCHANGED <<remote, late>>,
         c.pc \in {"create", "fail"} /\ c.order \in Order => Unspent(c.order),
         \A o \in Order : shipment'[o].status \in {"absent", "FAILED"} => Unspent(o)
  PROVE  \A o \in Order : OnceInv(o)'
<1>. SUFFICES ASSUME NEW o \in Order PROVE OnceInv(o)'
  OBVIOUS
<1>1. handler'[h] = c /\ \A g \in Handler : g # h => handler'[g] = handler[g]
  BY Moves
<1>2. OnceInv(o)
  OBVIOUS
<1>3. \A g \in Handler :
        handler'[g].order = o /\ handler'[g].pc \in {"create", "fail"} => Unspent(o)
  BY <1>1, <1>2 DEF OnceInv
<1>. QED
  BY <1>2, <1>3, OnceStays, SameRemotes

\* Calls that only look, poll, return, or report what CDEK refused.
LEMMA OnceLocal ==
  ASSUME IInv, \A o \in Order : OnceInv(o), NEW h \in Handler, NEW c \in Call,
         Become(h, c), UNCHANGED <<shipment, remote, late>>,
         c.pc \in {"create", "fail"} => Sends(h) /\ c.order = handler[h].order
  PROVE  \A o \in Order : OnceInv(o)'
<1>1. c.pc \in {"create", "fail"} /\ c.order \in Order => Unspent(c.order)
  BY DEF OnceInv, Sends
<1>2. \A o \in Order : shipment'[o].status \in {"absent", "FAILED"} => Unspent(o)
  BY DEF OnceInv
<1>. QED
  BY <1>1, <1>2, OnceMoves

LEMMA OnceDecides ==
  ASSUME IInv, \A o \in Order : OnceInv(o), NEW h \in Handler, NEW b \in Order,
         shipment[b].status # "absent", Only(Decide(h, b))
  PROVE  \A o \in Order : OnceInv(o)'
<1>1. CASE Become(h, Idle)
  BY <1>1, IdleCall, OnceLocal DEF Idle, Only
<1>2. ASSUME NEW pc \in {"poll", "restore"},
             Become(h, [Idle EXCEPT !.pc = pc, !.order = b, !.id = shipment[b].id])
      PROVE  \A o \in Order : OnceInv(o)'
  <2>. DEFINE c == [Idle EXCEPT !.pc = pc, !.order = b, !.id = shipment[b].id]
  <2>1. shipment[b] \in Shipment
    BY DEF IInv, TypeOK
  <2>2. c \in Call /\ c.pc = pc
    BY <2>1, IdleCall DEF Call, Step, Shipment, Idle
  <2>. QED
    BY <1>2, <2>2, OnceLocal DEF Only
<1>. QED
  BY <1>1, <1>2 DEF Only, Decide

LEMMA OnceGoes ==
  ASSUME IInv, \A o \in Order : OnceInv(o), NEW h \in Handler, lost' = 0,
         \/ RestoreMisses(h) \/ RestoreLookupFails(h) \/ CdekRejects(h)
         \/ CreateIsLost(h) \/ SaveFails(h) \/ PollOrder(h)
         \/ ClaimIsLost(h) \/ PollInvalid(h) \/ RestoreOrder(h) \/ Enqueue(h)
  PROVE  \A o \in Order : OnceInv(o)'
<1>1. lost \in Nat
  BY DEF IInv, TypeOK
<1>2. ~RestoreLookupFails(h) /\ ~CreateIsLost(h) /\ ~SaveFails(h)
  BY <1>1 DEF RestoreLookupFails, CreateIsLost, SaveFails, LosesCall
<1>3. CASE Become(h, Idle) /\ UNCHANGED <<shipment, remote, late>>
  BY <1>3, IdleCall, OnceLocal DEF Idle
<1>4. ASSUME NEW pc \in {"claim", "fail", "enqueue"}, Goto(h, pc),
             UNCHANGED <<shipment, remote, late>>, pc = "fail" => Sends(h)
      PROVE  \A o \in Order : OnceInv(o)'
  <2>1. handler[h] \in Call /\ pc \in Step
    BY DEF IInv, TypeOK, Step
  <2>. DEFINE c == [handler[h] EXCEPT !.pc = pc]
  <2>2. c \in Call /\ Become(h, c) /\ c.pc = pc /\ c.order = handler[h].order
    BY <1>4, <2>1, GotoBecome DEF Call
  <2>. QED
    BY <1>4, <2>2, OnceLocal
<1>5. RestoreMisses(h) \/ CdekRejects(h) \/ PollOrder(h)
        => \A o \in Order : OnceInv(o)'
  BY <1>4 DEF RestoreMisses, CdekRejects, PollOrder, Only, At, Sends
<1>6. ClaimIsLost(h) \/ PollInvalid(h) \/ RestoreOrder(h) \/ Enqueue(h)
        => \A o \in Order : OnceInv(o)'
  BY <1>3 DEF ClaimIsLost, PollInvalid, RestoreOrder, Enqueue, Only
<1>. QED
  BY <1>2, <1>5, <1>6

LEMMA OnceAnswers ==
  ASSUME IInv, \A o \in Order : OnceInv(o), NEW h \in Handler,
         \/ PollNumbered(h) \/ PollAgain(h)
         \/ \E u \in Uuid : RestoreFinds(h, u)
  PROVE  \A o \in Order : OnceInv(o)'
<1>. DEFINE r == handler[h]
<1>1. /\ r.pc \in {"poll", "restore"}
      /\ UNCHANGED <<order, shipment, jobs, remote, late, lost, crashes>>
  BY DEF PollNumbered, PollAgain, RestoreFinds, Only, At
<1>2. r \in Call
  BY DEF IInv, TypeOK
<1>3. CASE PollAgain(h)
  <2>1. CASE r.polls + 1 < PollAttempts
    <3>. DEFINE c == [r EXCEPT !.polls = @ + 1]
    <3>1. c \in Call
      <4>1. r.polls \in 0..(PollAttempts - 1)
        BY <1>2 DEF Call
      <4>2. r.polls + 1 \in 0..(PollAttempts - 1)
        BY <2>1, <4>1
      <4>. QED
        BY <1>2, <4>2 DEF Call
    <3>2. Become(h, c) /\ c.pc = r.pc
      BY <1>2, <1>3, <2>1 DEF PollAgain, Only, Call
    <3>. QED
      BY <1>1, <3>1, <3>2, OnceLocal
  <2>2. CASE ~(r.polls + 1 < PollAttempts)
    BY <1>1, <1>3, <2>2, IdleCall, OnceLocal DEF PollAgain, Only, Idle
  <2>. QED
    BY <2>1, <2>2
<1>4. CASE PollNumbered(h)
  <2>. DEFINE c == [r EXCEPT !.pc = "pollRow", !.tracking = r.id]
  <2>1. Become(h, c)
    BY <1>4 DEF PollNumbered, Only
  <2>2. c \in Call /\ c.pc = "pollRow"
    BY <1>2 DEF Call, Step
  <2>. QED
    BY <1>1, <2>1, <2>2, OnceLocal
<1>5. ASSUME NEW u \in Uuid, RestoreFinds(h, u) PROVE \A o \in Order : OnceInv(o)'
  <2>. DEFINE t == IF remote[u].numbered THEN u ELSE None
              c == [r EXCEPT !.pc = "restoreRow", !.id = u, !.tracking = t]
  <2>1. Become(h, c)
    BY <1>5 DEF RestoreFinds, Only
  <2>2. c \in Call /\ c.pc = "restoreRow"
    BY <1>2 DEF Call, Step
  <2>. QED
    BY <1>1, <2>1, <2>2, OnceLocal
<1>. QED
  BY <1>3, <1>4, <1>5

\* Insert and Claim: the row was free, so nothing was at CDEK.
LEMMA OnceTaken ==
  ASSUME IInv, \A o \in Order : OnceInv(o), NEW h \in Handler, Insert(h) \/ Claim(h)
  PROVE  \A o \in Order : OnceInv(o)'
<1>. DEFINE r == handler[h]
            c == [r EXCEPT !.pc = "create"]
<1>1. /\ r.pc # "idle" /\ Goto(h, "create")
      /\ shipment[r.order].status \in {"absent", "FAILED"}
      /\ shipment' = [shipment EXCEPT ![r.order] = Locked]
      /\ UNCHANGED <<remote, late>>
  BY DEF Insert, Claim, At, Row
<1>2. r \in Call /\ r.order \in Order /\ "create" \in Step
  BY <1>1, AtWork DEF Step
<1>3. c \in Call /\ Become(h, c) /\ c.order = r.order
  BY <1>1, <1>2, GotoBecome DEF Call
<1>4. Unspent(r.order)
  BY <1>1, <1>2 DEF OnceInv
<1>5. \A o \in Order : shipment'[o].status \in {"absent", "FAILED"} => Unspent(o)
  <2>. SUFFICES ASSUME NEW o \in Order, o # r.order
                PROVE  shipment'[o].status \in {"absent", "FAILED"} => Unspent(o)
    BY <1>4
  <2>1. shipment'[o] = shipment[o] /\ OnceInv(o)
    BY <1>1 DEF IInv, TypeOK
  <2>. QED
    BY <2>1 DEF OnceInv
<1>. QED
  BY <1>1, <1>3, <1>4, <1>5, OnceMoves

\* RestoreRow, PollRow and Save free no row.
LEMMA OnceWritten ==
  ASSUME IInv, \A o \in Order : OnceInv(o), NEW h \in Handler,
         RestoreRow(h) \/ PollRow(h) \/ Save(h)
  PROVE  \A o \in Order : OnceInv(o)'
<1>. DEFINE r == handler[h]
<1>1. PICK pc \in {"restoreOrder", "pollOrder", "poll"} :
        Goto(h, pc) /\ UNCHANGED <<remote, late>> /\ r.pc # "idle"
  BY DEF RestoreRow, PollRow, Save, At
<1>2. r \in Call /\ r.order \in Order /\ shipment[r.order] \in Shipment /\ pc \in Step
  BY <1>1, AtWork DEF Step
<1>. DEFINE c == [r EXCEPT !.pc = pc]
<1>3. c \in Call /\ Become(h, c) /\ c.pc = pc
  BY <1>1, <1>2, GotoBecome DEF Call
<1>4. \A o \in Order : /\ o # r.order => shipment'[o] = shipment[o]
                       /\ \/ shipment'[o].status = "CREATED"
                          \/ shipment'[o].status = shipment[o].status
  BY <1>2 DEF RestoreRow, PollRow, Save, IInv, TypeOK, Shipment
<1>5. \A o \in Order : shipment'[o].status \in {"absent", "FAILED"} => Unspent(o)
  BY <1>4 DEF OnceInv
<1>. QED
  BY <1>1, <1>3, <1>5, OnceMoves

\* Fail frees the row after CDEK refused the order.
LEMMA OnceFails ==
  ASSUME IInv, \A o \in Order : OnceInv(o), NEW h \in Handler, Fail(h)
  PROVE  \A o \in Order : OnceInv(o)'
<1>1. /\ handler[h].order \in Order /\ Unspent(handler[h].order)
      /\ Become(h, Idle) /\ UNCHANGED <<remote, late>>
  BY AtWork DEF Fail, At, OnceInv
<1>2. \A o \in Order : o # handler[h].order => shipment'[o] = shipment[o]
  BY DEF Fail, IInv, TypeOK
<1>3. \A o \in Order : shipment'[o].status \in {"absent", "FAILED"} => Unspent(o)
  BY <1>1, <1>2 DEF OnceInv
<1>. QED
  BY <1>1, <1>3, IdleCall, OnceMoves DEF Idle

\* CDEK takes the order of the only call that may send it.
LEMMA OnceRegistered ==
  ASSUME IInv, \A o \in Order : OnceInv(o), NEW h \in Handler, NEW u \in Uuid,
         CdekRegisters(h, u)
  PROVE  \A o \in Order : OnceInv(o)'
<1>. DEFINE r == handler[h]
            c == [r EXCEPT !.pc = "save", !.id = u]
<1>1. /\ r.pc = "create" /\ remote[u].status = "absent" /\ Become(h, c)
      /\ remote' = [remote EXCEPT ![u] = Registered(r.order)]
      /\ UNCHANGED <<shipment, late>>
  BY DEF CdekRegisters, At
<1>2. r \in Call /\ r.order \in Order /\ CallInv(h) /\ Registering(h)
  BY <1>1, AtWork DEF Registering
<1>3. c \in Call /\ c.pc = "save" /\ c.order = r.order
  BY <1>2 DEF Call, Step
<1>4. handler'[h] = c /\ \A g \in Handler : g # h => handler'[g] = handler[g]
  BY <1>1, <1>3, Moves
<1>5. \A v \in Uuid : remote'[v] = IF v = u THEN Registered(r.order) ELSE remote[v]
  BY <1>1 DEF IInv, TypeOK
<1>6. remote[u].order = None
  BY <1>1 DEF IInv
<1>. SUFFICES ASSUME NEW o \in Order PROVE OnceInv(o)'
  OBVIOUS
<1>7. OnceInv(o) /\ LateOf(o)' = LateOf(o)
  BY <1>1 DEF LateOf
<1>8. CASE o = r.order
  <2>1. Unspent(o)
    BY <1>1, <1>7, <1>8 DEF OnceInv
  <2>2. RemotesOf(o)' = {u}
    BY <1>5, <1>8, <2>1 DEF RemotesOf, Unspent, Registered
  <2>3. shipment'[o].status \notin {"absent", "FAILED"}
    BY <1>1, <1>2, <1>8 DEF CallInv
  <2>4. \A g \in Handler :
          ~(handler'[g].order = o /\ handler'[g].pc \in {"create", "fail"})
    <3>1. \A g \in Handler : Registering(g) /\ handler[g].order = o => g = h
      BY <1>2, <1>8 DEF IInv, OneRegistrar
    <3>. QED
      BY <1>3, <1>4, <3>1 DEF Registering
  <2>. QED
    BY <1>7, <2>1, <2>2, <2>3, <2>4 DEF OnceInv, Unspent
<1>9. CASE o # r.order
  <2>1. RemotesOf(o)' = RemotesOf(o)
    <3>1. \A v \in Uuid : remote'[v].order = o <=> remote[v].order = o
      BY <1>5, <1>6, <1>9 DEF Registered
    <3>. QED
      BY <3>1 DEF RemotesOf
  <2>2. \A g \in Handler :
          handler'[g].order = o /\ handler'[g].pc \in {"create", "fail"} => Unspent(o)
    BY <1>3, <1>4, <1>7, <1>9 DEF OnceInv
  <2>3. shipment'[o].status \in {"absent", "FAILED"} => Unspent(o)
    BY <1>1, <1>7 DEF OnceInv
  <2>. QED
    BY <1>7, <2>1, <2>2, <2>3, OnceStays
<1>. QED
  BY <1>8, <1>9

\* The registration of a call that died arrives: the only one of its order.
LEMMA OnceLate ==
  ASSUME IInv, \A o \in Order : OnceInv(o), NEW b \in Order,
         NEW n \in 1..(MaxLost + MaxCrashes), NEW u \in Uuid, CdekRegistersLate(b, n, u)
  PROVE  \A o \in Order : OnceInv(o)'
<1>1. /\ <<b, n>> \in late /\ late' = late \ {<<b, n>>}
      /\ UNCHANGED <<shipment, handler>>
  BY DEF CdekRegistersLate
<1>2. \A v \in Uuid : remote'[v] = IF v = u THEN Registered(b) ELSE remote[v]
  BY DEF CdekRegistersLate, IInv, TypeOK
<1>3. remote[u].order = None
  BY DEF CdekRegistersLate, IInv
<1>. SUFFICES ASSUME NEW o \in Order PROVE OnceInv(o)'
  OBVIOUS
<1>4. OnceInv(o)
  OBVIOUS
<1>5. CASE o = b
  <2>1. n \in LateOf(o)
    BY <1>1, <1>5 DEF LateOf
  <2>2. RemotesOf(o) = {} /\ \A m \in LateOf(o) : m = n
    BY <1>4, <2>1 DEF OnceInv
  <2>3. LateOf(o)' = {}
    BY <1>1, <1>5, <2>2 DEF LateOf
  <2>4. RemotesOf(o)' = {u}
    BY <1>2, <1>5, <2>2 DEF RemotesOf, Registered
  <2>5. ~Unspent(o)
    BY <2>1 DEF Unspent
  <2>. QED
    BY <1>1, <1>4, <2>3, <2>4, <2>5 DEF OnceInv
<1>6. CASE o # b
  <2>1. RemotesOf(o)' = RemotesOf(o)
    <3>1. \A v \in Uuid : remote'[v].order = o <=> remote[v].order = o
      BY <1>2, <1>3, <1>6 DEF Registered
    <3>. QED
      BY <3>1 DEF RemotesOf
  <2>2. LateOf(o)' = LateOf(o)
    BY <1>1, <1>6 DEF LateOf
  <2>. QED
    BY <1>1, <1>4, <2>1, <2>2, OnceStays DEF OnceInv
<1>. QED
  BY <1>5, <1>6

LEMMA OnceDecided ==
  ASSUME IInv, \A o \in Order : OnceInv(o), NEW u \in Uuid,
         CdekNumbers(u) \/ CdekInvalidates(u) \/ CdekRemoves(u)
  PROVE  \A o \in Order : OnceInv(o)'
<1>1. remote[u] \in Remote
  BY DEF IInv, TypeOK
<1>2. UNCHANGED <<shipment, handler, late>>
  BY DEF CdekNumbers, CdekInvalidates, CdekRemoves, CdekDecides
<1>3. \A v \in Uuid : remote'[v].order = remote[v].order
  BY <1>1 DEF CdekNumbers, CdekInvalidates, CdekRemoves, CdekDecides, Remote, IInv, TypeOK
<1>. SUFFICES ASSUME NEW o \in Order PROVE OnceInv(o)'
  OBVIOUS
<1>4. RemotesOf(o)' = RemotesOf(o) /\ LateOf(o)' = LateOf(o) /\ OnceInv(o)
  BY <1>2, <1>3 DEF RemotesOf, LateOf
<1>. QED
  BY <1>2, <1>4, OnceStays DEF OnceInv

\* A call dies: if it had sent its registration, that one may still arrive, and
\* the row it leaves behind is nobody's to take.
LEMMA OnceDies ==
  ASSUME IInv, \A o \in Order : OnceInv(o), NEW h \in Handler, HandlerDies(h)
  PROVE  \A o \in Order : OnceInv(o)'
<1>. DEFINE r == handler[h]
<1>1. r.order \in Order /\ Become(h, Idle) /\ UNCHANGED <<shipment, remote>>
  BY AtWork DEF HandlerDies, At
<1>2. CASE ~At(h, "create")
  BY <1>1, <1>2, IdleCall, OnceLocal DEF HandlerDies, Idle
<1>3. CASE At(h, "create")
  <2>. DEFINE n == lost + crashes + 1
  <2>1. late' = late \cup {<<r.order, n>>} /\ n \in 1..(MaxLost + MaxCrashes)
    <3>1. lost \in 0..MaxLost /\ crashes \in 0..MaxCrashes /\ crashes < MaxCrashes
      BY DEF HandlerDies, IInv, TypeOK
    <3>. QED
      BY <1>3, <3>1 DEF HandlerDies, Abandoned
  <2>2. handler'[h] = Idle /\ \A g \in Handler : g # h => handler'[g] = handler[g]
    BY <1>1, IdleCall, Moves
  <2>. SUFFICES ASSUME NEW o \in Order PROVE OnceInv(o)'
    OBVIOUS
  <2>3. OnceInv(o) /\ RemotesOf(o)' = RemotesOf(o)
    BY <1>1 DEF RemotesOf
  <2>4. CASE o = r.order
    <3>1. Unspent(o) /\ Registering(h) /\ CallInv(h)
      BY <1>3, <2>3, <2>4, AtWork DEF OnceInv, At, Registering
    <3>2. LateOf(o)' = {n}
      BY <2>1, <2>4, <3>1 DEF LateOf, Unspent
    <3>3. shipment'[o].status \notin {"absent", "FAILED"}
      BY <1>1, <2>4, <3>1 DEF CallInv
    <3>4. \A g \in Handler :
            ~(handler'[g].order = o /\ handler'[g].pc \in {"create", "fail"})
      BY <2>2, <2>4, <3>1 DEF IInv, OneRegistrar, Registering, Idle
    <3>. QED
      BY <2>3, <3>1, <3>2, <3>3, <3>4 DEF OnceInv, Unspent
  <2>5. CASE o # r.order
    <3>1. LateOf(o)' = LateOf(o)
      BY <2>1, <2>5 DEF LateOf
    <3>2. \A g \in Handler :
            handler'[g].order = o /\ handler'[g].pc \in {"create", "fail"} => Unspent(o)
      BY <2>2, <2>3 DEF OnceInv, Idle
    <3>. QED
      BY <1>1, <2>3, <3>1, <3>2, OnceStays DEF OnceInv
  <2>. QED
    BY <2>4, <2>5
<1>. QED
  BY <1>2, <1>3

LEMMA OnceCalled ==
  ASSUME IInv, \A o \in Order : OnceInv(o), NEW h \in Handler, NEW b \in Order,
         CallFindsNone(h, b) \/ CallFindsRow(h, b)
  PROVE  \A o \in Order : OnceInv(o)'
<1>1. CASE CallFindsRow(h, b)
  BY <1>1, OnceDecides DEF CallFindsRow
<1>2. CASE CallFindsNone(h, b)
  <2>. DEFINE c == [Idle EXCEPT !.pc = "insert", !.order = b]
  <2>1. c \in Call /\ Become(h, c) /\ c.pc = "insert"
    BY <1>2, IdleCall DEF CallFindsNone, Only, Call, Step, Idle
  <2>. QED
    BY <1>2, <2>1, OnceLocal DEF CallFindsNone, Only
<1>. QED
  BY <1>1, <1>2

LEMMA OnceConflict ==
  ASSUME IInv, \A o \in Order : OnceInv(o), NEW h \in Handler, InsertConflict(h)
  PROVE  \A o \in Order : OnceInv(o)'
<1>1. handler[h].order \in Order
  BY AtWork DEF InsertConflict, At
<1>. QED
  BY <1>1, OnceDecides DEF InsertConflict, Row

LEMMA SafeNext == SafeInv /\ [Next]_vars => SafeInv'
<1>. SUFFICES ASSUME SafeInv, [Next]_vars, lost' = 0
              PROVE  \A o \in Order : OnceInv(o)'
  BY NextInv DEF SafeInv
<1>1. lost = 0
  <2>1. lost \in Nat
    BY DEF SafeInv, IInv, TypeOK
  <2>2. ASSUME NEW h \in Handler, Continue(h) PROVE lost' = lost \/ lost' = lost + 1
    BY <2>2 DEF Continue, Only, Insert, InsertConflict, RestoreMisses,
         RestoreLookupFails, RestoreRow, RestoreOrder, Claim, ClaimIsLost,
         CdekRejects, CreateIsLost, Save, SaveFails, Fail, PollNumbered,
         PollInvalid, PollAgain, PollRow, PollOrder, Enqueue, RestoreFinds,
         CdekRegisters, LosesCall
  <2>3. ASSUME NEW h \in Handler, NEW o \in Order,
               CallFindsNone(h, o) \/ CallFindsRow(h, o)
        PROVE  lost' = lost
    BY <2>3 DEF CallFindsNone, CallFindsRow, Only
  <2>4. ASSUME NEW h \in Handler, HandlerDies(h) PROVE lost' = lost
    BY <2>4 DEF HandlerDies
  <2>5. ASSUME NEW u \in Uuid,
               \/ CdekNumbers(u) \/ CdekInvalidates(u) \/ CdekRemoves(u)
               \/ \E o \in Order, n \in 1..(MaxLost + MaxCrashes) :
                    CdekRegistersLate(o, n, u)
        PROVE  lost' = lost
    BY <2>5 DEF CdekNumbers, CdekInvalidates, CdekRemoves, CdekDecides, CdekRegistersLate
  <2>6. ASSUME NEW o \in Order, NEW s \in {"SHIPPED", "DELIVERED", "CANCELLED"},
               AdminUpdateStatus(o, s)
        PROVE  lost' = lost
    BY <2>6 DEF AdminUpdateStatus
  <2>7. CASE UNCHANGED vars
    BY <2>7 DEF vars
  <2>8. lost' = lost \/ lost' = lost + 1
    BY <2>2, <2>3, <2>4, <2>5, <2>6, <2>7 DEF Next
  <2>. QED
    BY <2>1, <2>8
<1>2. IInv /\ \A o \in Order : OnceInv(o)
  BY <1>1 DEF SafeInv
<1>3. ASSUME NEW h \in Handler, Continue(h) PROVE \A o \in Order : OnceInv(o)'
  BY <1>2, <1>3, OnceConflict, OnceTaken, OnceGoes, OnceAnswers, OnceWritten,
     OnceFails, OnceRegistered DEF Continue
<1>4. ASSUME NEW h \in Handler, HandlerDies(h) PROVE \A o \in Order : OnceInv(o)'
  BY <1>2, <1>4, OnceDies
<1>5. ASSUME NEW h \in Handler, NEW b \in Order,
             CallFindsNone(h, b) \/ CallFindsRow(h, b)
      PROVE  \A o \in Order : OnceInv(o)'
  BY <1>2, <1>5, OnceCalled
<1>6. ASSUME NEW u \in Uuid, CdekNumbers(u) \/ CdekInvalidates(u) \/ CdekRemoves(u)
      PROVE  \A o \in Order : OnceInv(o)'
  BY <1>2, <1>6, OnceDecided
<1>7. ASSUME NEW u \in Uuid, NEW b \in Order, NEW n \in 1..(MaxLost + MaxCrashes),
             CdekRegistersLate(b, n, u)
      PROVE  \A o \in Order : OnceInv(o)'
  BY <1>2, <1>7, OnceLate
<1>8. ASSUME UNCHANGED <<shipment, remote, late, handler>>
      PROVE  \A o \in Order : OnceInv(o)'
  BY <1>2, <1>8, OnceStays, SameRemotes DEF OnceInv
<1>9. ASSUME NEW b \in Order, NEW s \in {"SHIPPED", "DELIVERED", "CANCELLED"},
             AdminUpdateStatus(b, s)
      PROVE  \A o \in Order : OnceInv(o)'
  BY <1>8, <1>9 DEF AdminUpdateStatus
<1>10. CASE UNCHANGED vars
  BY <1>8, <1>10 DEF vars
<1>. QED
  BY <1>3, <1>4, <1>5, <1>6, <1>7, <1>9, <1>10 DEF Next

\* While every call is answered a free row has nothing behind it at CDEK, for any
\* number of crashes (the catch of createCdekShipmentForPaidOrder).
THEOREM SafeInvariance == Spec => []SafeInv
<1>1. Init => SafeInv
  <2>1. Init => \A o \in Order : OnceInv(o)
    <3>. SUFFICES ASSUME Init, NEW o \in Order PROVE OnceInv(o)
      OBVIOUS
    <3>1. RemotesOf(o) = {} /\ LateOf(o) = {}
      BY DEF Init, RemotesOf, LateOf, NoRemote
    <3>. QED
      BY <3>1 DEF OnceInv, Unspent
  <2>. QED
    BY <2>1, InitInv DEF SafeInv
<1>2. SafeInv /\ [Next]_vars => SafeInv'
  BY SafeNext
<1>. QED
  BY <1>1, <1>2, PTL DEF Spec

\* Repeated webhooks, status checks and retries register an order once, whichever
\* of them die, as long as no call to CDEK fails (createCdekShipmentForPaidOrder).
THEOREM OneLiveWhileAnsweredTheorem == Spec => []OneLiveWhileAnswered
<1>1. SafeInv => OneLiveWhileAnswered
  <2>. SUFFICES ASSUME SafeInv, lost = 0, NEW u \in Uuid, NEW v \in Uuid,
                       Live(u), remote[u].order = remote[v].order
                PROVE  u = v
    BY DEF OneLiveWhileAnswered, OneLiveShipment
  <2>1. remote[u].order \in Order
    BY DEF SafeInv, IInv, TypeOK, Live, Remote
  <2>. QED
    BY <2>1 DEF SafeInv, OnceInv, RemotesOf
<1>. QED
  BY <1>1, SafeInvariance, PTL

\* A step that loses no call leaves a row that says CREATED, and its id.
LEMMA CreatedStays ==
  ASSUME SafeInv, SafeInv', [Next]_vars, NEW o \in Order,
         shipment[o].status = "CREATED", lost' = 0
  PROVE  /\ shipment'[o].status = "CREATED"
         /\ shipment'[o].id = shipment[o].id
<1>1. IInv /\ shipment[o] \in Shipment
  BY DEF SafeInv, IInv, TypeOK
<1>2. \A u, v \in RemotesOf(o)' : u = v
  BY DEF SafeInv, OnceInv
<1>3. RowInv(o) /\ RowInv(o)'
  BY DEF SafeInv, IInv
<1>4. shipment[o].id \in RemotesOf(o) /\ shipment[o].id # None
  BY <1>3 DEF RowInv
<1>5. CASE shipment' = shipment
  BY <1>5
<1>6. ASSUME NEW h \in Handler, Insert(h) \/ Claim(h) \/ RestoreRow(h)
               \/ PollRow(h) \/ Save(h) \/ Fail(h)
      PROVE  /\ shipment'[o].status = "CREATED"
             /\ shipment'[o].id = shipment[o].id
  <2>. DEFINE r == handler[h]
  <2>1. r.order \in Order /\ CallInv(h) /\ UNCHANGED <<remote, late>>
    BY <1>1, <1>6, AtWork DEF Insert, Claim, RestoreRow, PollRow, Save, Fail, At
  <2>2. CASE r.order # o
    BY <1>1, <1>6, <2>1, <2>2
       DEF Insert, Claim, RestoreRow, PollRow, Save, Fail, IInv, TypeOK
  <2>3. CASE r.order = o
    <3>1. ~Insert(h) /\ ~Claim(h)
      BY <2>3 DEF Insert, Claim, Row
    <3>2. RestoreRow(h) \/ Save(h) => r.id \in RemotesOf(o)
      BY <2>1, <2>3 DEF RestoreRow, Save, At, CallInv
    <3>3. \A u, v \in RemotesOf(o) : u = v
      BY <1>2, <2>1 DEF RemotesOf
    <3>4. RestoreRow(h) \/ Save(h) => r.id = shipment[o].id
      BY <1>4, <3>2, <3>3
    <3>5. CASE RestoreRow(h) \/ Save(h) \/ PollRow(h)
      BY <1>1, <2>3, <3>4, <3>5
         DEF RestoreRow, Save, PollRow, IInv, TypeOK, Shipment
    <3>6. ~Fail(h)
      <4>. SUFFICES ASSUME Fail(h) PROVE FALSE
        OBVIOUS
      <4>1. lost = 0
        BY DEF Fail
      <4>2. Unspent(o)
        BY <2>3, <4>1 DEF SafeInv, OnceInv, Fail, At
      <4>. QED
        BY <1>4, <4>2 DEF Unspent
    <3>. QED
      BY <1>6, <3>1, <3>5, <3>6
  <2>. QED
    BY <2>2, <2>3
<1>7. ASSUME shipment' # shipment
      PROVE  \E h \in Handler : Insert(h) \/ Claim(h) \/ RestoreRow(h)
               \/ PollRow(h) \/ Save(h) \/ Fail(h)
  BY <1>7 DEF Next, vars, Continue, CallFindsNone, CallFindsRow, Only, InsertConflict,
       RestoreMisses, RestoreLookupFails, RestoreOrder, ClaimIsLost, CdekRejects,
       CreateIsLost, SaveFails, PollNumbered, PollInvalid, PollAgain, PollOrder,
       Enqueue, RestoreFinds, CdekRegisters, HandlerDies, CdekNumbers,
       CdekInvalidates, CdekRemoves, CdekDecides, CdekRegistersLate,
       AdminUpdateStatus
<1>. QED
  BY <1>5, <1>6, <1>7

\* While every call is answered, a CREATED row keeps its status and its shipment:
\* what a call writes later is the one shipment the order has
\* (the claim, restoreShipmentFromCdekIfExists).
THEOREM CreatedKeepsIdTheorem == Spec => CreatedKeepsId
<1>. DEFINE Keeps == \A o \in Order :
              shipment[o].status = "CREATED" /\ lost' = 0 =>
                /\ shipment'[o].status = "CREATED"
                /\ shipment'[o].id = shipment[o].id
<1>1. SafeInv /\ SafeInv' /\ [Next]_vars => [Keeps]_vars
  BY CreatedStays
<1>. QED
  BY <1>1, SafeInvariance, PTL DEF Spec, CreatedKeepsId

-------------------------------------------------------------------------------
\* Shipments implements Parcels

Shown(o) == IF shipment[o].status = "CREATED" THEN shipment[o].id ELSE None

\* The contract's view of a step that leaves CDEK and the email jobs alone.
LEMMA SameParcels ==
  ASSUME remote' = remote
  PROVE  /\ [o \in Order |-> RemotesOf(o)]' = [o \in Order |-> RemotesOf(o)]
         /\ {o \in Order : \E u \in RemotesOf(o) : remote[u].numbered}' =
              {o \in Order : \E u \in RemotesOf(o) : remote[u].numbered}
BY DEF RemotesOf

\* A row written by a call: shown from now on, or taken back, or of no concern.
LEMMA RowMaps ==
  ASSUME SafeInv, SafeInv', [Next]_vars, NEW o \in Order,
         \A p \in Order : p # o => shipment'[p] = shipment[p],
         UNCHANGED <<remote, jobs, lost>>
  PROVE  Contract!Next \/ UNCHANGED Contract!parcelVars
<1>. DEFINE S == [p \in Order |-> IF shipment[p].status = "CREATED" THEN shipment[p].id
                                  ELSE None]
<1>1. \A p \in Order : p # o => Shown(p)' = Shown(p)
  BY DEF Shown
<1>2. S = [p \in Order |-> Shown(p)] /\ S' = [p \in Order |-> Shown(p)]'
  BY DEF Shown
<1>3. S' = [S EXCEPT ![o] = Shown(o)']
  BY <1>1, <1>2
<1>4. CASE Shown(o)' = Shown(o)
  <2>1. S' = S
    BY <1>2, <1>3, <1>4
  <2>. QED
    BY <2>1, SameParcels DEF Contract!parcelVars
<1>5. CASE Shown(o)' # None /\ Shown(o)' # Shown(o)
  <2>1. shipment'[o].status = "CREATED" /\ Shown(o)' = shipment'[o].id
    BY <1>5 DEF Shown
  <2>2. PICK u \in Uuid : u = Shown(o)' /\ u \in RemotesOf(o)
    BY <1>5, <2>1 DEF SafeInv, IInv, RowInv, RemotesOf
  <2>3. lost = 0 => Shown(o) \in {None, u}
    BY <2>1, <2>2, CreatedStays DEF Shown
  <2>4. Contract!Show(o, u)
    BY <1>2, <1>3, <2>2, <2>3, SameParcels DEF Contract!Show
  <2>. QED
    BY <2>4 DEF Contract!Next
<1>6. CASE Shown(o)' = None /\ Shown(o)' # Shown(o)
  <2>1. shipment[o].status = "CREATED"
    BY <1>6 DEF Shown
  <2>2. shipment'[o].status # "CREATED"
    BY <1>6 DEF Shown, SafeInv, IInv, RowInv
  <2>3. lost # 0
    BY <2>1, <2>2, CreatedStays
  <2>4. Contract!Hide(o)
    BY <1>3, <1>6, <2>3, SameParcels DEF Contract!Hide
  <2>. QED
    BY <2>4 DEF Contract!Next
<1>. QED
  BY <1>4, <1>5, <1>6

\* A registration reaches CDEK, sent by a call that waits or that gave up.
LEMMA RegistrationMaps ==
  ASSUME SafeInv, NEW o \in Order, NEW u \in Uuid, remote[u].status = "absent",
         remote' = [remote EXCEPT ![u] = Registered(o)],
         lost = 0 => RemotesOf(o) = {},
         UNCHANGED <<shipment, jobs, lost>>
  PROVE  Contract!Next
<1>. DEFINE P == [p \in Order |-> RemotesOf(p)]
<1>1. /\ remote \in [Uuid -> Remote] /\ remote[u].order = None
      /\ None \notin Order
  BY DEF SafeInv, IInv, TypeOK
<1>2. \A p \in Order : u \notin RemotesOf(p)
  BY <1>1 DEF RemotesOf
<1>3. /\ RemotesOf(o)' = RemotesOf(o) \cup {u}
      /\ \A p \in Order : p # o => RemotesOf(p)' = RemotesOf(p)
  BY <1>1 DEF RemotesOf, Registered
<1>4. P' = [P EXCEPT ![o] = @ \cup {u}]
  BY <1>3
<1>5. \A v \in Uuid : v # u => remote'[v] = remote[v]
  BY <1>1
<1>6. ~remote'[u].numbered
  BY <1>1 DEF Registered
<1>7. \A p \in Order : (\E v \in RemotesOf(p)' : remote'[v].numbered)
                        <=> (\E v \in RemotesOf(p) : remote[v].numbered)
  BY <1>2, <1>3, <1>5, <1>6 DEF RemotesOf
<1>8. Contract!Register(o, u)
  BY <1>2, <1>4, <1>7 DEF Contract!Register
<1>. QED
  BY <1>8 DEF Contract!Next

\* CDEK numbers a shipment, or gives it up.
LEMMA DecisionMaps ==
  ASSUME SafeInv, NEW u \in Uuid, CdekNumbers(u) \/ CdekInvalidates(u) \/ CdekRemoves(u)
  PROVE  Contract!Next \/ UNCHANGED Contract!parcelVars
<1>1. /\ remote \in [Uuid -> Remote] /\ remote[u].status = "accepted"
      /\ UNCHANGED <<shipment, jobs, lost>>
  BY DEF SafeInv, IInv, TypeOK, CdekNumbers, CdekInvalidates, CdekRemoves, CdekDecides, Live
<1>2. PICK o \in Order : o = remote[u].order
  BY <1>1 DEF SafeInv, IInv, Remote
<1>3. /\ \A v \in Uuid : v # u => remote'[v] = remote[v]
      /\ remote'[u].order = o
  BY <1>1, <1>2
  DEF CdekNumbers, CdekInvalidates, CdekRemoves, CdekDecides, Remote
<1>4. \A p \in Order : RemotesOf(p)' = RemotesOf(p)
  BY <1>2, <1>3 DEF RemotesOf
<1>5. CASE CdekNumbers(u)
  <2>1. remote'[u].numbered
    BY <1>1, <1>5 DEF CdekNumbers, CdekDecides, Remote
  <2>2. u \in RemotesOf(o)
    BY <1>2 DEF RemotesOf
  <2>3. \A p \in Order : (\E v \in RemotesOf(p) : remote'[v].numbered)
                          <=> p = o \/ \E v \in RemotesOf(p) : remote[v].numbered
    BY <1>2, <1>3, <2>1, <2>2 DEF RemotesOf
  <2>4. Contract!Number(o)
    BY <1>1, <1>4, <2>2, <2>3 DEF Contract!Number
  <2>. QED
    BY <2>4 DEF Contract!Next
<1>6. CASE CdekInvalidates(u) \/ CdekRemoves(u)
  <2>1. \A v \in Uuid : remote'[v].numbered = remote[v].numbered
    BY <1>1, <1>3, <1>6 DEF CdekInvalidates, CdekRemoves, CdekDecides, Remote
  <2>2. \A p \in Order : RemotesOf(p) \subseteq Uuid
    BY DEF RemotesOf
  <2>. QED
    BY <1>1, <1>4, <2>1, <2>2 DEF Contract!parcelVars
<1>. QED
  BY <1>5, <1>6

\* The email job is made for a numbered shipment.
LEMMA EmailMaps ==
  ASSUME SafeInv, NEW h \in Handler, Enqueue(h)
  PROVE  Contract!Next
<1>1. PICK o \in Order : o = handler[h].order
  BY AtWork DEF SafeInv, Enqueue, At
<1>2. handler[h].tracking \in RemotesOf(o) /\ remote[handler[h].tracking].numbered
  BY <1>1 DEF SafeInv, IInv, CallInv, Enqueue, At
<1>3. Contract!Tell(o)
  BY <1>1, <1>2, SameParcels DEF Enqueue, Contract!Tell
<1>. QED
  BY <1>3 DEF Contract!Next

\* A call to CDEK fails.
LEMMA LossMaps ==
  ASSUME SafeInv, NEW h \in Handler,
         RestoreLookupFails(h) \/ CreateIsLost(h) \/ SaveFails(h)
  PROVE  Contract!Next
<1>1. lost \in Nat /\ lost' = lost + 1 /\ UNCHANGED <<shipment, jobs, remote>>
  BY DEF SafeInv, IInv, TypeOK, RestoreLookupFails, CreateIsLost, SaveFails, LosesCall
<1>2. (lost' = 0) = FALSE
  BY <1>1
<1>. QED
  BY <1>1, <1>2, SameParcels DEF Contract!Next, Contract!LoseCall

LEMMA ParcelStep ==
  ASSUME SafeInv, SafeInv', [Next]_vars
  PROVE  [Contract!Next]_Contract!parcelVars
<1>. SUFFICES Contract!Next \/ UNCHANGED Contract!parcelVars
  OBVIOUS
<1>1. CASE UNCHANGED <<shipment, jobs, remote, lost>>
  BY <1>1, SameParcels DEF Contract!parcelVars
<1>2. ASSUME NEW h \in Handler, Insert(h) \/ Claim(h) \/ RestoreRow(h)
               \/ PollRow(h) \/ Save(h) \/ Fail(h)
      PROVE  Contract!Next \/ UNCHANGED Contract!parcelVars
  <2>1. PICK o \in Order : o = handler[h].order
    BY <1>2, AtWork DEF SafeInv, Insert, Claim, RestoreRow, PollRow, Save, Fail, At
  <2>2. /\ \A p \in Order : p # o => shipment'[p] = shipment[p]
        /\ UNCHANGED <<remote, jobs, lost>>
    BY <1>2, <2>1
    DEF SafeInv, IInv, TypeOK, Insert, Claim, RestoreRow, PollRow, Save, Fail
  <2>. QED
    BY <2>2, RowMaps
<1>3. ASSUME NEW h \in Handler, NEW u \in Uuid, CdekRegisters(h, u)
      PROVE  Contract!Next
  <2>1. PICK o \in Order : o = handler[h].order
    BY <1>3, AtWork DEF SafeInv, CdekRegisters, At
  <2>2. lost = 0 => RemotesOf(o) = {}
    BY <1>3, <2>1 DEF SafeInv, OnceInv, Unspent, CdekRegisters, At
  <2>. QED
    BY <1>3, <2>1, <2>2, RegistrationMaps DEF CdekRegisters
<1>4. ASSUME NEW o \in Order, NEW n \in 1..(MaxLost + MaxCrashes), NEW u \in Uuid,
             CdekRegistersLate(o, n, u)
      PROVE  Contract!Next
  <2>1. lost = 0 => RemotesOf(o) = {}
    BY <1>4 DEF SafeInv, OnceInv, LateOf, CdekRegistersLate
  <2>. QED
    BY <1>4, <2>1, RegistrationMaps DEF CdekRegistersLate
<1>5. ASSUME NEW h \in Handler, Continue(h)
      PROVE  Contract!Next \/ UNCHANGED Contract!parcelVars
  BY <1>1, <1>2, <1>3, <1>5, EmailMaps, LossMaps
  DEF Continue, Only, InsertConflict, RestoreMisses, RestoreOrder, ClaimIsLost, CdekRejects,
      PollNumbered, PollInvalid, PollAgain, PollOrder, RestoreFinds
<1>. QED
  BY <1>1, <1>4, <1>5, DecisionMaps
  DEF Next, vars, Only, HandlerDies, CallFindsNone, CallFindsRow, AdminUpdateStatus

\* The webhooks, status checks and retries of any number of orders, with what CDEK
\* does to their shipments and whatever is lost or dies, keep the contract of
\* Parcels: one parcel per order and one shown id while CDEK answers, and never an
\* id or a number that CDEK did not give (createCdekShipmentForPaidOrder).
THEOREM Refinement == Spec => ImplementsParcels
<1>1. Init => Contract!Init
  BY DEF Init, Contract!Init, NoRemote, NoShipment, RemotesOf
<1>2. SafeInv /\ SafeInv' /\ [Next]_vars => [Contract!Next]_Contract!parcelVars
  BY ParcelStep
<1>. QED
  BY <1>1, <1>2, SafeInvariance, PTL DEF Spec, ImplementsParcels, Contract!Spec
==============================================================================
