------------------------------ MODULE AdminOrders ------------------------------
(***************************************************************************)
(* The orders of the admin pages: M_AdminOrdersWidget with its table, the  *)
(* requests it makes (shared/api/adminOrders) and ordersController, which  *)
(* lists the orders, sets their status and tries their shipment again.     *)
(*                                                                         *)
(* React runs an event handler, then renders, then runs the effect whose   *)
(* dependencies changed; loadOrders is made anew at a render whose query   *)
(* changed, and a handler that awaits goes on with the one it was made     *)
(* with.  App shows the widget to an admin who is logged in and unmounts   *)
(* it at a logout, so that its branch for !isAuth never runs.  The modal   *)
(* may be opened and closed at any time; that changes nothing here.  The   *)
(* orders are the admin's alone: what customers and CDEK change meanwhile  *)
(* is not in the table before the next load, by design.                    *)
(***************************************************************************)
EXTENDS Naturals, SequencesExt

CONSTANTS
  ListedOrder, \* the orders, numbers in the order of createdAt, which no two share
  Expensive,   \* those with the larger of two totals
  Matching,    \* those that a search which is not empty finds
  Limit,       \* DEFAULT_LIMIT, the size of a page
  MaxActions,  \* events of the admin (a bound)
  MaxLoads     \* requests under way at the same time (a bound)

ASSUME AdminOrdersAssumption ==
  /\ ListedOrder \subseteq Nat /\ IsFiniteSet(ListedOrder)
  /\ Matching \subseteq ListedOrder /\ Expensive \subseteq ListedOrder
  /\ Limit \in Nat \ {0} /\ {MaxActions, MaxLoads} \subseteq Nat

VARIABLES
  database,   \* Order rows: status, and how the newest Shipment stands
  mounted,    \* the widget is shown: isAuth, and a page of the shop
  query,      \* page, search, sortBy, sortDir
  stale,      \* the effect is due: the widget is new, or loadOrders is
  table,      \* orders, total and totalPages that were loaded, error
  isLoading,
  disabled,   \* the rows whose select, or retry button, is disabled: one or none
  loads,      \* getAdminOrders under way, in the order they were asked
  operation,  \* updateAdminOrderStatus and retryOrderShipment under way
  actions,    \* events so far
  disturbed   \* what the table may stay wrong after

adminVars == <<database, mounted, query, stale, table, isLoading, disabled, loads,
               operation, actions, disturbed>>

-------------------------------------------------------------------------------
ManualStatus == {"SHIPPED", "DELIVERED", "CANCELLED"}

\* A shipment is "pending" as long as it has no tracking number.
AdminRow == [status : {"PAID", "FULFILLMENT_PENDING"} \cup ManualStatus,
             shipment : {"none", "pending", "numbered", "failed"}]

\* What parsePositiveQueryInteger, parseSortBy and parseSortDir let through.
Query == [page : Nat \ {0}, search : BOOLEAN, sortBy : {"createdAt", "total"},
          sortDir : {"asc", "desc"}]

\* at: its place in the list, from 0 and over all pages.
TableRow   == [at : Nat, id : ListedOrder, row : AdminRow]
Table      == [orders : SUBSET TableRow, total : Nat, totalPages : Nat, error : BOOLEAN]
EmptyTable == [orders |-> {}, total |-> 0, totalPages |-> 0, error |-> FALSE]

\* for: what called loadOrders, the effect or a handler that ends with it.
Load      == [query : Query, answer : Table, served : BOOLEAN,
              for : {"effect", "status", "retry"}]
\* An operation keeps the query of the loadOrders it will call; status "" is the
\* first option of the select, or a retry.
Operation == [kind : {"status", "retry"}, id : ListedOrder, status : ManualStatus \cup {""},
              query : Query, result : {"none", "done", "refused"}, live : BOOLEAN]

NoneDisabled == [kind \in {"status", "retry"} |-> {}]

FirstQuery == [page |-> 1, search |-> FALSE, sortBy |-> "createdAt", sortDir |-> "desc"]

AdminInit ==
  /\ database = [o \in ListedOrder |-> [status |-> "PAID", shipment |-> "failed"]]
  /\ mounted = FALSE /\ stale = FALSE /\ query = FirstQuery
  /\ table = EmptyTable /\ isLoading = FALSE
  /\ disabled = NoneDisabled
  /\ loads = <<>> /\ operation = {}
  /\ actions = 0 /\ disturbed = FALSE

-------------------------------------------------------------------------------
\* ordersController

\* buildOrdersWhere
Found(search) == IF search THEN Matching ELSE ListedOrder

\* orderBy has one key: no order of the same total comes before another.
Before(q, a, b) ==
  LET key(o) == IF q.sortBy = "createdAt" THEN o ELSE IF o \in Expensive THEN 2 ELSE 1
  IN IF q.sortDir = "asc" THEN key(a) < key(b) ELSE key(a) > key(b)

\* The lists that Postgres may make of what is found, an order's place in each.
\* Between orders of the same total it decides, at every request anew.
Listings(q) ==
  LET found == Found(q.search)
  IN {list \in Bijection(found, 0 .. Cardinality(found) - 1) :
        \A a, b \in found : Before(q, a, b) => list[a] < list[b]}

\* skip and take of findMany.
Page(q, list) ==
  {o \in Found(q.search) : (q.page - 1) * Limit <= list[o] /\ list[o] < q.page * Limit}

\* getOrders: count and findMany of one page.
getOrders(q, list) ==
  LET total == Cardinality(Found(q.search))
  IN [orders |-> {[at |-> list[o], id |-> o, row |-> database[o]] : o \in Page(q, list)},
      total |-> total, totalPages |-> (total + Limit - 1) \div Limit, error |-> FALSE]

\* retryShipment, and canRetryAdminOrderShipment with what the table shows: the
\* payment of every order here succeeded.
canRetryAdminOrderShipment(r) == r.shipment # "numbered"

-------------------------------------------------------------------------------
Screen == <<mounted, query, stale, table, isLoading, disabled>>

\* finally of handleUpdateStatus or of handleRetryShipment, whatever row is
\* disabled by then.
Enable(kind) ==
  disabled' = [k \in DOMAIN disabled |-> IF k = kind THEN {} ELSE disabled[k]]

\* A load that begins while another is under way, or with a query that is not
\* the current one any more, may leave the table wrong.
LoadOrders(q, for) ==
  /\ Len(loads) < MaxLoads
  /\ loads' = Append(loads, [query |-> q, answer |-> EmptyTable, served |-> FALSE,
                             for |-> for])
  /\ isLoading' = TRUE
  /\ disturbed' = (disturbed \/ loads # <<>> \/ q # query)

\* Mutant: loadOrders does not depend on the sorting.
SetQueryUnsorted(q) ==
  /\ query' = q
  /\ stale' = (stale \/ q.page # query.page \/ q.search # query.search)

SetQuery(q) ==
  /\ query' = q
  /\ stale' = (stale \/ q # query)

\* The effect of M_AdminOrdersWidget.
Effect ==
  /\ stale /\ stale' = FALSE
  /\ LoadOrders(query, "effect")
  /\ table' = [table EXCEPT !.error = FALSE]
  /\ UNCHANGED <<database, mounted, query, disabled, operation, actions>>

LoadServed(i) ==
  /\ ~loads[i].served
  /\ \E list \in Listings(loads[i].query) :
       loads' = [loads EXCEPT ![i].served = TRUE,
                              ![i].answer = getOrders(loads[i].query, list)]
  /\ UNCHANGED <<database, Screen, operation, actions, disturbed>>

\* The rest of loadOrders: the table, and the page, are those of the answer.
LoadAnswered(i) ==
  /\ loads[i].served
  /\ table' = loads[i].answer
  /\ SetQuery([query EXCEPT !.page = loads[i].query.page])
  /\ isLoading' = FALSE /\ Enable(loads[i].for)
  /\ loads' = RemoveAt(loads, i)
  /\ UNCHANGED <<database, mounted, operation, actions, disturbed>>

LoadFails(i) ==
  /\ table' = [EmptyTable EXCEPT !.error = TRUE]
  /\ isLoading' = FALSE /\ Enable(loads[i].for)
  /\ loads' = RemoveAt(loads, i)
  /\ UNCHANGED <<database, mounted, query, stale, operation, actions, disturbed>>

-------------------------------------------------------------------------------
\* The controls

Event == actions < MaxActions /\ actions' = actions + 1

Controls(q) ==
  /\ mounted /\ Event /\ SetQuery(q)
  /\ UNCHANGED <<database, mounted, table, isLoading, disabled, loads, operation, disturbed>>

handleSearchSubmit(search) ==
  ~isLoading /\ Controls([query EXCEPT !.page = 1, !.search = search])

resetSearch ==
  ~(isLoading /\ ~query.search) /\ Controls([query EXCEPT !.page = 1, !.search = FALSE])

applySort(sortBy) ==
  Controls([query EXCEPT !.page = 1, !.sortBy = sortBy,
              !.sortDir = IF sortBy = query.sortBy /\ @ = "desc" THEN "asc" ELSE "desc"])

PreviousPage == query.page > 1 /\ ~isLoading /\ Controls([query EXCEPT !.page = @ - 1])
NextPage ==
  query.page < table.totalPages /\ ~isLoading /\ Controls([query EXCEPT !.page = @ + 1])

\* A login leads to the shop, where the widget is new.
Mount ==
  /\ ~mounted /\ Event
  /\ mounted' = TRUE /\ stale' = TRUE
  /\ UNCHANGED <<database, query, table, isLoading, disabled, loads, operation, disturbed>>

\* A logout, or the way to a page outside of the shop: the state is lost, and
\* what is under way goes on without it.
Unmount ==
  /\ mounted /\ Event
  /\ mounted' = FALSE /\ stale' = FALSE /\ query' = FirstQuery
  /\ table' = EmptyTable /\ isLoading' = FALSE /\ loads' = <<>>
  /\ disabled' = NoneDisabled
  /\ operation' = {[p EXCEPT !.live = FALSE] : p \in operation}
  /\ UNCHANGED <<database, disturbed>>

Shown(o) == \E r \in table.orders : r.id = o
RowShown(o) == (CHOOSE r \in table.orders : r.id = o).row

\* handleUpdateStatus and handleRetryShipment up to their request.  One id
\* remembers the control that is disabled, so that a second row takes it over;
\* that the very same request is not under way twice is a bound.
Operate(kind, o, status) ==
  LET new == [kind |-> kind, id |-> o, status |-> status, query |-> query,
              result |-> "none", live |-> TRUE]
  IN /\ mounted /\ Event
     /\ o \notin disabled[kind] /\ new \notin operation
     /\ disabled' = [disabled EXCEPT ![kind] = {o}]
     /\ operation' = operation \cup {new}
     /\ UNCHANGED <<database, mounted, query, stale, table, isLoading, loads, disturbed>>

\* The select shows a status it can set, or its first option.
Selected(o) == IF RowShown(o).status \in ManualStatus THEN RowShown(o).status ELSE ""

handleUpdateStatus(o, status) ==
  Shown(o) /\ status # Selected(o) /\ Operate("status", o, status)

handleRetryShipment(o) ==
  /\ Shown(o) /\ canRetryAdminOrderShipment(RowShown(o))
  /\ Operate("retry", o, "")

\* updateStatus, or retryShipment with whatever becomes of the shipment; the
\* status "" is refused, and a retry may be, after it changed the shipment.
OperationServed(p, shipment, result) ==
  /\ p.result = "none"
  /\ result = "refused" => p.kind = "retry" \/ p.status = ""
  /\ result = "done" => p.kind = "retry" \/ p.status # ""
  /\ database' = IF p.kind = "retry" THEN [database EXCEPT ![p.id].shipment = shipment]
                 ELSE IF result = "done" THEN [database EXCEPT ![p.id].status = p.status]
                 ELSE database
  /\ operation' = (operation \ {p}) \cup {[p EXCEPT !.result = result]}
  /\ disturbed' = (disturbed \/ (database' # database /\ (result = "refused" \/ ~p.live)))
  /\ UNCHANGED <<Screen, loads, actions>>

\* The rest of the handler: the orders are loaded again, with the loadOrders of
\* the click.
OperationDone(p) ==
  /\ p.live /\ p.result = "done"
  /\ operation' = operation \ {p}
  /\ LoadOrders(p.query, p.kind)
  /\ table' = [table EXCEPT !.error = FALSE]
  /\ UNCHANGED <<database, mounted, query, stale, disabled, actions>>

\* After an error a toast is all; the connection may be lost before or after the
\* backend did it, and the widget may be gone.
OperationFails(p) ==
  /\ operation' = operation \ {p}
  /\ disturbed' = (disturbed \/ (p.live /\ p.result = "done"))
  /\ IF p.live THEN Enable(p.kind) ELSE UNCHANGED disabled
  /\ UNCHANGED <<database, mounted, query, stale, table, isLoading, loads, actions>>

Answers ==
  \/ \E i \in DOMAIN loads : LoadServed(i) \/ LoadAnswered(i) \/ LoadFails(i)
  \/ \E p \in operation :
       \/ \E shipment \in {"numbered", "failed"}, result \in {"done", "refused"} :
            OperationServed(p, shipment, result)
       \/ OperationDone(p) \/ OperationFails(p)

AdminNext ==
  \/ Effect \/ Answers
  \/ \E search \in BOOLEAN : handleSearchSubmit(search)
  \/ resetSearch \/ PreviousPage \/ NextPage \/ Mount \/ Unmount
  \/ \E sortBy \in {"createdAt", "total"} : applySort(sortBy)
  \/ \E o \in ListedOrder :
       \/ \E status \in ManualStatus \cup {""} : handleUpdateStatus(o, status)
       \/ handleRetryShipment(o)

AdminFairness == WF_adminVars(Effect) /\ WF_adminVars(Answers)

AdminSpec == AdminInit /\ [][AdminNext]_adminVars /\ AdminFairness

-------------------------------------------------------------------------------
\* Properties

AdminTypeOK ==
  /\ database \in [ListedOrder -> AdminRow]
  /\ {mounted, stale, isLoading, disturbed} \subseteq BOOLEAN
  /\ query \in Query /\ table \in Table
  /\ disabled \in [{"status", "retry"} -> SUBSET ListedOrder]
  /\ loads \in Seq(Load) /\ Len(loads) <= MaxLoads
  /\ operation \subseteq Operation
  /\ actions \in 0 .. MaxActions

\* Somebody will load the table again, with what it was told before.
Reload == \E p \in operation : p.live /\ p.result = "done"

\* What the backend could answer now.
IsAnswer(t, q) == \E list \in Listings(q) : t = getOrders(q, list)

Current(t, q) == IsAnswer(t, q) \/ Reload

\* What the table rests on until it is disturbed: one load at a time, for the query
\* that the controls show unless the effect is due, and answered with the orders as
\* they are, or as they were before a change whose handler will load them again
\* (loadOrders, its dependencies, handleUpdateStatus, handleRetryShipment).
TableInv ==
  ~disturbed =>
    /\ Len(loads) <= 1
    /\ isLoading <=> loads # <<>>
    /\ mounted /\ ~stale =>
         /\ \A i \in DOMAIN loads :
              /\ loads[i].query = query
              /\ loads[i].served => Current(loads[i].answer, query)
         /\ loads = <<>> => table.error \/ Current(table, query)

AdminInv ==
  /\ AdminTypeOK
  /\ ~mounted => ~stale /\ loads = <<>> /\ \A p \in operation : ~p.live
  /\ TableInv

\* A table that is not being loaded shows the page, search and order that are
\* selected, with the rows the database holds, unless it was disturbed or an
\* operation has yet to end (loadOrders, getOrders).
TableIsCurrent ==
  mounted /\ ~stale /\ ~isLoading /\ ~disturbed /\ operation = {} =>
    table.error \/ IsAnswer(table, query)

\* The admin's table settles on what the controls say and the database holds:
\* when the admin stops, after any clicks, the page, search and order that are
\* selected are the ones shown, with the rows as the admin's own changes left
\* them, or an error is.  Excepted are loads that overlapped or used an older
\* query, and operations of which the widget was not told (loadOrders and its
\* dependencies, the effect, handleUpdateStatus, getOrders).
TableSettles ==
  <>disturbed \/ <>[](mounted =>
                       /\ ~stale /\ ~isLoading
                       /\ table.error \/ IsAnswer(table, query))
===============================================================================
