----------------------------- MODULE SalesOrders -----------------------------
(***************************************************************************)
(* SalesOrdersService: allocation promises the units of an order, shipping *)
(* consumes the promise with the goods, cancelling gives it back.          *)
(*                                                                         *)
(* A handler loads the order, checks the status (and perhaps the version)  *)
(* it read, and then opens a transaction that works on that copy.  Two of  *)
(* them read again inside it, at READ COMMITTED, and are two steps each.   *)
(* `fulfill` ships, then reads the lines to find whether any is left: it   *)
(* sees its own shipments and those that others have committed, and holds  *)
(* the locks it has taken.  `replaceLines` deletes the lines that its      *)
(* DELETE sees, which is fewer than there are if others insert meanwhile.  *)
(* The other transactions are one step, as AtomicLedger says they may be.  *)
(*                                                                         *)
(* `exposed` is a history variable: the orders that a request has written  *)
(* on a version it had not loaded, or whose shipment named one line twice. *)
(***************************************************************************)
EXTENDS OrderLines

CONSTANTS Orders,         \* the orders that may be created
          NoOrder,        \* an order that does not exist yet
          LineSets,       \* the lines a payload may carry: a quantity for each pair
          ShipmentLists,  \* the items a fulfil request may name; none means all
          Versions,       \* the versions a client may send, 0 for none
          Requests,       \* the requests, each of them once
          Opening,        \* the row of each pair at the start
          OtherChanges    \* changes of other services on the same rows

ASSUME LineSetsAssumption == \A lines \in LineSets : ValidLines(lines)
ASSUME ShipmentListsAssumption == \A items \in ShipmentLists : ValidItems(items)
ASSUME OrdersOpeningAssumption ==
    /\ Opening \in [Pairs -> Level]
    /\ \A p \in Pairs : Opening[p].quantity >= 0 /\ Opening[p].reserved = 0
(* Sales orders are the only callers that touch a reservation, or ship what *)
(* is promised.                                                             *)
ASSUME OrdersOtherChangesAssumption ==
    \A c \in OtherChanges :
        /\ c \in Change /\ c.kind = "movement" /\ c.reservedDelta = 0
        /\ c.delta < 0 => c.respects

ASSUME FiniteOrdersAssumption == IsFiniteSet(Orders)

VARIABLES
    levels,    \* the committed stock_levels rows
    orders,    \* the sales_orders rows and their items
    pc,        \* where each request stands
    request,   \* its operation, the order as it loaded it, what it ships
    exposed    \* history: see above

vars == <<levels, orders, pc, request, exposed>>

Statuses == {"DRAFT", "ALLOCATED", "PARTIALLY_FULFILLED", "FULFILLED", "CANCELLED"}
Operations == {"allocate", "fulfill", "cancel", "update", "replaceLines"}

Order == [status : Statuses, version : Nat, lines : LineTable]
ASSUME NoOrderAssumption == NoOrder \notin Order

Init ==
    /\ levels = Opening
    /\ orders = [o \in Orders |-> NoOrder]
    /\ pc = [r \in Requests |-> "idle"]
    /\ request = [r \in Requests |-> <<>>]
    /\ exposed = {}

-----------------------------------------------------------------------------
(* The rows locked by a shipment that has not committed. *)
Shipping == {r \in Requests : pc[r] = "shipped"}
IgnoresLocks(changes) == TRUE   \* mutant of Unlocked: nobody waits for an open shipment
Unlocked(changes) ==
    \A r \in Shipping : PairsOf(request[r].items) \cap PairsOf(changes) = {}

(* A request is answered, one way or the other: nothing of it is kept. *)
Answer(r) ==
    /\ pc' = [pc EXCEPT ![r] = "answered"]
    /\ request' = [request EXCEPT ![r] = <<>>]

(* A request writes the order: history notes one that it has not loaded. *)
Expose(r) ==
    LET o == request[r].order IN
    exposed' = IF orders[o].version = request[r].loaded.version
               THEN exposed ELSE exposed \cup {o}
-----------------------------------------------------------------------------
Create(o) ==
    /\ orders[o] = NoOrder
    /\ \E quantities \in LineSets :
          orders' = [orders EXCEPT ![o] =
              [status |-> "DRAFT", version |-> 1, lines |-> FreshLines(quantities, 1)]]
    /\ UNCHANGED <<levels, pc, request, exposed>>

(* Mutant of AllowedStatuses: a fulfilled order can be cancelled. *)
CancelsFulfilled(operation) ==
    CASE operation \in {"allocate", "replaceLines"} -> {"DRAFT"}
      [] operation = "update" -> {"DRAFT", "ALLOCATED"}
      [] operation = "fulfill" -> {"ALLOCATED", "PARTIALLY_FULFILLED"}
      [] operation = "cancel" -> Statuses \ {"CANCELLED"}

(* assertStatus, for each handler. *)
AllowedStatuses(operation) ==
    CASE operation \in {"allocate", "replaceLines"} -> {"DRAFT"}
      [] operation = "update" -> {"DRAFT", "ALLOCATED"}
      [] operation = "fulfill" -> {"ALLOCATED", "PARTIALLY_FULFILLED"}
      [] operation = "cancel" -> {"DRAFT", "ALLOCATED", "PARTIALLY_FULFILLED"}

(* assertVersion: a client that sends the version it read must have the     *)
(* current one; 0 stands for a request without a version.                   *)
VersionOK(operation, expected, current) ==
    operation \in {"update", "replaceLines"} => expected \in {0, current}

Accepts(operation, expected, o) ==
    /\ orders[o] # NoOrder
    /\ orders[o].status \in AllowedStatuses(operation)
    /\ VersionOK(operation, expected, orders[o].version)

Load(r, operation, expected, o) ==
    /\ pc[r] = "idle"
    /\ Accepts(operation, expected, o)
    /\ request' = [request EXCEPT ![r] =
          [operation |-> operation, order |-> o, loaded |-> orders[o], items |-> <<>>]]
    /\ pc' = [pc EXCEPT ![r] = "loaded"]
    /\ UNCHANGED <<levels, orders, exposed>>

RejectLoad(r, operation, expected, o) ==
    /\ pc[r] = "idle"
    /\ ~Accepts(operation, expected, o)
    /\ Answer(r)
    /\ UNCHANGED <<levels, orders, exposed>>

(* The status and version the UPDATE at the end of a transaction writes. *)
Write(r, status, lines) ==
    /\ orders' = [orders EXCEPT ![request[r].order] =
          [status |-> status, version |-> @.version + 1, lines |-> lines]]
    /\ Expose(r)

(* Mutant of ReservationsOf: a cancellation gives back every unit ordered.   *)
ReleasesWholeLines(req) ==
    LET pairs == SetToSeq(DOMAIN req.loaded.lines)
        sign == IF req.operation = "allocate" THEN 1 ELSE -1
    IN
    IF req.operation = "cancel" /\ req.loaded.status = "DRAFT" THEN <<>>
    ELSE [i \in DOMAIN pairs |-> Reserve(pairs[i], sign * req.loaded.lines[pairs[i]].quantity)]

(* The reservations an allocation makes and a cancellation gives back, from *)
(* the order as it was loaded.                                              *)
ReservationsOf(req) ==
    LET order == req.loaded
        all == SetToSeq(DOMAIN order.lines)
        open == SetToSeq(OutstandingPairs(order.lines))
    IN
    CASE req.operation = "allocate" ->
            [i \in DOMAIN all |-> Reserve(all[i], Outstanding(order.lines, all[i]))]
      [] req.operation = "cancel" /\ order.status # "DRAFT" ->
            [i \in DOMAIN open |-> Reserve(open[i], -Outstanding(order.lines, open[i]))]
      [] OTHER -> <<>>

(* allocate and cancel: the reservations and the status, in one transaction. *)
Promise(r) ==
    LET o == request[r].order
        changes == ReservationsOf(request[r])
        status == IF request[r].operation = "allocate" THEN "ALLOCATED" ELSE "CANCELLED"
    IN
    /\ pc[r] = "loaded"
    /\ request[r].operation \in {"allocate", "cancel"}
    /\ Unlocked(changes)
    /\ Applied(levels, changes).accepted
    /\ levels' = Applied(levels, changes).rows
    /\ Write(r, status, orders[o].lines)
    /\ Answer(r)

(* update writes fields no property is about, and the version. *)
Update(r) ==
    LET order == orders[request[r].order] IN
    /\ pc[r] = "loaded"
    /\ request[r].operation = "update"
    /\ Write(r, order.status, order.lines)
    /\ Answer(r)
    /\ UNCHANGED levels

(* The DELETE of replaceLines sees the lines committed when it starts. *)
SeeLines(r) ==
    /\ pc[r] = "loaded"
    /\ request[r].operation = "replaceLines"
    /\ request' = [request EXCEPT ![r] =
          [operation |-> "replaceLines", order |-> @.order, loaded |-> @.loaded,
           items |-> <<>>, seen |-> orders[@.order].version]]
    /\ pc' = [pc EXCEPT ![r] = "replacing"]
    /\ UNCHANGED <<levels, orders, exposed>>

(* It deletes the lines it has seen, once no open shipment holds them, and  *)
(* inserts the new ones, none for a product that a line left has.           *)
ReplaceLines(r) ==
    LET o == request[r].order
        left == LinesLeft(orders[o].lines, request[r].seen)
    IN
    /\ pc[r] = "replacing"
    /\ \A s \in Shipping :
          request[s].order = o => PairsOf(request[s].items) \subseteq DOMAIN left
    /\ \E quantities \in LineSets :
          /\ DOMAIN quantities \cap DOMAIN left = {}
          /\ Write(r, orders[o].status, Inserted(left, quantities, orders[o].version + 1))
    /\ Answer(r)
    /\ UNCHANGED levels

-----------------------------------------------------------------------------
(* The goods of each item leave with the promise they were held by. *)
ShipmentsOf(items) == [i \in DOMAIN items |-> Ship(items[i].pair, items[i].quantity)]

(* The request passes resolveShipments, and its transaction can ship every  *)
(* line of it: the lines it ships are still there and the rows allow it.    *)
CanShip(r, named) ==
    LET loaded == request[r].loaded.lines
        items == ItemsOf(loaded, named)
    IN
    /\ ItemsOK(loaded, named)
    /\ items # <<>>
    /\ StillThere(items, loaded, orders[request[r].order].lines)
    /\ Applied(levels, ShipmentsOf(items)).accepted

(* The transaction ships the lines, then reads all the lines of the order.  *)
ShipLines(r, named) ==
    LET o == request[r].order
        items == ItemsOf(request[r].loaded.lines, named)
    IN
    /\ pc[r] = "loaded"
    /\ request[r].operation = "fulfill"
    /\ Unlocked(items)
    /\ CanShip(r, named)
    /\ request' = [request EXCEPT ![r] =
          [operation |-> "fulfill", order |-> o, loaded |-> @.loaded, items |-> items,
           complete |-> Complete(MoveLines(orders[o].lines, items))]]
    /\ pc' = [pc EXCEPT ![r] = "shipped"]
    /\ UNCHANGED <<levels, orders, exposed>>

(* It writes the status that follows from what it read, and commits. *)
CommitShipment(r) ==
    LET o == request[r].order
        items == request[r].items
        status == IF request[r].complete THEN "FULFILLED" ELSE "PARTIALLY_FULFILLED"
    IN
    /\ pc[r] = "shipped"
    /\ levels' = Applied(levels, ShipmentsOf(items)).rows
    /\ orders' = [orders EXCEPT ![o] =
          [status |-> status, version |-> @.version + 1,
           lines |-> MoveLines(@.lines, items)]]
    /\ exposed' = IF orders[o].version = request[r].loaded.version /\ ~NamesOneTwice(items)
                  THEN exposed ELSE exposed \cup {o}
    /\ Answer(r)
-----------------------------------------------------------------------------
(* 409: a reservation is refused. *)
RefusePromise(r) ==
    /\ pc[r] = "loaded"
    /\ request[r].operation \in {"allocate", "cancel"}
    /\ Unlocked(ReservationsOf(request[r]))
    /\ ~Applied(levels, ReservationsOf(request[r])).accepted
    /\ Answer(r)
    /\ UNCHANGED <<levels, orders, exposed>>

(* 400, 404 or 409: the items are wrong, a line is gone, or a row refuses. *)
RefuseShipment(r, named) ==
    /\ pc[r] = "loaded"
    /\ request[r].operation = "fulfill"
    /\ ~CanShip(r, named)
    /\ Answer(r)
    /\ UNCHANGED <<levels, orders, exposed>>

(* A deadlock, a duplicate line, the time limit or a crash: a rollback. *)
Fail(r) ==
    /\ pc[r] \in {"loaded", "replacing", "shipped"}
    /\ Answer(r)
    /\ UNCHANGED <<levels, orders, exposed>>

(* Receipts, dispatches, adjustments and transfers by the other services. *)
OtherChange(c) ==
    /\ ~Malformed(c)
    /\ Unlocked(<<c>>)
    /\ Applied(levels, <<c>>).accepted
    /\ levels' = Applied(levels, <<c>>).rows
    /\ UNCHANGED <<orders, pc, request, exposed>>

(* Every request has been answered. *)
Quiet ==
    /\ \A r \in Requests : pc[r] = "answered"
    /\ UNCHANGED vars

Handle(r) ==
    \/ \E operation \in Operations, expected \in Versions, o \in Orders :
          Load(r, operation, expected, o) \/ RejectLoad(r, operation, expected, o)
    \/ Promise(r) \/ RefusePromise(r) \/ Update(r) \/ SeeLines(r) \/ ReplaceLines(r)
    \/ \E named \in ShipmentLists : ShipLines(r, named) \/ RefuseShipment(r, named)
    \/ CommitShipment(r) \/ Fail(r)

Next ==
    \/ \E o \in Orders : Create(o)
    \/ \E r \in Requests : Handle(r)
    \/ \E c \in OtherChanges : OtherChange(c)
    \/ Quiet

Spec == Init /\ [][Next]_vars
-----------------------------------------------------------------------------
OrderOK(order) ==
    /\ order.status \in Statuses /\ order.version \in Nat /\ IsLineTable(order.lines)
    /\ \A p \in DOMAIN order.lines : order.lines[p].insertedAt <= order.version

(* A request at work holds an earlier state of an order that exists, which   *)
(* its operation accepts; one that ships holds items of it.                  *)
RequestOK(r) ==
    IF pc[r] \in {"loaded", "replacing", "shipped"}
    THEN LET req == request[r] IN
         /\ req.operation \in Operations
         /\ req.order \in Orders /\ orders[req.order] # NoOrder
         /\ OrderOK(req.loaded)
         /\ req.loaded.status \in AllowedStatuses(req.operation)
         /\ req.loaded.version <= orders[req.order].version
         /\ ValidItems(req.items)
    ELSE request[r] = <<>>

(* Every variable has its type, every request too, and two open shipments    *)
(* never hold the same row.                                                  *)
TypeOK ==
    /\ levels \in [Pairs -> Level]
    /\ DOMAIN orders = Orders
    /\ \A o \in Orders : orders[o] # NoOrder => OrderOK(orders[o])
    /\ pc \in [Requests -> {"idle", "loaded", "replacing", "shipped", "answered"}]
    /\ DOMAIN request = Requests /\ \A r \in Requests : RequestOK(r)
    /\ \A r, s \in Shipping :
          r # s => PairsOf(request[r].items) \cap PairsOf(request[s].items) = {}
    /\ exposed \subseteq Orders

Positive(n) == IF n > 0 THEN n ELSE 0

(* The units of a pair promised to orders and not shipped yet. *)
Awaited(order, p) ==
    IF /\ order # NoOrder
       /\ order.status \in {"ALLOCATED", "PARTIALLY_FULFILLED"}
       /\ p \in DOMAIN order.lines
    THEN Positive(Outstanding(order.lines, p)) ELSE 0
Promised(p) == SumFunction([o \in Orders |-> Awaited(orders[o], p)])

(* "reservedQuantity is held by allocated sales orders": what a row reserves *)
(* is what the open orders still wait for, neither more, which would strand  *)
(* stock, nor less, which would promise it twice; and it is on the shelf.    *)
(* While no order has been exposed to a request that had not seen it.        *)
ReservationsBacked ==
    exposed = {} =>
        \A p \in Pairs : levels[p].reserved = Promised(p) /\ Covered(levels[p])

(* The status of an order says what has been shipped of it: nothing before  *)
(* it is allocated, something and not everything, or everything; and a line *)
(* never ships more than was ordered.                                       *)
StatusMatchesLines ==
    \A o \in Orders \ exposed : orders[o] # NoOrder =>
        LET lines == orders[o].lines
            shipped == {p \in DOMAIN lines : lines[p].moved > 0}
            open == OutstandingPairs(lines)
        IN
        /\ \A p \in DOMAIN lines : lines[p].moved <= lines[p].quantity
        /\ orders[o].status \in {"DRAFT", "ALLOCATED"} => shipped = {}
        /\ orders[o].status = "PARTIALLY_FULFILLED" => shipped # {} /\ open # {}
        /\ (orders[o].status = "FULFILLED") <=> (open = {})

(* A finished order stays as it is: no request revives it or ships for it,  *)
(* unless one that had loaded it before goes through.                       *)
FinishedStaysFinished ==
    [][\A o \in Orders \ exposed' :
          orders[o] # NoOrder =>
              (orders[o].status \in {"FULFILLED", "CANCELLED"} => orders'[o] = orders[o])]_vars

(* "Allocation reserves units without moving them, so two orders cannot     *)
(* promise the same last item": the units open orders wait for are there.   *)
PromisesKept == \A p \in Pairs : Promised(p) <= levels[p].quantity
=============================================================================
