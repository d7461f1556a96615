---------------------------- MODULE PurchaseOrders ----------------------------
(***************************************************************************)
(* PurchaseOrdersService: an order is written, submitted, received in      *)
(* parts, or cancelled before anything has come in.                        *)
(*                                                                         *)
(* As with sales orders, a handler loads the order, checks the status (and *)
(* the version, if the client sent one) that it read, and then writes.     *)
(* `receive` books the goods line by line and then reads the lines to find *)
(* whether the order is complete; `replaceLines` deletes the lines that    *)
(* its DELETE sees.  Each is two steps here, the other writes are one.     *)
(*                                                                         *)
(* `blind` is a history variable: which orders were written by a request   *)
(* that had not seen their latest version, and the version the client had  *)
(* sent along, if any.  `repeated` is another: the orders of which one     *)
(* request named a line twice.                                             *)
(***************************************************************************)
EXTENDS OrderLines

CONSTANTS Orders,         \* the orders that may be created
          NoOrder,        \* an order that does not exist yet
          LineSets,       \* the lines a payload may carry: a quantity for each pair
          ReceiptLists,   \* the items a receive request may name; none means all
          Versions,       \* the versions a client may send, 0 for none
          Requests,       \* the requests, each of them once
          Opening         \* the row of each pair at the start

ASSUME ReceivedLineSetsAssumption == \A lines \in LineSets : ValidLines(lines)
ASSUME ReceiptListsAssumption == \A items \in ReceiptLists : ValidItems(items)
ASSUME ReceiptsOpeningAssumption ==
    /\ Opening \in [Pairs -> Level]
    /\ \A p \in Pairs : NonNegative(Opening[p]) /\ Covered(Opening[p])
ASSUME FiniteOrdersAssumption == IsFiniteSet(Orders)
ASSUME VersionsAssumption == Versions \subseteq Nat /\ 0 \in Versions

VARIABLES
    levels,     \* the committed stock_levels rows
    booked,     \* units in the ledger rows that refer to each order, by pair
    orders,     \* the purchase_orders rows and their items
    pc,         \* where each request stands
    request,    \* its operation, the order as it loaded it, what it receives
    blind,      \* history: see above
    repeated    \* history: see above

vars == <<levels, booked, orders, pc, request, blind, repeated>>

Statuses == {"DRAFT", "SUBMITTED", "PARTIALLY_RECEIVED", "RECEIVED", "CANCELLED"}
Operations == {"update", "replaceLines", "submit", "receive", "cancel"}

Order == [status : Statuses, version : Nat, lines : LineTable]
ASSUME NoOrderAssumption == NoOrder \notin Order

Init ==
    /\ levels = Opening
    /\ booked = [o \in Orders |-> [p \in Pairs |-> 0]]
    /\ orders = [o \in Orders |-> NoOrder]
    /\ pc = [r \in Requests |-> "idle"]
    /\ request = [r \in Requests |-> <<>>]
    /\ blind = {}
    /\ repeated = {}

-----------------------------------------------------------------------------
(* The receipts that have locked rows and not committed. *)
Receiving == {r \in Requests : pc[r] = "received"}
Unlocked(items) ==
    \A r \in Receiving : PairsOf(request[r].items) \cap PairsOf(items) = {}

Answer(r) ==
    /\ pc' = [pc EXCEPT ![r] = "answered"]
    /\ request' = [request EXCEPT ![r] = <<>>]

(* Every write raises the version, and none of them asks for the version    *)
(* the handler loaded.                                                      *)
Write(r, status, lines) ==
    LET o == request[r].order IN
    /\ orders' = [orders EXCEPT ![o] =
          [status |-> status, version |-> @.version + 1, lines |-> lines]]
    /\ blind' = IF orders[o].version = request[r].loaded.version THEN blind
                ELSE blind \cup {[order |-> o, sent |-> request[r].sent]}

-----------------------------------------------------------------------------
Create(o) ==
    /\ orders[o] = NoOrder
    /\ \E quantities \in LineSets :
          orders' = [orders EXCEPT ![o] =
              [status |-> "DRAFT", version |-> 1, lines |-> FreshLines(quantities, 1)]]
    /\ UNCHANGED <<levels, booked, pc, request, blind, repeated>>

(* Mutant of AllowedStatuses: lines are replaced until all has come in. *)
EditsReceivedOrders(operation) ==
    CASE operation = "update" -> {"DRAFT", "SUBMITTED"}
      [] operation = "submit" -> {"DRAFT"}
      [] operation = "replaceLines" -> {"DRAFT", "SUBMITTED", "PARTIALLY_RECEIVED"}
      [] operation = "receive" -> {"SUBMITTED", "PARTIALLY_RECEIVED"}
      [] operation = "cancel" -> {"DRAFT", "SUBMITTED"}

(* assertStatus, for each handler. *)
AllowedStatuses(operation) ==
    CASE operation = "update" -> {"DRAFT", "SUBMITTED"}
      [] operation \in {"replaceLines", "submit"} -> {"DRAFT"}
      [] operation = "receive" -> {"SUBMITTED", "PARTIALLY_RECEIVED"}
      [] operation = "cancel" -> {"DRAFT", "SUBMITTED"}

(* assertVersion, which only the edits call. *)
VersionOK(operation, sent, current) ==
    operation \in {"update", "replaceLines"} => sent \in {0, current}

(* Only an order without receipts can be cancelled. *)
Untouched(order) == \A p \in DOMAIN order.lines : order.lines[p].moved = 0

AcceptsAnyStatus(operation, sent, o) ==     \* mutant of Accepts: without assertStatus
    /\ orders[o] # NoOrder
    /\ VersionOK(operation, sent, orders[o].version)
    /\ operation = "cancel" => Untouched(orders[o])

Accepts(operation, sent, o) ==
    /\ orders[o] # NoOrder
    /\ orders[o].status \in AllowedStatuses(operation)
    /\ VersionOK(operation, sent, orders[o].version)
    /\ operation = "cancel" => Untouched(orders[o])

Load(r, operation, sent, o) ==
    /\ pc[r] = "idle"
    /\ Accepts(operation, sent, o)
    /\ request' = [request EXCEPT ![r] =
          [operation |-> operation, order |-> o, loaded |-> orders[o], items |-> <<>>,
           sent |-> IF operation \in {"update", "replaceLines"} THEN sent ELSE 0]]
    /\ pc' = [pc EXCEPT ![r] = "loaded"]
    /\ UNCHANGED <<levels, booked, orders, blind, repeated>>

RejectLoad(r, operation, sent, o) ==
    /\ pc[r] = "idle"
    /\ ~Accepts(operation, sent, o)
    /\ Answer(r)
    /\ UNCHANGED <<levels, booked, orders, blind, repeated>>

(* update, submit and cancel: one UPDATE.  update writes fields no property *)
(* is about, and the version.                                               *)
WriteStatus(r) ==
    LET order == orders[request[r].order] IN
    /\ pc[r] = "loaded"
    /\ \/ request[r].operation = "update" /\ Write(r, order.status, order.lines)
       \/ request[r].operation = "submit" /\ Write(r, "SUBMITTED", order.lines)
       \/ request[r].operation = "cancel" /\ Write(r, "CANCELLED", order.lines)
    /\ Answer(r)
    /\ UNCHANGED <<levels, booked, repeated>>

(* The DELETE of replaceLines sees the lines committed when it starts. *)
SeeLines(r) ==
    LET seen == orders[request[r].order].version IN
    /\ pc[r] = "loaded"
    /\ request[r].operation = "replaceLines"
    /\ request' = [request EXCEPT ![r] =
          [operation |-> "replaceLines", order |-> @.order, loaded |-> @.loaded,
           items |-> <<>>, sent |-> @.sent, seen |-> seen]]
    /\ pc' = [pc EXCEPT ![r] = "replacing"]
    /\ UNCHANGED <<levels, booked, orders, blind, repeated>>

(* It deletes the lines it has seen, once no open receipt holds them, and   *)
(* inserts the new ones, none for a product that a line left has.           *)
ReplaceLines(r) ==
    LET order == orders[request[r].order]
        left == LinesLeft(order.lines, request[r].seen)
    IN
    /\ pc[r] = "replacing"
    /\ \A s \in Receiving :
          request[s].order = request[r].order => PairsOf(request[s].items) \subseteq DOMAIN left
    /\ \E quantities \in LineSets :
          /\ DOMAIN quantities \cap DOMAIN left = {}
          /\ Write(r, order.status, Inserted(left, quantities, order.version + 1))
    /\ Answer(r)
    /\ UNCHANGED <<levels, booked, repeated>>

-----------------------------------------------------------------------------
ReceiptsOf(items) == [i \in DOMAIN items |-> RecordIn(items[i].pair, items[i].quantity)]

(* The request passes resolveReceipts, and its transaction can book every   *)
(* line of it: the lines are still there and the rows have room.            *)
CanReceive(r, named) ==
    LET loaded == request[r].loaded.lines
        items == ItemsOf(loaded, named)
    IN
    /\ ItemsOK(loaded, named)
    /\ items # <<>>
    /\ StillThere(items, loaded, orders[request[r].order].lines)
    /\ Applied(levels, ReceiptsOf(items)).accepted

(* The transaction books the lines, then reads all the lines of the order.  *)
ReceiveLines(r, named) ==
    LET o == request[r].order
        items == ItemsOf(request[r].loaded.lines, named)
    IN
    /\ pc[r] = "loaded"
    /\ request[r].operation = "receive"
    /\ Unlocked(items)
    /\ CanReceive(r, named)
    /\ request' = [request EXCEPT ![r] =
          [operation |-> "receive", order |-> o, loaded |-> @.loaded, items |-> items,
           sent |-> 0, complete |-> Complete(MoveLines(orders[o].lines, items))]]
    /\ pc' = [pc EXCEPT ![r] = "received"]
    /\ UNCHANGED <<levels, booked, orders, blind, repeated>>

(* Mutant of CommitReceipt: complete if every line the request named is.    *)
LooksAtNamedLines(r) ==
    LET o == request[r].order
        items == request[r].items
        lines == MoveLines(orders[o].lines, items)
        full == \A p \in PairsOf(items) : lines[p].moved >= lines[p].quantity
    IN
    /\ pc[r] = "received"
    /\ levels' = Applied(levels, ReceiptsOf(items)).rows
    /\ booked' = [booked EXCEPT ![o] = [p \in Pairs |-> @[p] + UnitsOf(items, p)]]
    /\ Write(r, IF full THEN "RECEIVED" ELSE "PARTIALLY_RECEIVED", lines)
    /\ repeated' = IF NamesOneTwice(items) THEN repeated \cup {o} ELSE repeated
    /\ Answer(r)

(* It writes the status that follows from what it read, and commits. *)
CommitReceipt(r) ==
    LET o == request[r].order
        items == request[r].items
    IN
    /\ pc[r] = "received"
    /\ levels' = Applied(levels, ReceiptsOf(items)).rows
    /\ booked' = [booked EXCEPT ![o] = [p \in Pairs |-> @[p] + UnitsOf(items, p)]]
    /\ Write(r, IF request[r].complete THEN "RECEIVED" ELSE "PARTIALLY_RECEIVED",
             MoveLines(orders[o].lines, items))
    /\ repeated' = IF NamesOneTwice(items) THEN repeated \cup {o} ELSE repeated
    /\ Answer(r)

(* Mutant of RefuseReceipt: the line before the refused one stays booked.   *)
KeepsFirstLine(r, named) ==
    LET first == SubSeq(ReceiptsOf(ItemsOf(request[r].loaded.lines, named)), 1, 1) IN
    /\ pc[r] = "loaded"
    /\ request[r].operation = "receive"
    /\ ItemsOK(request[r].loaded.lines, named)
    /\ ~CanReceive(r, named)
    /\ levels' = IF Applied(levels, first).accepted THEN Applied(levels, first).rows ELSE levels
    /\ Answer(r)
    /\ UNCHANGED <<booked, orders, blind, repeated>>

(* 400, 404 or 409: the items are wrong, a line is gone, a row has no room. *)
RefuseReceipt(r, named) ==
    /\ pc[r] = "loaded"
    /\ request[r].operation = "receive"
    /\ ~CanReceive(r, named)
    /\ Answer(r)
    /\ UNCHANGED <<levels, booked, orders, blind, repeated>>

(* A deadlock, a duplicate line, the time limit or a crash: a rollback. *)
Fail(r) ==
    /\ pc[r] \in {"loaded", "replacing", "received"}
    /\ Answer(r)
    /\ UNCHANGED <<levels, booked, orders, blind, repeated>>

(* Every request has been answered. *)
Quiet ==
    /\ \A r \in Requests : pc[r] = "answered"
    /\ UNCHANGED vars

Handle(r) ==
    \/ \E operation \in Operations, sent \in Versions, o \in Orders :
          Load(r, operation, sent, o) \/ RejectLoad(r, operation, sent, o)
    \/ WriteStatus(r) \/ SeeLines(r) \/ ReplaceLines(r)
    \/ \E named \in ReceiptLists : ReceiveLines(r, named) \/ RefuseReceipt(r, named)
    \/ CommitReceipt(r) \/ Fail(r)

Next ==
    \/ \E o \in Orders : Create(o)
    \/ \E r \in Requests : Handle(r)
    \/ Quiet

Spec == Init /\ [][Next]_vars
-----------------------------------------------------------------------------
OrderOK(order) ==
    /\ order.status \in Statuses /\ order.version \in Nat /\ IsLineTable(order.lines)
    /\ \A p \in DOMAIN order.lines : order.lines[p].insertedAt <= order.version

(* A request at work holds an earlier state of an order that exists, which   *)
(* its operation accepts; one that receives holds items of it.               *)
RequestOK(r) ==
    IF pc[r] \in {"loaded", "replacing", "received"}
    THEN LET req == request[r] IN
         /\ req.operation \in Operations /\ req.sent \in Versions
         /\ req.order \in Orders /\ orders[req.order] # NoOrder
         /\ OrderOK(req.loaded)
         /\ req.loaded.status \in AllowedStatuses(req.operation)
         /\ req.loaded.version <= orders[req.order].version
         /\ ValidItems(req.items)
    ELSE request[r] = <<>>

(* Every variable has its type, and every request too. *)
TypeOK ==
    /\ levels \in [Pairs -> Level]
    /\ booked \in [Orders -> [Pairs -> Nat]]
    /\ DOMAIN orders = Orders
    /\ \A o \in Orders : orders[o] # NoOrder => OrderOK(orders[o])
    /\ pc \in [Requests -> {"idle", "loaded", "replacing", "received", "answered"}]
    /\ DOMAIN request = Requests /\ \A r \in Requests : RequestOK(r)
    /\ blind \subseteq [order : Orders, sent : Versions]
    /\ repeated \subseteq Orders

(* The orders a request has written without having seen them. *)
Overwritten == {entry.order : entry \in blind}

(* "Once anything has been received the lines are bound to ledger entries    *)
(* that must continue to reconcile": the units each line says have come in   *)
(* are those the ledger has booked for the order, and nothing is booked for  *)
(* a product that has no line, unless a request wrote an order unseen.       *)
LinesReconcile ==
    \A o \in Orders \ Overwritten :
        \A p \in Pairs :
            booked[o][p] = IF orders[o] # NoOrder /\ p \in DOMAIN orders[o].lines
                           THEN orders[o].lines[p].moved ELSE 0

(* What is on the shelf is what was there and what the orders have brought,  *)
(* whatever else happens to the orders: a receipt is booked as a whole or    *)
(* not at all, even next to another one of the same line.                    *)
ReceiptsAreOnTheShelf ==
    \A p \in Pairs :
        levels[p].quantity
            = Opening[p].quantity + SumFunction([o \in Orders |-> booked[o][p]])

(* The status of an order says what has come in for it: nothing, part of it  *)
(* or all of it; and a line never receives more than was ordered.            *)
StatusMatchesLines ==
    \A o \in Orders \ (Overwritten \cup repeated) : orders[o] # NoOrder =>
        LET lines == orders[o].lines IN
        /\ \A p \in DOMAIN lines : lines[p].moved <= lines[p].quantity
        /\ orders[o].status \in {"DRAFT", "SUBMITTED", "CANCELLED"} => Untouched(orders[o])
        /\ orders[o].status = "PARTIALLY_RECEIVED" => ~Untouched(orders[o]) /\ ~Complete(lines)
        /\ orders[o].status = "RECEIVED" => Complete(lines)

(* The contract's "version the client last read; a mismatch is rejected with *)
(* 409": a client that sends a version never overwrites one it has not read. *)
StaleEditsRefused == \A entry \in blind : entry.sent = 0
=============================================================================
