-------------------------- MODULE SalesOrdersProofs --------------------------
(***************************************************************************)
(* Proofs about SalesOrders, for every set of orders and pairs, every      *)
(* payload, every list of items, every opening stock, every change by the  *)
(* other services and any number of requests.                              *)
(***************************************************************************)
EXTENDS SalesOrders, StockLemmas

AtWork(r) == pc[r] \in {"loaded", "replacing", "shipped"}
Writes(r) == Promise(r) \/ Update(r) \/ ReplaceLines(r) \/ CommitShipment(r)

(* A step of a request writes its order, or only notes what it has read, or *)
(* only answers.                                                            *)
LEMMA NextCases ==
    ASSUME Next
    PROVE  \/ \E o \in Orders : Create(o)
           \/ \E r \in Requests, operation \in Operations, expected \in Versions, o \in Orders :
                 Load(r, operation, expected, o)
           \/ \E r \in Requests : SeeLines(r)
           \/ \E r \in Requests, named \in ShipmentLists : ShipLines(r, named)
           \/ \E r \in Requests : Writes(r)
           \/ \E r \in Requests : Answer(r) /\ UNCHANGED <<levels, orders, exposed>>
           \/ \E c \in OtherChanges : OtherChange(c)
           \/ UNCHANGED vars
  <1>1. CASE \E o \in Orders : Create(o)
    BY <1>1
  <1>2. CASE \E r \in Requests : Handle(r)
    <2>1. PICK r \in Requests : Handle(r)
      BY <1>2
    <2>2. CASE \E operation \in Operations, expected \in Versions, o \in Orders :
                  Load(r, operation, expected, o) \/ RejectLoad(r, operation, expected, o)
      BY <2>2 DEF RejectLoad
    <2>3. CASE \E named \in ShipmentLists : ShipLines(r, named) \/ RefuseShipment(r, named)
      BY <2>3 DEF RefuseShipment
    <2>4. CASE SeeLines(r) \/ Promise(r) \/ Update(r) \/ ReplaceLines(r) \/ CommitShipment(r)
      BY <2>4 DEF Writes
    <2>5. CASE RefusePromise(r) \/ Fail(r)
      BY <2>5 DEF RefusePromise, Fail
    <2> QED
      BY <2>1, <2>2, <2>3, <2>4, <2>5, Zenon DEF Handle
  <1>3. CASE \E c \in OtherChanges : OtherChange(c)
    BY <1>3
  <1>4. CASE Quiet
    BY <1>4 DEF Quiet
  <1> QED
    BY <1>1, <1>2, <1>3, <1>4 DEF Next

(* What a request at work holds. *)
LEMMA Held ==
    ASSUME TypeOK, NEW r \in Requests, AtWork(r)
    PROVE  LET req == request[r] IN
           /\ req.operation \in Operations
           /\ req.order \in Orders /\ orders[req.order] # NoOrder
           /\ OrderOK(orders[req.order]) /\ OrderOK(req.loaded)
           /\ req.loaded.status \in AllowedStatuses(req.operation)
           /\ req.loaded.version <= orders[req.order].version
           /\ ValidItems(req.items)
  BY DEF TypeOK, RequestOK, AtWork

(* An order written out as a record is one. *)
LEMMA OrderRecord ==
    ASSUME NEW status \in Statuses, NEW version \in Nat, NEW lines, IsLineTable(lines),
           \A p \in DOMAIN lines : lines[p].insertedAt <= version
    PROVE  LET order == [status |-> status, version |-> version, lines |-> lines] IN
           OrderOK(order) /\ order # NoOrder
  <1> DEFINE order == [status |-> status, version |-> version, lines |-> lines]
  <1>1. lines \in LineTable
    BY DEF IsLineTable, LineTable
  <1>2. order \in Order
    BY <1>1 DEF Order
  <1>3. OrderOK(order)
    BY DEF OrderOK
  <1> HIDE DEF order
  <1> QED
    BY <1>2, <1>3, NoOrderAssumption DEF order

(* No order disappears, and its version only grows. *)
Grows ==
    \A o \in Orders :
        orders[o] # NoOrder => orders'[o] # NoOrder /\ orders[o].version <= orders'[o].version

(* A request writes a status and lines to its order, and raises its version. *)
Rewrites(r, status, lines) ==
    orders' = [orders EXCEPT ![request[r].order] =
        [status |-> status, version |-> @.version + 1, lines |-> lines]]

(* Such a write leaves the order it writes, one version on. *)
LEMMA WriteFacts ==
    ASSUME TypeOK, NEW r \in Requests, AtWork(r),
           NEW status \in Statuses, NEW lines, IsLineTable(lines),
           \A p \in DOMAIN lines : lines[p].insertedAt <= orders[request[r].order].version + 1,
           Rewrites(r, status, lines)
    PROVE  LET o == request[r].order IN
           /\ DOMAIN orders' = Orders
           /\ \A q \in Orders \ {o} : orders'[q] = orders[q]
           /\ orders'[o] = [status |-> status, version |-> orders[o].version + 1,
                            lines |-> lines]
           /\ orders'[o] # NoOrder
           /\ \A q \in Orders : orders'[q] # NoOrder => OrderOK(orders'[q])
           /\ Grows
  <1> DEFINE o == request[r].order
  <1>1. /\ o \in Orders /\ orders[o] # NoOrder /\ OrderOK(orders[o])
        /\ orders[o].version \in Nat
    BY Held DEF OrderOK
  <1>2. /\ DOMAIN orders' = Orders
        /\ \A q \in Orders \ {o} : orders'[q] = orders[q]
        /\ orders'[o] = [status |-> status, version |-> orders[o].version + 1, lines |-> lines]
    BY <1>1 DEF Rewrites, TypeOK
  <1>3. OrderOK(orders'[o]) /\ orders'[o] # NoOrder
    <2>1. orders[o].version + 1 \in Nat
      BY <1>1
    <2> QED
      BY <1>2, <2>1, OrderRecord
  <1>4. \A q \in Orders : orders'[q] # NoOrder => OrderOK(orders'[q])
    BY <1>2, <1>3 DEF TypeOK
  <1>5. orders'[o].version = orders[o].version + 1
    BY <1>2
  <1>6. ASSUME NEW q \in Orders, orders[q] # NoOrder
        PROVE  orders'[q] # NoOrder /\ orders[q].version <= orders'[q].version
    <2>1. orders[q].version \in Nat
      BY <1>6 DEF TypeOK, OrderOK
    <2>2. CASE q = o
      BY <1>3, <1>5, <2>1, <2>2
    <2>3. CASE q # o
      BY <1>2, <1>6, <2>1, <2>3
    <2> QED
      BY <2>2, <2>3
  <1> QED
    BY <1>2, <1>3, <1>4, <1>6 DEF Grows

(* The lines a replacement leaves: those of the payload, and lines that were *)
(* there.                                                                    *)
LEMMA ReplacedLines ==
    ASSUME TypeOK, NEW r \in Requests, pc[r] = "replacing",
           NEW quantities \in LineSets
    PROVE  LET order == orders[request[r].order]
               lines == Inserted(LinesLeft(order.lines, request[r].seen), quantities,
                                 order.version + 1)
           IN
           /\ IsLineTable(lines) /\ DOMAIN quantities \subseteq DOMAIN lines
           /\ \A p \in DOMAIN lines :
                /\ lines[p].insertedAt <= order.version + 1
                /\ \/ /\ p \in DOMAIN order.lines
                      /\ lines[p].moved = order.lines[p].moved
                      /\ lines[p].quantity = order.lines[p].quantity
                   \/ lines[p].moved = 0 /\ lines[p].quantity \in Nat /\ lines[p].quantity > 0
  <1> DEFINE order == orders[request[r].order]
             left == LinesLeft(order.lines, request[r].seen)
             lines == Inserted(left, quantities, order.version + 1)
  <1>1. order.version \in Nat /\ IsLineTable(order.lines)
        /\ \A p \in DOMAIN order.lines : order.lines[p].insertedAt <= order.version
    BY Held DEF AtWork, OrderOK
  <1>2. ValidLines(quantities)
    BY LineSetsAssumption
  <1>3. IsLineTable(left) /\ \A p \in DOMAIN left : p \in DOMAIN order.lines
                                                  /\ left[p] = order.lines[p]
    <2> HIDE DEF order
    <2> QED
      BY <1>1, LinesLeftFacts
  <1>4. order.version + 1 \in Nat \ {0}
    BY <1>1
  <1>5. /\ IsLineTable(lines) /\ DOMAIN lines = DOMAIN left \cup DOMAIN quantities
        /\ \A p \in DOMAIN lines :
              \/ p \in DOMAIN left /\ lines[p] = left[p]
              \/ /\ p \in DOMAIN quantities
                 /\ lines[p] = [quantity |-> quantities[p], moved |-> 0,
                                insertedAt |-> order.version + 1]
    <2> DEFINE version == order.version + 1
    <2>1. version \in Nat \ {0}
      BY <1>4
    <2> HIDE DEF left, version
    <2>2. IsLineTable(Inserted(left, quantities, version))
          /\ DOMAIN Inserted(left, quantities, version) = DOMAIN left \cup DOMAIN quantities
      BY <1>2, <1>3, <2>1, InsertedFacts
    <2>3. \A p \in DOMAIN Inserted(left, quantities, version) :
             InsertedLine(Inserted(left, quantities, version), left, quantities, version, p)
      BY <1>2, <1>3, <2>1, InsertedFacts
    <2> QED
      BY <2>2, <2>3 DEF version, InsertedLine
  <1>6. ASSUME NEW p \in DOMAIN lines
        PROVE  /\ lines[p].insertedAt <= order.version + 1
               /\ \/ /\ p \in DOMAIN order.lines
                     /\ lines[p].moved = order.lines[p].moved
                     /\ lines[p].quantity = order.lines[p].quantity
                  \/ lines[p].moved = 0 /\ lines[p].quantity \in Nat /\ lines[p].quantity > 0
    <2> HIDE DEF order, left, lines
    <2>1. CASE p \in DOMAIN left /\ lines[p] = left[p]
      <3>1. lines[p] = order.lines[p] /\ p \in DOMAIN order.lines
        BY <1>3, <2>1
      <3>2. order.lines[p].insertedAt \in Nat /\ order.lines[p].insertedAt <= order.version
        BY <1>1, <3>1, LineTypes
      <3> QED
        BY <1>1, <3>1, <3>2
    <2>2. CASE /\ p \in DOMAIN quantities
               /\ lines[p] = [quantity |-> quantities[p], moved |-> 0,
                              insertedAt |-> order.version + 1]
      BY <1>1, <1>2, <2>2 DEF ValidLines
    <2> QED
      BY <1>5, <2>1, <2>2
  <1> HIDE DEF order, left
  <1> QED
    BY <1>5, <1>6 DEF order, left

(* The items a shipment takes are items its order had when it was loaded. *)
LEMMA ShippedItems ==
    ASSUME TypeOK, NEW r \in Requests, NEW named \in ShipmentLists, ShipLines(r, named)
    PROVE  LET items == ItemsOf(request[r].loaded.lines, named) IN
           ValidItems(items) /\ items # <<>> /\ ItemsOK(request[r].loaded.lines, items)
  <1>1. IsLineTable(request[r].loaded.lines) /\ ItemsOK(request[r].loaded.lines, named)
        /\ ItemsOf(request[r].loaded.lines, named) # <<>>
    BY Held DEF ShipLines, CanShip, AtWork, OrderOK
  <1>2. ValidItems(named)
    BY ShipmentListsAssumption
  <1> QED
    BY <1>1, <1>2, ItemsOfFacts

(* The stock changes of a shipment: as many units as its item names leave    *)
(* with the promise they were held by.                                       *)
LEMMA ShipmentChanges ==
    ASSUME NEW items, ValidItems(items)
    PROVE  /\ DOMAIN ShipmentsOf(items) = 1..Len(items) /\ Len(items) \in Nat
           /\ \A i \in 1..Len(items) :
                /\ SoundChange(ShipmentsOf(items)[i])
                /\ ShipmentsOf(items)[i].pair = items[i].pair
                /\ ShipmentsOf(items)[i].delta = 0 - items[i].quantity
                /\ ShipmentsOf(items)[i].reservedDelta = 0 - items[i].quantity
  <1>1. /\ DOMAIN items = 1..Len(items) /\ Len(items) \in Nat
        /\ \A i \in 1..Len(items) : items[i].pair \in Pairs /\ items[i].quantity \in Nat
    BY ItemTypes
  <1>2. DOMAIN ShipmentsOf(items) = 1..Len(items)
    BY <1>1 DEF ShipmentsOf
  <1>3. ASSUME NEW i \in 1..Len(items)
        PROVE  /\ SoundChange(ShipmentsOf(items)[i])
               /\ ShipmentsOf(items)[i].pair = items[i].pair
               /\ ShipmentsOf(items)[i].delta = 0 - items[i].quantity
               /\ ShipmentsOf(items)[i].reservedDelta = 0 - items[i].quantity
    <2>1. items[i].pair \in Pairs /\ items[i].quantity \in Nat
      BY <1>1
    <2>2. ShipmentsOf(items)[i] = Ship(items[i].pair, items[i].quantity)
      BY <1>1 DEF ShipmentsOf
    <2>3. Ship(items[i].pair, items[i].quantity)
             = [kind |-> "movement", pair |-> items[i].pair, type |-> "OUTBOUND",
                delta |-> 0 - items[i].quantity, reservedDelta |-> 0 - items[i].quantity,
                respects |-> FALSE]
      <3>1. -items[i].quantity = 0 - items[i].quantity
        BY <2>1
      <3> QED
        BY <3>1 DEF Ship
    <2> QED
      BY <2>1, <2>2, <2>3
         DEF SoundChange, Change, MovementTypes, IncreasingTypes, DecreasingTypes
  <1> QED
    BY <1>1, <1>2, <1>3

(* A shipment takes from each row, and from its promises, the units its      *)
(* items name of it.                                                         *)
LEMMA ShipmentRows ==
    ASSUME NEW rows \in [Pairs -> Level], NEW items, ValidItems(items)
    PROVE  LET after == Applied(rows, ShipmentsOf(items)).rows IN
           /\ after \in [Pairs -> Level]
           /\ \A p \in Pairs : after[p].reserved = rows[p].reserved - UnitsOf(items, p)
           /\ (\A p \in Pairs : Covered(rows[p])) => \A p \in Pairs : Covered(after[p])
  <1> DEFINE changes == ShipmentsOf(items)
             after == Applied(rows, changes).rows
             n == Len(items)
  <1>1. /\ DOMAIN changes = 1..n /\ n \in Nat /\ DOMAIN items = 1..n
        /\ \A i \in 1..n : /\ SoundChange(changes[i])
                            /\ changes[i].pair = items[i].pair
                            /\ changes[i].delta = 0 - items[i].quantity
                            /\ changes[i].reservedDelta = 0 - items[i].quantity
                            /\ items[i].quantity \in Nat
    BY ShipmentChanges, ItemTypes
  <1>2. /\ after \in [Pairs -> Level]
        /\ \A p \in Pairs :
             after[p].reserved = rows[p].reserved + SumFunctionOnSet(PromisesOf(changes, p), 1..n)
    <2> HIDE DEF changes, n
    <2> QED
      BY <1>1, AppliedSums
  <1>3. ASSUME NEW p \in Pairs
        PROVE  SumFunctionOnSet(PromisesOf(changes, p), 1..n) = 0 - UnitsOf(items, p)
    <2> DEFINE f == [i \in DOMAIN items |->
                       IF items[i].pair = p THEN items[i].quantity ELSE 0]
               e == PromisesOf(changes, p)
               z == [i \in 1..n |-> 0]
    <2>1. UnitsOf(items, p) = SumFunctionOnSet(f, 1..n)
      BY <1>1 DEF UnitsOf, SumFunction
    <2>2. IsFiniteSet(1..n)
      BY <1>1, FS_Interval
    <2> HIDE DEF changes, n
    <2>3. \A i \in 1..n : f[i] \in Int /\ e[i] \in Int /\ z[i] = f[i] + e[i]
      BY <1>1 DEF PromisesOf
    <2> HIDE DEF f, e, z
    <2>4. SumFunctionOnSet(z, 1..n) = SumFunctionOnSet(f, 1..n) + SumFunctionOnSet(e, 1..n)
      BY <2>2, <2>3, SumAdds
    <2>5. SumFunctionOnSet(z, 1..n) = 0
      BY <2>2, SumZero DEF z
    <2>6. SumFunctionOnSet(f, 1..n) \in Int /\ SumFunctionOnSet(e, 1..n) \in Int
      BY <2>2, <2>3, SumInt
    <2>7. SumFunctionOnSet(e, 1..n) = 0 - UnitsOf(items, p)
      BY <2>1, <2>4, <2>5, <2>6
    <2> QED
      BY <2>7 DEF e
  <1>4. ASSUME NEW p \in Pairs PROVE after[p].reserved = rows[p].reserved - UnitsOf(items, p)
    <2>1. rows[p].reserved \in Int /\ UnitsOf(items, p) \in Nat
      BY UnitsOfFacts DEF Level
    <2> HIDE DEF after, changes, n
    <2> QED
      BY <1>2, <1>3, <2>1
  <1>5. ASSUME \A p \in Pairs : Covered(rows[p]) PROVE \A p \in Pairs : Covered(after[p])
    <2>1. \A i \in 1..n : CoverChange(changes[i], Applied(rows, changes).accepted)
      BY <1>1 DEF CoverChange
    <2> HIDE DEF changes, n
    <2> QED
      BY <1>1, <1>5, <2>1, AppliedCovers
  <1> HIDE DEF n, changes
  <1> QED
    BY <1>2, <1>4, <1>5 DEF changes

(* A reservation for each pair of a set, of the units meant for it. *)
ReservesEach(changes, S, units) ==
    /\ \A p \in S : units[p] \in Int
    /\ DOMAIN changes = 1..Cardinality(S)
    /\ \A i \in 1..Cardinality(S) :
           changes[i] = Reserve(SetToSeq(S)[i], units[SetToSeq(S)[i]])

(* Reservations for each pair of a set, one after the other, add to what the *)
(* row of each pair reserves the units meant for it; and if all of them are  *)
(* accepted, what is reserved is there.                                      *)
LEMMA ReserveEach ==
    ASSUME NEW rows \in [Pairs -> Level], NEW S, S \subseteq Pairs, IsFiniteSet(S),
           NEW units, NEW changes, ReservesEach(changes, S, units)
    PROVE  LET after == Applied(rows, changes).rows IN
           /\ after \in [Pairs -> Level]
           /\ \A p \in Pairs :
                after[p].reserved = rows[p].reserved + (IF p \in S THEN units[p] ELSE 0)
           /\ (\A p \in Pairs : Covered(rows[p])) /\ Applied(rows, changes).accepted
                => \A p \in Pairs : Covered(after[p])
  <1> DEFINE n == Cardinality(S)
             each == SetToSeq(S)
             after == Applied(rows, changes).rows
  <1>1. /\ n \in Nat /\ each \in [1..n -> S]
        /\ \A i, j \in 1..n : each[i] = each[j] => i = j
        /\ \A p \in S : \E i \in 1..n : each[i] = p
    BY SetToSeqFacts
  <1> HIDE DEF n, each
  <1>2. \A i \in 1..n :
           changes[i] = [kind |-> "reservation", pair |-> each[i], type |-> "ADJUSTMENT",
                         delta |-> 0, reservedDelta |-> units[each[i]], respects |-> FALSE]
    BY DEF ReservesEach, Reserve, n, each
  <1>3. \A i \in 1..n : /\ SoundChange(changes[i]) /\ changes[i].kind = "reservation"
                         /\ changes[i].pair = each[i]
                         /\ changes[i].reservedDelta = units[each[i]]
    <2> SUFFICES ASSUME NEW i \in 1..n
                 PROVE  /\ SoundChange(changes[i]) /\ changes[i].kind = "reservation"
                        /\ changes[i].pair = each[i]
                        /\ changes[i].reservedDelta = units[each[i]]
      OBVIOUS
    <2> DEFINE pair == each[i]
               promise == units[pair]
    <2>1. pair \in Pairs /\ promise \in Int
      BY <1>1 DEF ReservesEach
    <2>2. changes[i] = [kind |-> "reservation", pair |-> pair, type |-> "ADJUSTMENT",
                        delta |-> 0, reservedDelta |-> promise, respects |-> FALSE]
      BY <1>2
    <2> HIDE DEF pair, promise
    <2>3. SoundChange(changes[i]) /\ changes[i].kind = "reservation"
          /\ changes[i].pair = pair /\ changes[i].reservedDelta = promise
      BY <2>1, <2>2 DEF SoundChange, Change, MovementTypes
    <2> QED
      BY <2>3 DEF pair, promise
  <1>4. DOMAIN changes = 1..n
    BY DEF ReservesEach, n
  <1>5. /\ after \in [Pairs -> Level]
        /\ \A p \in Pairs :
             after[p].reserved = rows[p].reserved + SumFunctionOnSet(PromisesOf(changes, p), 1..n)
    <2>1. n \in Nat /\ \A i \in 1..n : SoundChange(changes[i])
      BY <1>1, <1>3
    <2> HIDE DEF after
    <2>2. /\ Applied(rows, changes).rows \in [Pairs -> Level]
          /\ \A p \in Pairs :
                Applied(rows, changes).rows[p].reserved
                   = rows[p].reserved + SumFunctionOnSet(PromisesOf(changes, p), 1..n)
      BY <1>4, <2>1, AppliedSums
    <2> QED
      BY <2>2 DEF after
  <1>6. ASSUME NEW p \in Pairs
        PROVE  SumFunctionOnSet(PromisesOf(changes, p), 1..n) = IF p \in S THEN units[p] ELSE 0
    <2> DEFINE f == PromisesOf(changes, p)
    <2>1. \A i \in 1..n : f[i] = IF each[i] = p THEN units[each[i]] ELSE 0
      BY <1>3, <1>4 DEF PromisesOf
    <2>2. IsFiniteSet(1..n)
      BY <1>1, FS_Interval
    <2> HIDE DEF f
    <2>3. CASE p \in S
      <3>1. PICK i \in 1..n : each[i] = p
        BY <1>1, <2>3
      <3>2. f[i] = units[p] /\ f[i] \in Int
        BY <2>1, <2>3, <3>1 DEF ReservesEach
      <3>3. \A j \in (1..n) \ {i} : f[j] = 0
        BY <1>1, <2>1, <3>1
      <3>4. SumFunctionOnSet(f, 1..n) = f[i]
        BY <2>2, <3>2, <3>3, SumSingle
      <3> QED
        BY <2>3, <3>2, <3>4 DEF f
    <2>4. CASE p \notin S
      <3>1. \A i \in 1..n : f[i] = 0
        BY <1>1, <2>1, <2>4
      <3> QED
        BY <2>2, <2>4, <3>1, SumZero DEF f
    <2> QED
      BY <2>3, <2>4
  <1>7. ASSUME \A p \in Pairs : Covered(rows[p]), Applied(rows, changes).accepted
        PROVE  \A p \in Pairs : Covered(after[p])
    <2>1. \A i \in 1..n : CoverChange(changes[i], Applied(rows, changes).accepted)
      BY <1>3, <1>7 DEF CoverChange
    <2> QED
      BY <1>1, <1>3, <1>4, <1>7, <2>1, AppliedCovers
  <1> HIDE DEF after
  <1> QED
    BY <1>5, <1>6, <1>7 DEF after

(* The units of a pair an allocation promises; a cancellation takes back. *)
ReservedFor(req, p) ==
    LET order == req.loaded IN
    CASE req.operation = "allocate" ->
            IF p \in DOMAIN order.lines THEN Outstanding(order.lines, p) ELSE 0
      [] req.operation = "cancel" /\ order.status # "DRAFT" ->
            IF p \in OutstandingPairs(order.lines) THEN 0 - Outstanding(order.lines, p) ELSE 0
      [] OTHER -> 0

(* An allocation and a cancellation change what a row reserves by that. *)
LEMMA ReservationRows ==
    ASSUME NEW rows \in [Pairs -> Level], NEW req, IsLineTable(req.loaded.lines)
    PROVE  LET after == Applied(rows, ReservationsOf(req)).rows IN
           /\ after \in [Pairs -> Level]
           /\ \A p \in Pairs : after[p].reserved = rows[p].reserved + ReservedFor(req, p)
           /\ (\A p \in Pairs : Covered(rows[p])) /\ Applied(rows, ReservationsOf(req)).accepted
                => \A p \in Pairs : Covered(after[p])
  <1> DEFINE lines == req.loaded.lines
             changes == ReservationsOf(req)
  <1>0. /\ IsFiniteSet(DOMAIN lines) /\ IsFiniteSet(OutstandingPairs(lines))
        /\ DOMAIN lines \subseteq Pairs /\ OutstandingPairs(lines) \subseteq DOMAIN lines
        /\ \A p \in DOMAIN lines : Outstanding(lines, p) \in Int
    <2> HIDE DEF lines
    <2> QED
      BY LineTypes DEF OutstandingPairs, lines
  <1>1. CASE req.operation = "allocate"
    <2> DEFINE S == DOMAIN lines
               units == [p \in S |-> Outstanding(lines, p)]
    <2>1. changes = [i \in DOMAIN SetToSeq(S) |->
                        Reserve(SetToSeq(S)[i], Outstanding(lines, SetToSeq(S)[i]))]
      BY <1>1 DEF ReservationsOf
    <2>2. \A p \in S : units[p] \in Int
      BY <1>0
    <2>3. SetToSeq(S) \in [1..Cardinality(S) -> S]
      BY <1>0, SetToSeqFacts
    <2>4. \A p \in Pairs : ReservedFor(req, p) = IF p \in S THEN units[p] ELSE 0
      BY <1>1 DEF ReservedFor
    <2> HIDE DEF changes, lines
    <2>5. ReservesEach(changes, S, units)
      BY <2>1, <2>2, <2>3 DEF ReservesEach
    <2> HIDE DEF units, S
    <2>6. S \subseteq Pairs /\ IsFiniteSet(S)
      BY <1>0 DEF S
    <2>7. LET after == Applied(rows, changes).rows IN
          /\ after \in [Pairs -> Level]
          /\ \A p \in Pairs :
               after[p].reserved = rows[p].reserved + (IF p \in S THEN units[p] ELSE 0)
          /\ (\A p \in Pairs : Covered(rows[p])) /\ Applied(rows, changes).accepted
               => \A p \in Pairs : Covered(after[p])
      BY <2>5, <2>6, ReserveEach
    <2> QED
      BY <2>4, <2>7 DEF changes
  <1>2. CASE req.operation = "cancel" /\ req.loaded.status # "DRAFT"
    <2> DEFINE S == OutstandingPairs(lines)
               units == [p \in S |-> 0 - Outstanding(lines, p)]
    <2>1. changes = [i \in DOMAIN SetToSeq(S) |->
                        Reserve(SetToSeq(S)[i], -Outstanding(lines, SetToSeq(S)[i]))]
      BY <1>2 DEF ReservationsOf
    <2>2. \A p \in S : units[p] \in Int
      BY <1>0
    <2>3. SetToSeq(S) \in [1..Cardinality(S) -> S]
      BY <1>0, SetToSeqFacts
    <2>4. \A p \in Pairs : ReservedFor(req, p) = IF p \in S THEN units[p] ELSE 0
      BY <1>2 DEF ReservedFor
    <2>5. \A p \in S : -Outstanding(lines, p) = units[p]
      <3> SUFFICES ASSUME NEW p \in S PROVE -Outstanding(lines, p) = 0 - Outstanding(lines, p)
        OBVIOUS
      <3>1. Outstanding(lines, p) \in Int
        BY <1>0
      <3> QED
        BY <3>1
    <2> HIDE DEF changes, lines
    <2>6. ReservesEach(changes, S, units)
      BY <2>1, <2>2, <2>3, <2>5 DEF ReservesEach
    <2> HIDE DEF units, S
    <2>7. S \subseteq Pairs /\ IsFiniteSet(S)
      BY <1>0 DEF S
    <2>8. LET after == Applied(rows, changes).rows IN
          /\ after \in [Pairs -> Level]
          /\ \A p \in Pairs :
               after[p].reserved = rows[p].reserved + (IF p \in S THEN units[p] ELSE 0)
          /\ (\A p \in Pairs : Covered(rows[p])) /\ Applied(rows, changes).accepted
               => \A p \in Pairs : Covered(after[p])
      BY <2>6, <2>7, ReserveEach
    <2> QED
      BY <2>4, <2>8 DEF changes
  <1>3. CASE /\ req.operation # "allocate"
             /\ ~(req.operation = "cancel" /\ req.loaded.status # "DRAFT")
    <2> DEFINE S == {}
               units == [p \in S |-> 0]
               none == SetToSeq(S)
    <2>1. changes = <<>>
      BY <1>3 DEF ReservationsOf
    <2>2. \A p \in Pairs : ReservedFor(req, p) = 0
      BY <1>3 DEF ReservedFor
    <2>3. IsFiniteSet(S) /\ Cardinality(S) = 0
      BY FS_EmptySet
    <2>4. ReservesEach(changes, S, units)
      BY <2>1, <2>3 DEF ReservesEach
    <2> HIDE DEF changes
    <2> QED
      BY <2>2, <2>3, <2>4, ReserveEach DEF changes
  <1> QED
    BY <1>1, <1>2, <1>3

(* A request that writes an order is noted, unless it had loaded it as it is *)
(* and names no line twice.                                                  *)
Noticed(r) ==
    LET o == request[r].order IN
    /\ exposed \subseteq exposed' /\ exposed' \subseteq exposed \cup {o}
    /\ o \notin exposed' => orders[o].version = request[r].loaded.version

(* Every step that writes an order writes a status, lines and a version that *)
(* make an order, and answers the request.                                   *)
LEMMA WriteCases ==
    ASSUME TypeOK, NEW r \in Requests, Writes(r)
    PROVE  /\ AtWork(r) /\ Answer(r) /\ Noticed(r)
           /\ \E status \in Statuses : \E lines :
                /\ Rewrites(r, status, lines) /\ IsLineTable(lines)
                /\ \A p \in DOMAIN lines :
                      lines[p].insertedAt <= orders[request[r].order].version + 1
  <1> DEFINE order == orders[request[r].order]
  <1>0. AtWork(r) /\ Answer(r)
    BY DEF Writes, Promise, Update, ReplaceLines, CommitShipment, AtWork
  <1>1. /\ order.status \in Statuses /\ order.version \in Nat /\ IsLineTable(order.lines)
        /\ \A p \in DOMAIN order.lines : order.lines[p].insertedAt <= order.version
    BY <1>0, Held DEF OrderOK
  <1>2. \A p \in DOMAIN order.lines : order.lines[p].insertedAt <= order.version + 1
    <2> HIDE DEF order
    <2> QED
      BY <1>1, LineTypes
  <1>3. Noticed(r)
    <2>1. CASE \E status, lines : Write(r, status, lines)
      BY <2>1 DEF Write, Expose, Noticed
    <2>2. CASE CommitShipment(r)
      BY <2>2 DEF CommitShipment, Noticed
    <2> QED
      BY <2>1, <2>2 DEF Writes, Promise, Update, ReplaceLines
  <1>4. CASE Promise(r) \/ Update(r)
    <2>1. \E status \in Statuses : Rewrites(r, status, order.lines)
      BY <1>1, <1>4 DEF Promise, Update, Write, Rewrites, Statuses
    <2> QED
      BY <1>0, <1>1, <1>2, <1>3, <2>1
  <1>5. CASE ReplaceLines(r)
    <2>1. PICK quantities \in LineSets :
             Rewrites(r, order.status, Inserted(LinesLeft(order.lines, request[r].seen),
                                                quantities, order.version + 1))
      BY <1>5 DEF ReplaceLines, Write, Rewrites
    <2> QED
      BY <1>0, <1>1, <1>3, <1>5, <2>1, ReplacedLines DEF ReplaceLines
  <1>6. CASE CommitShipment(r)
    <2> DEFINE lines == MoveLines(order.lines, request[r].items)
    <2>1. \E status \in Statuses : Rewrites(r, status, lines)
      <3> DEFINE status == IF request[r].complete THEN "FULFILLED" ELSE "PARTIALLY_FULFILLED"
      <3>1. status \in Statuses
        BY DEF Statuses
      <3>2. Rewrites(r, status, lines)
        BY <1>6 DEF CommitShipment, Rewrites
      <3> QED
        BY <3>1, <3>2
    <2>2. IsLineTable(lines) /\ \A p \in DOMAIN lines : lines[p].insertedAt <= order.version + 1
      <3>1. ValidItems(request[r].items)
        BY <1>0, Held
      <3> HIDE DEF order
      <3> QED
        BY <1>1, <1>2, <3>1, MoveLinesFacts
    <2> HIDE DEF lines
    <2> QED
      BY <1>0, <1>3, <2>1, <2>2
  <1> QED
    BY <1>4, <1>5, <1>6 DEF Writes

-----------------------------------------------------------------------------
(* The type invariant. *)

(* A step leaves a request alone that it does not touch. *)
LEMMA RequestKept ==
    ASSUME TypeOK, Grows, NEW s \in Requests, pc'[s] = pc[s], request'[s] = request[s],
           \A o \in Orders : orders[o] # NoOrder => OrderOK(orders[o])'
    PROVE  RequestOK(s)'
  <1>1. CASE AtWork(s)
    <2> DEFINE o == request[s].order
    <2>1. RequestOK(s) /\ o \in Orders /\ orders[o] # NoOrder
      BY <1>1, Held DEF TypeOK
    <2>2. /\ orders'[o] # NoOrder /\ orders[o].version <= orders'[o].version
          /\ orders[o].version \in Nat /\ orders'[o].version \in Nat
          /\ request[s].loaded.version \in Nat
      BY <1>1, <2>1, Held DEF Grows, OrderOK
    <2> QED
      BY <1>1, <2>1, <2>2 DEF RequestOK, AtWork
  <1>2. CASE ~AtWork(s)
    <2>1. request[s] = <<>>
      BY <1>2 DEF TypeOK, RequestOK, AtWork
    <2> QED
      BY <1>2, <2>1 DEF RequestOK, AtWork
  <1> QED
    BY <1>1, <1>2

(* No two open shipments hold the same row. *)
Apart ==
    \A r, s \in Shipping :
        r # s => PairsOf(request[r].items) \cap PairsOf(request[s].items) = {}

(* A step of one request leaves the others as they were; and if it opens a   *)
(* shipment, of rows that no other one holds.                                *)
LEMMA RequestsType ==
    ASSUME TypeOK, Grows, \A o \in Orders : orders[o] # NoOrder => OrderOK(orders[o])',
           NEW r \in Requests, NEW where \in {"loaded", "replacing", "shipped", "answered"},
           NEW what, pc' = [pc EXCEPT ![r] = where], request' = [request EXCEPT ![r] = what],
           RequestOK(r)', where = "shipped" => Unlocked(what.items)
    PROVE  /\ pc' \in [Requests -> {"idle", "loaded", "replacing", "shipped", "answered"}]
           /\ DOMAIN request' = Requests /\ \A s \in Requests : RequestOK(s)'
           /\ Apart'
  <1>1. /\ pc' \in [Requests -> {"idle", "loaded", "replacing", "shipped", "answered"}]
        /\ DOMAIN request' = Requests
    BY DEF TypeOK
  <1>2. ASSUME NEW s \in Requests \ {r} PROVE pc'[s] = pc[s] /\ request'[s] = request[s]
    BY DEF TypeOK
  <1>3. ASSUME NEW s \in Requests \ {r} PROVE RequestOK(s)'
    BY <1>2, RequestKept
  <1>4. pc'[r] = where /\ request'[r] = what
    BY DEF TypeOK
  <1>5. Apart'
    <2> SUFFICES ASSUME NEW s \in Shipping', NEW t \in Shipping', s # t
                 PROVE  PairsOf(request'[s].items) \cap PairsOf(request'[t].items) = {}
      BY DEF Apart
    <2>1. \A u \in Shipping' \ {r} : u \in Shipping /\ request'[u] = request[u]
      BY <1>2 DEF Shipping
    <2>2. r \in Shipping' => \A u \in Shipping :
             PairsOf(request[u].items) \cap PairsOf(request'[r].items) = {}
      BY <1>4 DEF Shipping, Unlocked
    <2>3. \A u, v \in Shipping :
             u # v => PairsOf(request[u].items) \cap PairsOf(request[v].items) = {}
      BY DEF TypeOK
    <2> QED
      BY <2>1, <2>2, <2>3
  <1> QED
    BY <1>1, <1>3, <1>5

(* Answering a request keeps the types. *)
LEMMA AnswerType ==
    ASSUME TypeOK, Grows, \A o \in Orders : orders[o] # NoOrder => OrderOK(orders[o])',
           NEW r \in Requests, Answer(r)
    PROVE  /\ pc' \in [Requests -> {"idle", "loaded", "replacing", "shipped", "answered"}]
           /\ DOMAIN request' = Requests /\ \A s \in Requests : RequestOK(s)'
           /\ Apart'
  <1>1. pc' = [pc EXCEPT ![r] = "answered"] /\ request' = [request EXCEPT ![r] = <<>>]
    BY DEF Answer
  <1>2. RequestOK(r)'
    BY <1>1 DEF TypeOK, RequestOK
  <1> QED
    BY <1>1, <1>2, RequestsType

(* Orders that nobody writes stay orders. *)
LEMMA UnchangedOrders ==
    ASSUME TypeOK, orders' = orders
    PROVE  Grows /\ \A o \in Orders : orders[o] # NoOrder => OrderOK(orders[o])'
  <1>1. ASSUME NEW o \in Orders, orders[o] # NoOrder
        PROVE  OrderOK(orders[o]) /\ orders[o].version \in Nat
    BY <1>1 DEF TypeOK, OrderOK
  <1> QED
    BY <1>1 DEF Grows

(* The first state has the types it should. *)
LEMMA TypeInit == Init => TypeOK
  <1> SUFFICES ASSUME Init PROVE TypeOK
    OBVIOUS
  <1>1. \A r \in Requests : RequestOK(r)
    BY DEF Init, RequestOK
  <1>2. Shipping = {}
    BY DEF Init, Shipping
  <1> QED
    BY <1>1, <1>2, OrdersOpeningAssumption DEF Init, TypeOK

(* What a load, the DELETE's look and a shipment note of the order. *)
LEMMA Noted ==
    ASSUME TypeOK, NEW r \in Requests
    PROVE  /\ \A operation \in Operations, expected \in Versions, o \in Orders :
                 Load(r, operation, expected, o) =>
                     /\ pc'[r] = "loaded" /\ orders[o] # NoOrder
                     /\ orders[o].status \in AllowedStatuses(operation)
                     /\ request'[r] =
                          [operation |-> operation, order |-> o, loaded |-> orders[o],
                           items |-> <<>>]
           /\ SeeLines(r) =>
                 /\ pc[r] = "loaded" /\ request[r].operation = "replaceLines"
                 /\ pc'[r] = "replacing"
                 /\ request'[r] =
                      [operation |-> "replaceLines", order |-> request[r].order,
                       loaded |-> request[r].loaded, items |-> <<>>,
                       seen |-> orders[request[r].order].version]
           /\ \A named \in ShipmentLists :
                 ShipLines(r, named) =>
                     LET items == ItemsOf(request[r].loaded.lines, named) IN
                     /\ pc[r] = "loaded" /\ request[r].operation = "fulfill"
                     /\ pc'[r] = "shipped" /\ Unlocked(items)
                     /\ request'[r] =
                          [operation |-> "fulfill", order |-> request[r].order,
                           loaded |-> request[r].loaded, items |-> items,
                           complete |->
                             Complete(MoveLines(orders[request[r].order].lines, items))]
  <1>1. DOMAIN request = Requests /\ DOMAIN pc = Requests
    BY DEF TypeOK
  <1>2. ASSUME NEW operation \in Operations, NEW expected \in Versions, NEW o \in Orders,
               Load(r, operation, expected, o)
        PROVE  /\ pc'[r] = "loaded" /\ orders[o] # NoOrder
               /\ orders[o].status \in AllowedStatuses(operation)
               /\ request'[r] =
                    [operation |-> operation, order |-> o, loaded |-> orders[o], items |-> <<>>]
    BY <1>1, <1>2 DEF Load, Accepts
  <1>3. ASSUME SeeLines(r)
        PROVE  /\ pc[r] = "loaded" /\ request[r].operation = "replaceLines"
               /\ pc'[r] = "replacing"
               /\ request'[r] =
                    [operation |-> "replaceLines", order |-> request[r].order,
                     loaded |-> request[r].loaded, items |-> <<>>,
                     seen |-> orders[request[r].order].version]
    BY <1>1, <1>3 DEF SeeLines
  <1>4. ASSUME NEW named \in ShipmentLists, ShipLines(r, named)
        PROVE  LET items == ItemsOf(request[r].loaded.lines, named) IN
               /\ pc[r] = "loaded" /\ request[r].operation = "fulfill"
               /\ pc'[r] = "shipped" /\ Unlocked(items)
               /\ request'[r] =
                    [operation |-> "fulfill", order |-> request[r].order,
                     loaded |-> request[r].loaded, items |-> items,
                     complete |-> Complete(MoveLines(orders[request[r].order].lines, items))]
    BY <1>1, <1>4 DEF ShipLines
  <1> QED
    BY <1>2, <1>3, <1>4

(* A change by another service leaves rows. *)
LEMMA OtherRows ==
    ASSUME NEW rows \in [Pairs -> Level], NEW c \in OtherChanges
    PROVE  LET after == Applied(rows, <<c>>).rows IN
           /\ after \in [Pairs -> Level]
           /\ \A p \in Pairs : after[p].reserved = rows[p].reserved
           /\ (\A p \in Pairs : Covered(rows[p])) /\ Applied(rows, <<c>>).accepted
                => \A p \in Pairs : Covered(after[p])
  <1> DEFINE n == 1
             changes == <<c>>
             after == Applied(rows, changes).rows
  <1>1. /\ c \in Change /\ c.kind = "movement" /\ c.reservedDelta = 0
        /\ c.delta \in Int /\ (c.delta < 0 => c.respects)
    BY OrdersOtherChangesAssumption DEF Change
  <1>2. /\ DOMAIN changes = 1..n /\ n \in Nat
        /\ \A i \in 1..n : changes[i] = c /\ SoundChange(changes[i])
    BY <1>1 DEF SoundChange
  <1> HIDE DEF changes, n
  <1>3. /\ after \in [Pairs -> Level]
        /\ \A p \in Pairs :
             after[p].reserved = rows[p].reserved + SumFunctionOnSet(PromisesOf(changes, p), 1..n)
    <2> HIDE DEF after
    <2>1. /\ Applied(rows, changes).rows \in [Pairs -> Level]
          /\ \A p \in Pairs :
                Applied(rows, changes).rows[p].reserved
                   = rows[p].reserved + SumFunctionOnSet(PromisesOf(changes, p), 1..n)
      BY <1>2, AppliedSums
    <2> QED
      BY <2>1 DEF after
  <1>4. ASSUME NEW p \in Pairs PROVE after[p].reserved = rows[p].reserved
    <2>1. \A i \in 1..n : PromisesOf(changes, p)[i] = 0
      BY <1>1, <1>2 DEF PromisesOf
    <2>2. IsFiniteSet(1..n)
      BY <1>2, FS_Interval
    <2>3. SumFunctionOnSet(PromisesOf(changes, p), 1..n) = 0
      BY <2>1, <2>2, SumZero
    <2>4. rows[p].reserved \in Int
      BY DEF Level
    <2> HIDE DEF after
    <2> QED
      BY <1>3, <2>3, <2>4
  <1>5. ASSUME \A p \in Pairs : Covered(rows[p]), Applied(rows, changes).accepted
        PROVE  \A p \in Pairs : Covered(after[p])
    <2>1. \A i \in 1..n : CoverChange(changes[i], Applied(rows, changes).accepted)
      BY <1>1, <1>2, <1>5 DEF CoverChange
    <2> QED
      BY <1>2, <1>5, <2>1, AppliedCovers
  <1> QED
    BY <1>3, <1>4, <1>5 DEF changes

(* Every step leaves every variable with its type, every request with an     *)
(* order that exists and that its operation accepted, and open shipments     *)
(* with rows of their own.                                                   *)
LEMMA TypeStep == TypeOK /\ [Next]_vars => TypeOK'
  <1> SUFFICES ASSUME TypeOK, [Next]_vars PROVE TypeOK'
    OBVIOUS
  <1>e. <<>> \in Seq(Item)
    OBVIOUS
  <1>1. ASSUME NEW o \in Orders, Create(o) PROVE TypeOK'
    <2>1. PICK quantities \in LineSets :
             orders' = [orders EXCEPT ![o] =
                 [status |-> "DRAFT", version |-> 1, lines |-> FreshLines(quantities, 1)]]
      BY <1>1 DEF Create
    <2> DEFINE lines == FreshLines(quantities, 1)
    <2>2. ValidLines(quantities) /\ 1 \in Nat \ {0}
      BY LineSetsAssumption
    <2>3. IsLineTable(lines) /\ \A p \in DOMAIN lines : lines[p].insertedAt <= 1
      BY <2>2, FreshLinesFacts
    <2>4. orders'[o] = [status |-> "DRAFT", version |-> 1, lines |-> lines]
      BY <2>1 DEF TypeOK
    <2> HIDE DEF lines
    <2>5. OrderOK(orders'[o])
      BY <2>3, <2>4, OrderRecord DEF Statuses
    <2>6. DOMAIN orders' = Orders /\ \A q \in Orders \ {o} : orders'[q] = orders[q]
      BY <2>1 DEF TypeOK
    <2>7. \A q \in Orders : orders'[q] # NoOrder => OrderOK(orders'[q])
      BY <2>5, <2>6 DEF TypeOK
    <2>8. /\ Grows
          /\ \A q \in Orders : orders[q] # NoOrder => OrderOK(orders[q])'
      <3>1. ASSUME NEW q \in Orders, orders[q] # NoOrder
            PROVE  orders'[q] = orders[q] /\ OrderOK(orders[q]) /\ orders[q].version \in Nat
        BY <1>1, <2>6, <3>1 DEF Create, TypeOK, OrderOK
      <3> QED
        BY <3>1 DEF Grows
    <2>9. \A s \in Requests : RequestOK(s)'
      BY <1>1, <2>8, RequestKept DEF Create
    <2> QED
      BY <1>1, <2>6, <2>7, <2>9 DEF Create, TypeOK, Shipping
  <1>2. ASSUME NEW r \in Requests, NEW operation \in Operations, NEW expected \in Versions,
               NEW o \in Orders, Load(r, operation, expected, o)
        PROVE  TypeOK'
    <2>1. orders' = orders
      BY <1>2 DEF Load
    <2>2. /\ pc'[r] = "loaded" /\ orders[o] # NoOrder
          /\ orders[o].status \in AllowedStatuses(operation)
          /\ request'[r] =
                [operation |-> operation, order |-> o, loaded |-> orders[o], items |-> <<>>]
      BY <1>2, Noted
    <2>0. OrderOK(orders[o])
      BY <2>2 DEF TypeOK
    <2>3. RequestOK(r)'
      BY <1>e, <2>0, <2>1, <2>2 DEF RequestOK, OrderOK, ValidItems
    <2>4. /\ pc' \in [Requests -> {"idle", "loaded", "replacing", "shipped", "answered"}]
          /\ DOMAIN request' = Requests /\ \A s \in Requests : RequestOK(s)'
          /\ Apart'
      BY <1>2, <2>1, <2>3, RequestsType, UnchangedOrders DEF Load
    <2> QED
      BY <1>2, <2>4 DEF Load, TypeOK, Apart
  <1>3. ASSUME NEW r \in Requests, SeeLines(r) PROVE TypeOK'
    <2>1. orders' = orders
      BY <1>3 DEF SeeLines
    <2>2. /\ pc[r] = "loaded" /\ request[r].operation = "replaceLines" /\ pc'[r] = "replacing"
          /\ request'[r] =
                [operation |-> "replaceLines", order |-> request[r].order,
                 loaded |-> request[r].loaded, items |-> <<>>,
                 seen |-> orders[request[r].order].version]
      BY <1>3, Noted
    <2>3. RequestOK(r)'
      BY <1>e, <2>1, <2>2, Held DEF RequestOK, AtWork, ValidItems
    <2>4. /\ pc' \in [Requests -> {"idle", "loaded", "replacing", "shipped", "answered"}]
          /\ DOMAIN request' = Requests /\ \A s \in Requests : RequestOK(s)'
          /\ Apart'
      BY <1>3, <2>1, <2>3, RequestsType, UnchangedOrders DEF SeeLines
    <2> QED
      BY <1>3, <2>4 DEF SeeLines, TypeOK, Apart
  <1>4. ASSUME NEW r \in Requests, NEW named \in ShipmentLists, ShipLines(r, named)
        PROVE  TypeOK'
    <2> DEFINE items == ItemsOf(request[r].loaded.lines, named)
               what == [operation |-> "fulfill", order |-> request[r].order,
                        loaded |-> request[r].loaded, items |-> items,
                        complete |-> Complete(MoveLines(orders[request[r].order].lines, items))]
    <2>1. /\ orders' = orders /\ pc' = [pc EXCEPT ![r] = "shipped"]
          /\ request' = [request EXCEPT ![r] = what]
      BY <1>4 DEF ShipLines
    <2>2. /\ pc[r] = "loaded" /\ request[r].operation = "fulfill" /\ pc'[r] = "shipped"
          /\ Unlocked(items) /\ request'[r] = what
      BY <1>4, Noted
    <2>3. ValidItems(items)
      BY <1>4, ShippedItems
    <2> HIDE DEF items
    <2>4. RequestOK(r)'
      BY <2>1, <2>2, <2>3, Held DEF RequestOK, AtWork
    <2>5. what.items = items
      OBVIOUS
    <2> HIDE DEF what
    <2>6. /\ pc' \in [Requests -> {"idle", "loaded", "replacing", "shipped", "answered"}]
          /\ DOMAIN request' = Requests /\ \A s \in Requests : RequestOK(s)'
          /\ Apart'
      BY <2>1, <2>2, <2>4, <2>5, RequestsType, UnchangedOrders
    <2> QED
      BY <1>4, <2>6 DEF ShipLines, TypeOK, Apart
  <1>5. ASSUME NEW r \in Requests, Writes(r) PROVE TypeOK'
    <2>1. /\ DOMAIN orders' = Orders /\ Grows
          /\ \A q \in Orders : orders'[q] # NoOrder => OrderOK(orders'[q])
      BY <1>5, WriteCases, WriteFacts
    <2>2. \A q \in Orders : orders[q] # NoOrder => OrderOK(orders[q])'
      BY <2>1 DEF Grows
    <2>3. /\ pc' \in [Requests -> {"idle", "loaded", "replacing", "shipped", "answered"}]
          /\ DOMAIN request' = Requests /\ \A s \in Requests : RequestOK(s)'
          /\ Apart'
      BY <1>5, <2>1, <2>2, AnswerType, WriteCases
    <2>4. /\ request[r].order \in Orders /\ ValidItems(request[r].items)
          /\ IsLineTable(request[r].loaded.lines)
      BY <1>5, WriteCases, Held DEF OrderOK
    <2>5. exposed' \subseteq Orders
      BY <1>5, <2>4, WriteCases DEF Noticed, TypeOK
    <2>6. levels' \in [Pairs -> Level]
      <3>1. CASE UNCHANGED levels
        BY <3>1 DEF TypeOK
      <3>2. CASE CommitShipment(r)
        BY <2>4, <3>2, ShipmentRows DEF CommitShipment, TypeOK
      <3>3. CASE Promise(r)
        BY <2>4, <3>3, ReservationRows DEF Promise, TypeOK
      <3> QED
        BY <1>5, <3>1, <3>2, <3>3 DEF Writes, Update, ReplaceLines
    <2> QED
      BY <2>1, <2>3, <2>5, <2>6 DEF TypeOK, Apart
  <1>6. ASSUME NEW r \in Requests, Answer(r), UNCHANGED <<levels, orders, exposed>>
        PROVE  TypeOK'
    <2>1. /\ pc' \in [Requests -> {"idle", "loaded", "replacing", "shipped", "answered"}]
          /\ DOMAIN request' = Requests /\ \A s \in Requests : RequestOK(s)'
          /\ Apart'
      BY <1>6, AnswerType, UnchangedOrders
    <2> QED
      BY <1>6, <2>1 DEF TypeOK, Apart
  <1>7. ASSUME NEW c \in OtherChanges, OtherChange(c) PROVE TypeOK'
    <2>1. levels' \in [Pairs -> Level]
      BY <1>7, OtherRows DEF OtherChange, TypeOK
    <2> QED
      BY <1>7, <2>1 DEF OtherChange, TypeOK, RequestOK, Shipping
  <1>8. CASE UNCHANGED vars
    BY <1>8 DEF vars, TypeOK, RequestOK, Shipping
  <1> QED
    BY <1>1, <1>2, <1>3, <1>4, <1>5, <1>6, <1>7, <1>8, NextCases

(* The type invariant, for every instance. *)
THEOREM TypeCorrect == Spec => []TypeOK
  BY TypeInit, TypeStep, PTL DEF Spec

-----------------------------------------------------------------------------
(* What a request at work remembers: an order with the version it has loaded *)
(* is the order it has loaded; a shipment takes lines of it, and has read    *)
(* whether they complete it.                                                 *)
Remembers(r) ==
    LET req == request[r]
        current == orders[req.order]
    IN
    /\ req.loaded.version = current.version => req.loaded = current
    /\ pc[r] = "replacing" => req.operation = "replaceLines"
    /\ pc[r] = "shipped" =>
          /\ req.operation = "fulfill"
          /\ req.items # <<>> /\ ItemsOK(req.loaded.lines, req.items)
          /\ req.loaded.version = current.version =>
                req.complete = Complete(MoveLines(current.lines, req.items))

MemoryInv == \A r \in Requests : AtWork(r) => Remembers(r)

(* A step that does not touch a request, and leaves its order alone or       *)
(* raises its version, leaves what it remembers true.                        *)
LEMMA MemoryKept ==
    ASSUME TypeOK, MemoryInv, NEW s \in Requests, pc'[s] = pc[s], request'[s] = request[s],
           AtWork(s) =>
               \/ orders'[request[s].order] = orders[request[s].order]
               \/ orders'[request[s].order].version = orders[request[s].order].version + 1
    PROVE  AtWork(s)' => Remembers(s)'
  <1> SUFFICES ASSUME AtWork(s) PROVE Remembers(s)'
    BY DEF AtWork
  <1> DEFINE o == request[s].order
  <1>1. Remembers(s)
    BY DEF MemoryInv
  <1>2. CASE orders'[o] = orders[o]
    BY <1>1, <1>2 DEF Remembers
  <1>3. CASE orders'[o].version = orders[o].version + 1
    <2>1. /\ request[s].loaded.version \in Nat /\ orders[o].version \in Nat
          /\ request[s].loaded.version <= orders[o].version
      BY Held DEF OrderOK
    <2>2. request[s].loaded.version # orders'[o].version
      BY <1>3, <2>1
    <2> QED
      BY <1>1, <2>2 DEF Remembers
  <1> QED
    BY <1>2, <1>3

(* Every step leaves what the requests at work remember true.                *)
LEMMA MemoryStep == TypeOK /\ MemoryInv /\ [Next]_vars => MemoryInv'
  <1> SUFFICES ASSUME TypeOK, MemoryInv, [Next]_vars PROVE MemoryInv'
    OBVIOUS
  <1>1. ASSUME NEW o \in Orders, Create(o) PROVE MemoryInv'
    <2> SUFFICES ASSUME NEW s \in Requests PROVE AtWork(s)' => Remembers(s)'
      BY DEF MemoryInv
    <2>1. AtWork(s) => request[s].order \in Orders \ {o}
      BY <1>1, Held DEF Create
    <2>2. \A q \in Orders \ {o} : orders'[q] = orders[q]
      BY <1>1 DEF Create, TypeOK
    <2> QED
      BY <1>1, <2>1, <2>2, MemoryKept DEF Create
  <1>2. ASSUME NEW r \in Requests, NEW where, NEW what, orders' = orders,
               pc' = [pc EXCEPT ![r] = where], request' = [request EXCEPT ![r] = what],
               AtWork(r)' => Remembers(r)'
        PROVE  MemoryInv'
    <2>1. ASSUME NEW s \in Requests \ {r} PROVE AtWork(s)' => Remembers(s)'
      <3>1. pc'[s] = pc[s] /\ request'[s] = request[s]
        BY <1>2 DEF TypeOK
      <3> QED
        BY <1>2, <3>1, MemoryKept
    <2> QED
      BY <1>2, <2>1 DEF MemoryInv
  <1>3. ASSUME NEW r \in Requests, NEW operation \in Operations, NEW expected \in Versions,
               NEW o \in Orders, Load(r, operation, expected, o)
        PROVE  MemoryInv'
    <2>1. /\ pc'[r] = "loaded"
          /\ request'[r] =
                [operation |-> operation, order |-> o, loaded |-> orders[o], items |-> <<>>]
      BY <1>3, Noted
    <2>2. orders' = orders
      BY <1>3 DEF Load
    <2>3. Remembers(r)'
      BY <2>1, <2>2 DEF Remembers
    <2> QED
      BY <1>2, <1>3, <2>2, <2>3 DEF Load
  <1>4. ASSUME NEW r \in Requests, SeeLines(r) PROVE MemoryInv'
    <2>1. /\ pc[r] = "loaded" /\ request[r].operation = "replaceLines" /\ pc'[r] = "replacing"
          /\ request'[r] =
                [operation |-> "replaceLines", order |-> request[r].order,
                 loaded |-> request[r].loaded, items |-> <<>>,
                 seen |-> orders[request[r].order].version]
      BY <1>4, Noted
    <2>2. orders' = orders
      BY <1>4 DEF SeeLines
    <2>3. Remembers(r)
      BY <2>1 DEF MemoryInv, AtWork
    <2>4. Remembers(r)'
      BY <2>1, <2>2, <2>3 DEF Remembers
    <2> QED
      BY <1>2, <1>4, <2>2, <2>4 DEF SeeLines
  <1>5. ASSUME NEW r \in Requests, NEW named \in ShipmentLists, ShipLines(r, named)
        PROVE  MemoryInv'
    <2> DEFINE items == ItemsOf(request[r].loaded.lines, named)
    <2>1. /\ pc[r] = "loaded" /\ request[r].operation = "fulfill" /\ pc'[r] = "shipped"
          /\ request'[r] =
                [operation |-> "fulfill", order |-> request[r].order,
                 loaded |-> request[r].loaded, items |-> items,
                 complete |-> Complete(MoveLines(orders[request[r].order].lines, items))]
      BY <1>5, Noted
    <2>2. orders' = orders
      BY <1>5 DEF ShipLines
    <2>3. Remembers(r)
      BY <2>1 DEF MemoryInv, AtWork
    <2>4. items # <<>> /\ ItemsOK(request[r].loaded.lines, items)
      BY <1>5, ShippedItems
    <2> HIDE DEF items
    <2>5. Remembers(r)'
      BY <2>1, <2>2, <2>3, <2>4 DEF Remembers
    <2> QED
      BY <1>2, <1>5, <2>2, <2>5 DEF ShipLines
  <1>6. ASSUME NEW r \in Requests, Writes(r) PROVE MemoryInv'
    <2> DEFINE o == request[r].order
    <2>1. /\ \A q \in Orders \ {o} : orders'[q] = orders[q]
          /\ orders'[o].version = orders[o].version + 1
      <3>1. PICK status, lines :
               /\ status \in Statuses
               /\ AtWork(r) /\ Rewrites(r, status, lines) /\ IsLineTable(lines)
               /\ \A p \in DOMAIN lines : lines[p].insertedAt <= orders[o].version + 1
        BY <1>6, WriteCases
      <3>2. /\ \A q \in Orders \ {o} : orders'[q] = orders[q]
            /\ orders'[o] = [status |-> status, version |-> orders[o].version + 1,
                             lines |-> lines]
        BY <3>1, WriteFacts
      <3> QED
        BY <3>2
    <2>2. pc' = [pc EXCEPT ![r] = "answered"] /\ request' = [request EXCEPT ![r] = <<>>]
      BY <1>6, WriteCases DEF Answer
    <2>3. ~AtWork(r)'
      BY <2>2 DEF AtWork, TypeOK
    <2>4. ASSUME NEW s \in Requests \ {r} PROVE AtWork(s)' => Remembers(s)'
      <3>1. pc'[s] = pc[s] /\ request'[s] = request[s]
        BY <2>2 DEF TypeOK
      <3>2. AtWork(s) => request[s].order \in Orders
        BY Held
      <3> HIDE DEF o
      <3>3. AtWork(s) => \/ orders'[request[s].order] = orders[request[s].order]
                        \/ orders'[request[s].order].version
                              = orders[request[s].order].version + 1
        BY <2>1, <3>2
      <3> QED
        BY <3>1, <3>3, MemoryKept
    <2> QED
      BY <2>3, <2>4 DEF MemoryInv
  <1>7. ASSUME NEW r \in Requests, Answer(r), UNCHANGED <<levels, orders, exposed>>
        PROVE  MemoryInv'
    <2>1. pc' = [pc EXCEPT ![r] = "answered"] /\ request' = [request EXCEPT ![r] = <<>>]
      BY <1>7 DEF Answer
    <2>2. ~AtWork(r)'
      BY <2>1 DEF AtWork, TypeOK
    <2> QED
      BY <1>2, <1>7, <2>1, <2>2
  <1>8. CASE UNCHANGED <<orders, pc, request>>
    BY <1>8 DEF MemoryInv, AtWork, Remembers
  <1> QED
    BY <1>1, <1>3, <1>4, <1>5, <1>6, <1>7, <1>8, NextCases DEF OtherChange, vars

(* No request is at work at first.                                           *)
LEMMA MemoryInit == Init => MemoryInv
  BY DEF Init, MemoryInv, AtWork

-----------------------------------------------------------------------------
(* Finished orders. *)

(* A request that writes an order without exposing it writes the order it    *)
(* has loaded.                                                               *)
LEMMA WritesWhatItLoaded ==
    ASSUME TypeOK, MemoryInv, NEW r \in Requests, Writes(r)
    PROVE  LET o == request[r].order IN
           /\ o \in Orders /\ orders[o] # NoOrder /\ OrderOK(orders[o])
           /\ exposed \subseteq exposed'
           /\ o \notin exposed' =>
                /\ request[r].loaded = orders[o]
                /\ orders[o].status \in AllowedStatuses(request[r].operation)
                /\ o \notin exposed
  <1>1. AtWork(r) /\ Remembers(r) /\ Noticed(r)
    BY WriteCases DEF MemoryInv
  <1> QED
    BY <1>1, Held DEF Remembers, Noticed

(* A finished order stays as it is, in every run of every instance. *)
THEOREM FinishedForGood == Spec => FinishedStaysFinished
  <1> DEFINE Stays == \A o \in Orders \ exposed' :
                orders[o] # NoOrder =>
                    (orders[o].status \in {"FULFILLED", "CANCELLED"} => orders'[o] = orders[o])
  <1>1. TypeOK /\ MemoryInv /\ [Next]_vars => [Stays]_vars
    <2> SUFFICES ASSUME TypeOK, MemoryInv, Next,
                        NEW o \in Orders \ exposed', orders[o] # NoOrder,
                        orders[o].status \in {"FULFILLED", "CANCELLED"}
                 PROVE  orders'[o] = orders[o]
      OBVIOUS
    <2>1. CASE orders' = orders
      BY <2>1
    <2>2. ASSUME NEW q \in Orders, Create(q) PROVE orders'[o] = orders[o]
      BY <2>2 DEF Create, TypeOK
    <2>3. ASSUME NEW r \in Requests, Writes(r) PROVE orders'[o] = orders[o]
      <3>1. request[r].order # o
        <4> SUFFICES ASSUME request[r].order = o PROVE FALSE
          OBVIOUS
        <4>1. orders[o].status \in AllowedStatuses(request[r].operation)
          BY <2>3, WritesWhatItLoaded
        <4>2. request[r].operation \in Operations
          BY <2>3, WriteCases, Held
        <4> QED
          BY <4>1, <4>2 DEF AllowedStatuses, Operations
      <3> QED
        BY <2>3, <3>1, WriteCases, WriteFacts
    <2> QED
      BY <2>1, <2>2, <2>3, NextCases DEF Load, SeeLines, ShipLines, OtherChange, vars
  <1> QED
    BY <1>1, TypeInit, TypeStep, MemoryInit, MemoryStep, PTL DEF Spec, FinishedStaysFinished

-----------------------------------------------------------------------------
(* The status and the lines. *)

(* An order has lines, and each of them asks for something. *)
Filled(order) ==
    /\ DOMAIN order.lines # {}
    /\ \A p \in DOMAIN order.lines : order.lines[p].quantity > 0
AllFilled == \A o \in Orders : orders[o] # NoOrder => Filled(orders[o])

(* StatusMatchesLines, of one order. *)
Agrees(order) ==
    LET lines == order.lines
        shipped == {p \in DOMAIN lines : lines[p].moved > 0}
        open == OutstandingPairs(lines)
    IN
    /\ \A p \in DOMAIN lines : lines[p].moved <= lines[p].quantity
    /\ order.status \in {"DRAFT", "ALLOCATED"} => shipped = {}
    /\ order.status = "PARTIALLY_FULFILLED" => shipped # {} /\ open # {}
    /\ (order.status = "FULFILLED") <=> (open = {})
AllAgree == \A o \in Orders \ exposed : orders[o] # NoOrder => Agrees(orders[o])

LinesInv == AllFilled /\ AllAgree

(* StatusMatchesLines is that every order agrees that was not exposed. *)
LEMMA StatusByOrder == AllAgree <=> StatusMatchesLines
  BY DEF AllAgree, StatusMatchesLines, Agrees

(* Items that name no line twice and fit the lines one by one fit them       *)
(* together.                                                                 *)
LEMMA ItemsFit ==
    ASSUME NEW lines, IsLineTable(lines), NEW items, ValidItems(items), ItemsOK(lines, items),
           ~NamesOneTwice(items)
    PROVE  /\ PairsOf(items) \subseteq DOMAIN lines
           /\ items # <<>> => PairsOf(items) # {}
           /\ \A p \in DOMAIN lines :
                /\ UnitsOf(items, p) \in Nat
                /\ UnitsOf(items, p) = 0 \/ UnitsOf(items, p) <= Outstanding(lines, p)
  <1>1. PairsOf(items) \subseteq DOMAIN lines
    BY DEF ItemsOK, PairsOf
  <1>2. items # <<>> => PairsOf(items) # {}
    <2>1. items \in Seq(Item)
      BY DEF ValidItems
    <2> SUFFICES ASSUME items # <<>> PROVE 1 \in DOMAIN items
      BY DEF PairsOf
    <2> QED
      BY <2>1
  <1>3. ASSUME NEW p \in DOMAIN lines
        PROVE  /\ UnitsOf(items, p) \in Nat
               /\ UnitsOf(items, p) = 0 \/ UnitsOf(items, p) <= Outstanding(lines, p)
    <2>1. CASE p \in PairsOf(items)
      <3>1. PICK i \in DOMAIN items : items[i].pair = p
        BY <2>1 DEF PairsOf
      <3>2. UnitsOf(items, p) = items[i].quantity
        BY <3>1, UnitsOnce
      <3> QED
        BY <3>1, <3>2, UnitsOfFacts DEF ItemsOK
    <2>2. CASE p \notin PairsOf(items)
      BY <2>2, UnitsOfFacts
    <2> QED
      BY <2>1, <2>2
  <1> QED
    BY <1>1, <1>2, <1>3

(* What a shipment that exposes nothing leaves of the lines it takes. *)
LEMMA ShipmentLines ==
    ASSUME TypeOK, MemoryInv, LinesInv, NEW r \in Requests, CommitShipment(r),
           request[r].order \notin exposed'
    PROVE  LET o == request[r].order
               items == request[r].items
               before == orders[o].lines
               after == orders'[o].lines
           IN
           /\ IsLineTable(before) /\ IsLineTable(after) /\ DOMAIN after = DOMAIN before
           /\ PairsOf(items) \subseteq DOMAIN before /\ PairsOf(items) # {}
           /\ \A p \in DOMAIN before :
                /\ after[p].quantity = before[p].quantity
                /\ after[p].moved = before[p].moved + UnitsOf(items, p)
                /\ after[p].moved <= after[p].quantity
                /\ before[p].moved \in Nat /\ before[p].quantity \in Nat
           /\ orders[o].status \in {"ALLOCATED", "PARTIALLY_FULFILLED"}
           /\ orders'[o].status = IF Complete(after) THEN "FULFILLED" ELSE "PARTIALLY_FULFILLED"
  <1> DEFINE o == request[r].order
             items == request[r].items
             before == orders[o].lines
             after == MoveLines(before, items)
  <1>1. Writes(r) /\ AtWork(r) /\ pc[r] = "shipped" /\ Remembers(r)
    BY DEF CommitShipment, Writes, AtWork, MemoryInv
  <1>2. /\ o \in Orders /\ orders[o] # NoOrder /\ OrderOK(orders[o]) /\ ValidItems(items)
        /\ request[r].loaded = orders[o] /\ o \notin exposed
        /\ orders[o].status \in AllowedStatuses(request[r].operation)
    BY <1>1, WritesWhatItLoaded, Held
  <1>3. /\ request[r].operation = "fulfill" /\ items # <<>> /\ ItemsOK(before, items)
        /\ request[r].complete = Complete(after)
    BY <1>1, <1>2 DEF Remembers
  <1>4. ~NamesOneTwice(items)
    BY DEF CommitShipment
  <1>5. orders'[o] = [status |-> IF request[r].complete THEN "FULFILLED"
                                 ELSE "PARTIALLY_FULFILLED",
                      version |-> orders[o].version + 1, lines |-> after]
    BY <1>2 DEF CommitShipment, TypeOK
  <1>6. IsLineTable(before) /\ Agrees(orders[o])
    BY <1>2 DEF OrderOK, LinesInv, AllAgree
  <1>7. orders[o].status \in {"ALLOCATED", "PARTIALLY_FULFILLED"}
    BY <1>2, <1>3 DEF AllowedStatuses
  <1>8. \A p \in DOMAIN before : before[p].moved <= before[p].quantity
    BY <1>6 DEF Agrees
  <1> HIDE DEF o, items, before
  <1>9. /\ IsLineTable(after) /\ DOMAIN after = DOMAIN before
        /\ \A p \in DOMAIN before : /\ after[p].quantity = before[p].quantity
                                    /\ after[p].moved = before[p].moved + UnitsOf(items, p)
    BY <1>2, <1>6, MoveLinesFacts
  <1>10. /\ PairsOf(items) \subseteq DOMAIN before /\ PairsOf(items) # {}
         /\ \A p \in DOMAIN before :
              /\ UnitsOf(items, p) \in Nat
              /\ UnitsOf(items, p) = 0 \/ UnitsOf(items, p) <= Outstanding(before, p)
    BY <1>2, <1>3, <1>4, <1>6, ItemsFit
  <1> HIDE DEF after
  <1>11. ASSUME NEW p \in DOMAIN before
         PROVE  /\ after[p].moved <= after[p].quantity
                /\ before[p].moved \in Nat /\ before[p].quantity \in Nat
    <2>1. before[p].moved \in Nat /\ before[p].quantity \in Nat
      BY <1>6, LineTypes
    <2>2. /\ UnitsOf(items, p) \in Nat
          /\ UnitsOf(items, p) = 0 \/ UnitsOf(items, p) <= before[p].quantity - before[p].moved
      BY <1>10 DEF Outstanding
    <2>3. /\ after[p].quantity = before[p].quantity
          /\ after[p].moved = before[p].moved + UnitsOf(items, p)
      BY <1>9
    <2>4. before[p].moved <= before[p].quantity
      BY <1>8
    <2> QED
      BY <2>1, <2>2, <2>3, <2>4
  <1>12. /\ orders'[o].lines = after
         /\ orders'[o].status = IF Complete(after) THEN "FULFILLED" ELSE "PARTIALLY_FULFILLED"
    BY <1>3, <1>5
  <1> QED
    BY <1>6, <1>7, <1>9, <1>10, <1>11, <1>12 DEF o, items, before

(* Every write leaves an order with lines that ask for something. *)
LEMMA WriteFills ==
    ASSUME TypeOK, MemoryInv, LinesInv, NEW r \in Requests, Writes(r)
    PROVE  Filled(orders'[request[r].order])
  <1> DEFINE o == request[r].order
             order == orders[o]
  <1>1. /\ o \in Orders /\ order # NoOrder /\ OrderOK(order) /\ Filled(order)
        /\ AtWork(r) /\ ValidItems(request[r].items)
    BY WriteCases, Held DEF LinesInv, AllFilled
  <1>2. CASE Promise(r) \/ Update(r)
    <2>1. PICK status : Rewrites(r, status, order.lines)
      BY <1>2 DEF Promise, Update, Write, Rewrites
    <2>2. orders'[o].lines = order.lines
      BY <1>1, <2>1 DEF Rewrites, TypeOK
    <2> QED
      BY <1>1, <2>2 DEF Filled
  <1>3. CASE ReplaceLines(r)
    <2>1. PICK quantities \in LineSets :
             Rewrites(r, order.status, Inserted(LinesLeft(order.lines, request[r].seen),
                                                quantities, order.version + 1))
      BY <1>3 DEF ReplaceLines, Write, Rewrites
    <2> DEFINE lines == Inserted(LinesLeft(order.lines, request[r].seen), quantities,
                                 order.version + 1)
    <2>2. orders'[o].lines = lines
      BY <1>1, <2>1 DEF Rewrites, TypeOK
    <2>3. /\ DOMAIN quantities \subseteq DOMAIN lines
          /\ \A p \in DOMAIN lines :
               \/ /\ p \in DOMAIN order.lines
                  /\ lines[p].quantity = order.lines[p].quantity
               \/ lines[p].quantity > 0
      BY <1>3, ReplacedLines DEF ReplaceLines
    <2>4. DOMAIN quantities # {}
      BY LineSetsAssumption DEF ValidLines
    <2> HIDE DEF lines, order
    <2> QED
      BY <1>1, <2>2, <2>3, <2>4 DEF Filled
  <1>4. CASE CommitShipment(r)
    <2>1. orders'[o].lines = MoveLines(order.lines, request[r].items)
      BY <1>1, <1>4 DEF CommitShipment, TypeOK
    <2>2. IsLineTable(order.lines)
      BY <1>1 DEF OrderOK
    <2> HIDE DEF order
    <2>3. /\ DOMAIN orders'[o].lines = DOMAIN order.lines
          /\ \A p \in DOMAIN order.lines :
                orders'[o].lines[p].quantity = order.lines[p].quantity
      BY <1>1, <2>1, <2>2, MoveLinesFacts
    <2> QED
      BY <1>1, <2>3 DEF Filled
  <1> QED
    BY <1>2, <1>3, <1>4 DEF Writes

(* A write that exposes nothing leaves an order whose status agrees with its *)
(* lines.                                                                    *)
LEMMA WriteAgrees ==
    ASSUME TypeOK, MemoryInv, LinesInv, NEW r \in Requests, Writes(r),
           request[r].order \notin exposed'
    PROVE  Agrees(orders'[request[r].order])
  <1> DEFINE o == request[r].order
             order == orders[o]
  <1>1. /\ o \in Orders \ exposed /\ order # NoOrder /\ OrderOK(order)
        /\ order.status \in AllowedStatuses(request[r].operation)
        /\ request[r].operation \in Operations /\ Remembers(r)
    BY WritesWhatItLoaded, WriteCases, Held DEF MemoryInv
  <1>2. Agrees(order) /\ Filled(order) /\ IsLineTable(order.lines)
    BY <1>1 DEF LinesInv, AllAgree, AllFilled, OrderOK
  <1>3. order.status \in {"DRAFT", "ALLOCATED", "PARTIALLY_FULFILLED"}
    BY <1>1 DEF AllowedStatuses, Operations
  <1>4. CASE Promise(r)
    <2> DEFINE status == IF request[r].operation = "allocate" THEN "ALLOCATED" ELSE "CANCELLED"
    <2>1. orders'[o] = [status |-> status, version |-> order.version + 1, lines |-> order.lines]
      BY <1>1, <1>4 DEF Promise, Write, TypeOK
    <2>2. status = "ALLOCATED" => order.status = "DRAFT"
      BY <1>1 DEF AllowedStatuses
    <2> HIDE DEF order
    <2> QED
      BY <1>2, <1>3, <2>1, <2>2 DEF Agrees
  <1>5. CASE Update(r)
    <2>1. orders'[o] = [status |-> order.status, version |-> order.version + 1,
                        lines |-> order.lines]
      BY <1>1, <1>5 DEF Update, Write, TypeOK
    <2> HIDE DEF order
    <2> QED
      BY <1>2, <2>1 DEF Agrees
  <1>6. CASE ReplaceLines(r)
    <2>1. PICK quantities \in LineSets :
             Write(r, order.status, Inserted(LinesLeft(order.lines, request[r].seen),
                                             quantities, order.version + 1))
      BY <1>6 DEF ReplaceLines
    <2> DEFINE lines == Inserted(LinesLeft(order.lines, request[r].seen), quantities,
                                 order.version + 1)
    <2>2. orders'[o] = [status |-> order.status, version |-> order.version + 1, lines |-> lines]
      BY <1>1, <2>1 DEF Write, TypeOK
    <2>3. order.status = "DRAFT"
      BY <1>1, <1>6 DEF ReplaceLines, Remembers, AllowedStatuses
    <2>4. /\ IsLineTable(lines)
          /\ \A p \in DOMAIN lines :
               \/ /\ p \in DOMAIN order.lines
                  /\ lines[p].moved = order.lines[p].moved
                  /\ lines[p].quantity = order.lines[p].quantity
               \/ lines[p].moved = 0 /\ lines[p].quantity \in Nat /\ lines[p].quantity > 0
      BY <1>6, ReplacedLines DEF ReplaceLines
    <2>5. \A p \in DOMAIN order.lines : /\ order.lines[p].moved \in Nat
                                        /\ order.lines[p].quantity \in Nat
      <3> HIDE DEF order
      <3> QED
        BY <1>2, LineTypes
    <2>6. \A p \in DOMAIN order.lines : order.lines[p].moved = 0 /\ order.lines[p].quantity > 0
      BY <1>2, <2>3, <2>5 DEF Agrees, Filled
    <2>7. Filled(orders'[o])
      BY WriteFills
    <2> HIDE DEF lines, order
    <2>8. orders'[o].lines = lines /\ orders'[o].status = "DRAFT"
      BY <2>2, <2>3
    <2>9. \A p \in DOMAIN lines : /\ lines[p].moved = 0 /\ lines[p].quantity > 0
                                  /\ lines[p].quantity \in Nat
      BY <2>4, <2>5, <2>6
    <2>10. OutstandingPairs(lines) # {}
      <3>1. PICK p \in DOMAIN lines : TRUE
        BY <2>7, <2>8 DEF Filled
      <3>2. p \in OutstandingPairs(lines)
        BY <2>9 DEF OutstandingPairs, Outstanding
      <3> QED
        BY <3>2
    <2> QED
      BY <2>8, <2>9, <2>10 DEF Agrees
  <1>7. CASE CommitShipment(r)
    <2> DEFINE items == request[r].items
               before == order.lines
               after == orders'[o].lines
    <2>1. /\ IsLineTable(before) /\ IsLineTable(after) /\ DOMAIN after = DOMAIN before
          /\ PairsOf(items) \subseteq DOMAIN before /\ PairsOf(items) # {}
          /\ \A p \in DOMAIN before :
               /\ after[p].quantity = before[p].quantity
               /\ after[p].moved = before[p].moved + UnitsOf(items, p)
               /\ after[p].moved <= after[p].quantity
               /\ before[p].moved \in Nat /\ before[p].quantity \in Nat
          /\ orders'[o].status = IF Complete(after) THEN "FULFILLED" ELSE "PARTIALLY_FULFILLED"
      BY <1>7, ShipmentLines
    <2>2. ValidItems(items)
      BY WriteCases, Held
    <2> HIDE DEF items, before, after, order
    <2>3. \A p \in DOMAIN after :
             after[p].moved \in Nat /\ after[p].quantity \in Nat /\ after[p].moved <= after[p].quantity
      BY <2>1, LineTypes
    <2>4. Complete(after) <=> OutstandingPairs(after) = {}
      BY <2>3 DEF Complete, OutstandingPairs, Outstanding
    <2>5. \E p \in DOMAIN after : after[p].moved > 0
      <3>1. PICK p \in PairsOf(items) : TRUE
        BY <2>1
      <3>2. /\ UnitsOf(items, p) \in Nat /\ UnitsOf(items, p) > 0 /\ p \in DOMAIN before
            /\ before[p].moved \in Nat /\ after[p].moved = before[p].moved + UnitsOf(items, p)
        BY <2>1, <2>2, UnitsOfFacts
      <3>3. after[p].moved > 0
        BY <3>2
      <3> QED
        BY <2>1, <3>2, <3>3
    <2> QED
      BY <2>1, <2>3, <2>4, <2>5 DEF Agrees, after
  <1> QED
    BY <1>4, <1>5, <1>6, <1>7 DEF Writes

(* Every step leaves the status of every order that is not exposed in        *)
(* agreement with its lines.                                                 *)
LEMMA LinesStep == TypeOK /\ MemoryInv /\ LinesInv /\ [Next]_vars => LinesInv'
  <1> SUFFICES ASSUME TypeOK, MemoryInv, LinesInv, [Next]_vars PROVE LinesInv'
    OBVIOUS
  <1> USE DEF LinesInv
  <1>1. CASE UNCHANGED <<orders, exposed>>
    BY <1>1 DEF AllFilled, AllAgree
  <1>2. ASSUME NEW o \in Orders, Create(o) PROVE LinesInv'
    <2>1. PICK quantities \in LineSets :
             orders' = [orders EXCEPT ![o] =
                 [status |-> "DRAFT", version |-> 1, lines |-> FreshLines(quantities, 1)]]
      BY <1>2 DEF Create
    <2> DEFINE lines == FreshLines(quantities, 1)
    <2>2. ValidLines(quantities) /\ 1 \in Nat \ {0}
      BY LineSetsAssumption
    <2>3. /\ IsLineTable(lines) /\ DOMAIN lines # {}
          /\ \A p \in DOMAIN lines : lines[p].moved = 0 /\ lines[p].quantity > 0
      BY <2>2, FreshLinesFacts DEF ValidLines
    <2>4. orders'[o] = [status |-> "DRAFT", version |-> 1, lines |-> lines]
      BY <2>1 DEF TypeOK
    <2> HIDE DEF lines
    <2>5. \A p \in DOMAIN lines : lines[p].quantity \in Nat
      BY <2>3, LineTypes
    <2>6. OutstandingPairs(lines) # {}
      <3>1. PICK p \in DOMAIN lines : TRUE
        BY <2>3
      <3>2. p \in OutstandingPairs(lines)
        BY <2>3, <2>5 DEF OutstandingPairs, Outstanding
      <3> QED
        BY <3>2
    <2>7. orders'[o].lines = lines /\ orders'[o].status = "DRAFT"
      BY <2>4
    <2>8. Filled(orders'[o]) /\ Agrees(orders'[o])
      BY <2>3, <2>5, <2>6, <2>7 DEF Filled, Agrees
    <2>9. \A q \in Orders \ {o} : orders'[q] = orders[q]
      BY <2>1 DEF TypeOK
    <2> QED
      BY <1>2, <2>8, <2>9 DEF Create, AllFilled, AllAgree
  <1>3. ASSUME NEW r \in Requests, Writes(r) PROVE LinesInv'
    <2> DEFINE o == request[r].order
    <2>1. /\ Filled(orders'[o]) /\ exposed \subseteq exposed'
          /\ o \notin exposed' => Agrees(orders'[o])
      BY <1>3, WriteFills, WriteAgrees, WritesWhatItLoaded
    <2>2. \A q \in Orders \ {o} : orders'[q] = orders[q]
      BY <1>3, WriteCases, WriteFacts
    <2> HIDE DEF o
    <2> QED
      BY <2>1, <2>2 DEF AllFilled, AllAgree
  <1> QED
    BY <1>1, <1>2, <1>3, NextCases DEF Load, SeeLines, ShipLines, OtherChange, vars

(* No order exists at first.                                                 *)
LEMMA LinesInit == Init => LinesInv
  BY DEF Init, LinesInv, AllFilled, AllAgree

(* The status of an order says what has been shipped of it, and no line      *)
(* ships more than was ordered.                                              *)
THEOREM StatusCorrect == Spec => []StatusMatchesLines
  <1>1. LinesInv => StatusMatchesLines
    BY StatusByOrder DEF LinesInv
  <1> QED
    BY <1>1, TypeInit, TypeStep, MemoryInit, MemoryStep, LinesInit, LinesStep, PTL DEF Spec

-----------------------------------------------------------------------------
(* What the rows reserve. *)

(* What an order waits for is a number of units. *)
LEMMA AwaitedType ==
    ASSUME NEW order, order # NoOrder => OrderOK(order), NEW p
    PROVE  Awaited(order, p) \in Nat
  <1>1. CASE order # NoOrder /\ p \in DOMAIN order.lines
    <2>1. Outstanding(order.lines, p) \in Int
      BY <1>1, LineTypes DEF OrderOK
    <2> QED
      BY <2>1 DEF Awaited, Positive
  <1>2. CASE ~(order # NoOrder /\ p \in DOMAIN order.lines)
    BY <1>2 DEF Awaited
  <1> QED
    BY <1>1, <1>2

(* When the wait of one order changes, what is promised changes by as much. *)
LEMMA PromisedStep ==
    ASSUME TypeOK, TypeOK', NEW o \in Orders, \A q \in Orders \ {o} : orders'[q] = orders[q],
           NEW p \in Pairs
    PROVE  /\ Promised(p)' = Promised(p) - Awaited(orders[o], p) + Awaited(orders'[o], p)
           /\ Promised(p) \in Int /\ Promised(p)' \in Int
  <1> DEFINE f == [q \in Orders |-> Awaited(orders[q], p)]
             e == [q \in Orders |-> Awaited(orders'[q], p)]
  <1>1. \A q \in Orders : f[q] \in Int /\ e[q] \in Int
    <2> SUFFICES ASSUME NEW q \in Orders
                 PROVE  Awaited(orders[q], p) \in Nat /\ Awaited(orders'[q], p) \in Nat
      OBVIOUS
    <2>1. /\ orders[q] # NoOrder => OrderOK(orders[q])
          /\ orders'[q] # NoOrder => OrderOK(orders'[q])
      BY DEF TypeOK
    <2> QED
      BY <2>1, AwaitedType
  <1>2. \A q \in Orders \ {o} : f[q] = e[q]
    OBVIOUS
  <1>3. /\ Promised(p) = SumFunctionOnSet(f, Orders) /\ Promised(p)' = SumFunctionOnSet(e, Orders)
        /\ f[o] = Awaited(orders[o], p) /\ e[o] = Awaited(orders'[o], p)
    BY DEF Promised, SumFunction
  <1> HIDE DEF f, e
  <1>4. SumFunctionOnSet(e, Orders) = SumFunctionOnSet(f, Orders) - f[o] + e[o]
    BY <1>1, <1>2, SumUpdate, FiniteOrdersAssumption
  <1>5. SumFunctionOnSet(f, Orders) \in Int /\ SumFunctionOnSet(e, Orders) \in Int
    BY <1>1, SumInt, FiniteOrdersAssumption
  <1> QED
    BY <1>3, <1>4, <1>5

(* A write that exposes nothing changes what each row reserves by as much as *)
(* what its order waits for, and leaves what is reserved on the shelf.       *)
LEMMA WriteBacks ==
    ASSUME TypeOK, TypeOK', MemoryInv, LinesInv, NEW r \in Requests, Writes(r),
           request[r].order \notin exposed'
    PROVE  LET o == request[r].order IN
           /\ \A p \in Pairs : levels'[p].reserved = levels[p].reserved
                                   - Awaited(orders[o], p) + Awaited(orders'[o], p)
           /\ (\A p \in Pairs : Covered(levels[p])) => \A p \in Pairs : Covered(levels'[p])
  <1> DEFINE o == request[r].order
             order == orders[o]
             req == request[r]
  <1>1. /\ o \in Orders \ exposed /\ order # NoOrder /\ OrderOK(order) /\ req.loaded = order
        /\ order.status \in AllowedStatuses(req.operation)
        /\ req.operation \in Operations /\ Remembers(r) /\ ValidItems(req.items)
    BY WritesWhatItLoaded, WriteCases, Held DEF MemoryInv
  <1>2. Agrees(order) /\ IsLineTable(order.lines)
    BY <1>1 DEF LinesInv, AllAgree, OrderOK
  <1>3. \A p \in DOMAIN order.lines :
           /\ order.lines[p].moved \in Nat /\ order.lines[p].quantity \in Nat
           /\ order.lines[p].moved <= order.lines[p].quantity
           /\ Outstanding(order.lines, p) = order.lines[p].quantity - order.lines[p].moved
           /\ Outstanding(order.lines, p) \in Nat
    <2> HIDE DEF order
    <2> SUFFICES ASSUME NEW p \in DOMAIN order.lines
                 PROVE  /\ order.lines[p].moved \in Nat /\ order.lines[p].quantity \in Nat
                        /\ order.lines[p].moved <= order.lines[p].quantity
                        /\ Outstanding(order.lines, p)
                              = order.lines[p].quantity - order.lines[p].moved
                        /\ Outstanding(order.lines, p) \in Nat
      OBVIOUS
    <2>1. order.lines[p].moved \in Nat /\ order.lines[p].quantity \in Nat
      BY <1>2, LineTypes
    <2>2. order.lines[p].moved <= order.lines[p].quantity
      BY <1>2 DEF Agrees
    <2> QED
      BY <2>1, <2>2 DEF Outstanding
  <1>4. \A p \in Pairs : levels[p].reserved \in Int /\ levels'[p].reserved \in Int
    BY DEF TypeOK, Level
  <1>5. \A p \in Pairs : Awaited(order, p) \in Nat
    BY <1>1, AwaitedType
  <1>6. CASE Promise(r)
    <2> DEFINE status == IF req.operation = "allocate" THEN "ALLOCATED" ELSE "CANCELLED"
               changes == ReservationsOf(req)
    <2>1. orders'[o] = [status |-> status, version |-> order.version + 1, lines |-> order.lines]
      BY <1>1, <1>6 DEF Promise, Write, TypeOK
    <2>2. /\ levels' = Applied(levels, changes).rows /\ Applied(levels, changes).accepted
          /\ req.operation \in {"allocate", "cancel"}
      BY <1>6 DEF Promise
    <2>3. /\ \A p \in Pairs : levels'[p].reserved = levels[p].reserved + ReservedFor(req, p)
          /\ (\A p \in Pairs : Covered(levels[p])) => \A p \in Pairs : Covered(levels'[p])
      BY <1>1, <1>2, <2>2, ReservationRows DEF TypeOK
    <2>4. /\ req.operation = "allocate" => order.status = "DRAFT" /\ status = "ALLOCATED"
          /\ req.operation = "cancel" => /\ order.status \in {"DRAFT", "ALLOCATED",
                                                             "PARTIALLY_FULFILLED"}
                                         /\ status = "CANCELLED"
      BY <1>1 DEF AllowedStatuses
    <2>5. orders'[o].lines = order.lines /\ orders'[o].status = status /\ orders'[o] # NoOrder
      <3>1. orders'[o] # NoOrder
        BY WriteCases, WriteFacts
      <3> QED
        BY <2>1, <3>1
    <2> HIDE DEF status, changes
    <2>6. ASSUME NEW p \in Pairs
          PROVE  ReservedFor(req, p) = Awaited(orders'[o], p) - Awaited(order, p)
      <3>1. CASE req.operation = "allocate"
        <4>1. Awaited(order, p) = 0
          BY <2>4, <3>1 DEF Awaited
        <4>2. Awaited(orders'[o], p) = IF p \in DOMAIN order.lines
                                      THEN Positive(Outstanding(order.lines, p)) ELSE 0
          BY <2>4, <2>5, <3>1 DEF Awaited
        <4>3. ReservedFor(req, p) = IF p \in DOMAIN order.lines
                                    THEN Outstanding(order.lines, p) ELSE 0
          BY <1>1, <3>1 DEF ReservedFor
        <4> HIDE DEF order, req
        <4> QED
          BY <1>3, <4>1, <4>2, <4>3 DEF Positive
      <3>2. CASE req.operation = "cancel"
        <4>1. Awaited(orders'[o], p) = 0
          BY <2>4, <2>5, <3>2 DEF Awaited
        <4>2. CASE order.status = "DRAFT"
          <5>1. ReservedFor(req, p) = 0 /\ Awaited(order, p) = 0
            BY <1>1, <3>2, <4>2 DEF ReservedFor, Awaited
          <5> QED
            BY <4>1, <5>1
        <4>3. CASE order.status # "DRAFT"
          <5>1. ReservedFor(req, p) = IF p \in OutstandingPairs(order.lines)
                                      THEN 0 - Outstanding(order.lines, p) ELSE 0
            BY <1>1, <3>2, <4>3 DEF ReservedFor
          <5>2. Awaited(order, p) = IF p \in DOMAIN order.lines
                                    THEN Positive(Outstanding(order.lines, p)) ELSE 0
            BY <1>1, <2>4, <3>2, <4>3 DEF Awaited
          <5> HIDE DEF order, req
          <5> QED
            BY <1>3, <4>1, <5>1, <5>2 DEF Positive, OutstandingPairs
        <4> QED
          BY <4>2, <4>3
      <3> QED
        BY <2>2, <3>1, <3>2
    <2>7. \A p \in Pairs : Awaited(orders'[o], p) \in Nat
      BY <1>1, AwaitedType DEF TypeOK
    <2> HIDE DEF order
    <2>8. \A p \in Pairs : levels'[p].reserved = levels[p].reserved
                               - Awaited(order, p) + Awaited(orders'[o], p)
      BY <1>4, <1>5, <2>3, <2>6, <2>7
    <2> QED
      BY <2>3, <2>8 DEF order
  <1>7. CASE Update(r) \/ ReplaceLines(r)
    <2>1. levels' = levels
      BY <1>7 DEF Update, ReplaceLines
    <2>2. ASSUME NEW p \in Pairs PROVE Awaited(orders'[o], p) = Awaited(order, p)
      <3>1. CASE Update(r)
        <4>1. orders'[o] = [status |-> order.status, version |-> order.version + 1,
                            lines |-> order.lines]
          BY <1>1, <3>1 DEF Update, Write, TypeOK
        <4>2. orders'[o] # NoOrder
          BY WriteCases, WriteFacts
        <4> HIDE DEF order
        <4> QED
          BY <1>1, <4>1, <4>2 DEF Awaited
      <3>2. CASE ReplaceLines(r)
        <4>1. order.status = "DRAFT"
          BY <1>1, <3>2 DEF ReplaceLines, Remembers, AllowedStatuses
        <4>2. orders'[o].status = order.status
          BY <1>1, <3>2 DEF ReplaceLines, Write, TypeOK
        <4> HIDE DEF order
        <4> QED
          BY <4>1, <4>2 DEF Awaited
      <3> QED
        BY <1>7, <3>1, <3>2
    <2> HIDE DEF order
    <2>3. \A p \in Pairs : levels'[p].reserved = levels[p].reserved
                               - Awaited(order, p) + Awaited(orders'[o], p)
      BY <1>4, <1>5, <2>1, <2>2
    <2> QED
      BY <2>1, <2>3 DEF order
  <1>8. CASE CommitShipment(r)
    <2> DEFINE items == req.items
               before == order.lines
               after == orders'[o].lines
    <2>1. /\ DOMAIN after = DOMAIN before /\ PairsOf(items) \subseteq DOMAIN before
          /\ \A p \in DOMAIN before :
               /\ after[p].quantity = before[p].quantity
               /\ after[p].moved = before[p].moved + UnitsOf(items, p)
               /\ after[p].moved <= after[p].quantity
          /\ order.status \in {"ALLOCATED", "PARTIALLY_FULFILLED"}
          /\ orders'[o].status = IF Complete(after) THEN "FULFILLED" ELSE "PARTIALLY_FULFILLED"
      BY <1>8, ShipmentLines
    <2>2. /\ \A p \in Pairs : levels'[p].reserved = levels[p].reserved - UnitsOf(items, p)
          /\ (\A p \in Pairs : Covered(levels[p])) => \A p \in Pairs : Covered(levels'[p])
      BY <1>1, <1>8, ShipmentRows DEF CommitShipment, TypeOK
    <2>3. orders'[o] # NoOrder
      BY WriteCases, WriteFacts
    <2>4. ASSUME NEW p \in Pairs
          PROVE  /\ UnitsOf(items, p) \in Nat
                 /\ Awaited(orders'[o], p) = Awaited(order, p) - UnitsOf(items, p)
      <3>1. UnitsOf(items, p) \in Nat
        BY <1>1, UnitsOfFacts
      <3>2. CASE p \in DOMAIN before
        <4>1. Awaited(order, p) = before[p].quantity - before[p].moved
          BY <1>1, <1>3, <2>1, <3>2 DEF Awaited, Positive
        <4>2. /\ before[p].quantity \in Nat /\ before[p].moved \in Nat
              /\ after[p].quantity = before[p].quantity
              /\ after[p].moved = before[p].moved + UnitsOf(items, p)
              /\ after[p].moved <= after[p].quantity
          BY <1>3, <2>1, <3>2
        <4>3. Awaited(orders'[o], p) = IF Complete(after) THEN 0
                                      ELSE Positive(after[p].quantity - after[p].moved)
          BY <2>1, <2>3, <3>2 DEF Awaited, Outstanding
        <4>4. Complete(after) => after[p].moved >= after[p].quantity
          BY <2>1, <3>2 DEF Complete
        <4> HIDE DEF before, after, items, order
        <4> QED
          BY <3>1, <4>1, <4>2, <4>3, <4>4 DEF Positive
      <3>3. CASE p \notin DOMAIN before
        <4>1. Awaited(order, p) = 0 /\ Awaited(orders'[o], p) = 0
          BY <2>1, <3>3 DEF Awaited
        <4>2. UnitsOf(items, p) = 0
          BY <1>1, <2>1, <3>3, UnitsOfFacts
        <4> QED
          BY <3>1, <4>1, <4>2
      <3> QED
        BY <3>2, <3>3
    <2> HIDE DEF order, items
    <2>5. \A p \in Pairs : levels'[p].reserved = levels[p].reserved
                               - Awaited(order, p) + Awaited(orders'[o], p)
      BY <1>4, <1>5, <2>2, <2>4
    <2> QED
      BY <2>2, <2>5 DEF order
  <1> QED
    BY <1>6, <1>7, <1>8 DEF Writes

(* Every step that exposes nothing leaves every reservation backed.          *)
LEMMA BackedStep ==
    TypeOK /\ TypeOK' /\ MemoryInv /\ LinesInv /\ ReservationsBacked /\ [Next]_vars
        => ReservationsBacked'
  <1> SUFFICES ASSUME TypeOK, TypeOK', MemoryInv, LinesInv, ReservationsBacked, [Next]_vars,
                      exposed' = {}
               PROVE  \A p \in Pairs : levels'[p].reserved = Promised(p)' /\ Covered(levels'[p])
    BY DEF ReservationsBacked
  <1>1. CASE UNCHANGED <<levels, orders, exposed>>
    BY <1>1 DEF ReservationsBacked, Promised
  <1>2. ASSUME NEW o \in Orders, Create(o)
        PROVE  \A p \in Pairs : levels'[p].reserved = Promised(p)' /\ Covered(levels'[p])
    <2>1. /\ \A q \in Orders \ {o} : orders'[q] = orders[q]
          /\ orders[o] = NoOrder /\ orders'[o].status = "DRAFT"
          /\ levels' = levels /\ exposed = {}
      BY <1>2 DEF Create, TypeOK
    <2>2. \A p \in Pairs : Awaited(orders[o], p) = 0 /\ Awaited(orders'[o], p) = 0
      BY <2>1 DEF Awaited
    <2>3. \A p \in Pairs : levels[p].reserved = Promised(p) /\ Covered(levels[p])
      BY <2>1 DEF ReservationsBacked
    <2>4. ASSUME NEW p \in Pairs PROVE Promised(p)' = Promised(p)
      BY <2>1, <2>2, PromisedStep
    <2> QED
      BY <2>1, <2>3, <2>4
  <1>3. ASSUME NEW r \in Requests, Writes(r)
        PROVE  \A p \in Pairs : levels'[p].reserved = Promised(p)' /\ Covered(levels'[p])
    <2>1. PICK o \in Orders : o = request[r].order
      BY <1>3, WritesWhatItLoaded
    <2>2. exposed = {} /\ \A q \in Orders \ {o} : orders'[q] = orders[q]
      BY <1>3, <2>1, WritesWhatItLoaded, WriteCases, WriteFacts
    <2>3. \A p \in Pairs : levels[p].reserved = Promised(p) /\ Covered(levels[p])
      BY <2>2 DEF ReservationsBacked
    <2>4. /\ \A p \in Pairs : levels'[p].reserved = levels[p].reserved
                                 - Awaited(orders[o], p) + Awaited(orders'[o], p)
          /\ \A p \in Pairs : Covered(levels'[p])
      BY <1>3, <2>1, <2>3, WriteBacks
    <2>5. ASSUME NEW p \in Pairs PROVE levels'[p].reserved = Promised(p)'
      <3>1. Promised(p)' = Promised(p) - Awaited(orders[o], p) + Awaited(orders'[o], p)
        BY <2>2, PromisedStep
      <3> QED
        BY <2>3, <2>4, <3>1
    <2> QED
      BY <2>4, <2>5
  <1>4. ASSUME NEW c \in OtherChanges, OtherChange(c)
        PROVE  \A p \in Pairs : levels'[p].reserved = Promised(p)' /\ Covered(levels'[p])
    <2>1. /\ levels' = Applied(levels, <<c>>).rows /\ Applied(levels, <<c>>).accepted
          /\ orders' = orders /\ exposed = {}
      BY <1>4 DEF OtherChange
    <2>2. \A p \in Pairs : levels[p].reserved = Promised(p) /\ Covered(levels[p])
      BY <2>1 DEF ReservationsBacked
    <2>3. \A p \in Pairs : levels'[p].reserved = levels[p].reserved /\ Covered(levels'[p])
      BY <2>1, <2>2, OtherRows DEF TypeOK
    <2>4. ASSUME NEW p \in Pairs PROVE Promised(p)' = Promised(p)
      BY <2>1 DEF Promised
    <2> QED
      BY <2>2, <2>3, <2>4
  <1> QED
    BY <1>1, <1>2, <1>3, <1>4, NextCases DEF Load, SeeLines, ShipLines, vars

(* Nothing is reserved at first, and nothing is ordered.                     *)
LEMMA BackedInit == Init => ReservationsBacked
  <1> SUFFICES ASSUME Init, NEW p \in Pairs
               PROVE  levels[p].reserved = Promised(p) /\ Covered(levels[p])
    BY DEF ReservationsBacked
  <1> DEFINE f == [o \in Orders |-> Awaited(orders[o], p)]
  <1>1. \A o \in Orders : f[o] = 0
    BY DEF Init, Awaited
  <1>2. Promised(p) = SumFunctionOnSet(f, Orders)
    BY DEF Promised, SumFunction
  <1> HIDE DEF f
  <1>3. Promised(p) = 0
    BY <1>1, <1>2, SumZero, FiniteOrdersAssumption
  <1>4. levels[p].reserved = 0 /\ levels[p].quantity \in Int /\ levels[p].quantity >= 0
    BY OrdersOpeningAssumption DEF Init, Level
  <1> QED
    BY <1>3, <1>4 DEF Covered

(* What the rows reserve is what the open orders wait for, and it is on the  *)
(* shelf, as long as no request has written an order it had not seen.        *)
THEOREM ReservationsAlwaysBacked == Spec => []ReservationsBacked
  BY TypeInit, TypeStep, MemoryInit, MemoryStep, LinesInit, LinesStep, BackedInit, BackedStep, PTL
     DEF Spec
===============================================================================
