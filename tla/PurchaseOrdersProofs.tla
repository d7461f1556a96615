------------------------- MODULE PurchaseOrdersProofs -------------------------
(***************************************************************************)
(* Proofs about PurchaseOrders, for every set of orders and pairs, every   *)
(* payload, every list of items, every opening stock and any number of     *)
(* requests.                                                               *)
(***************************************************************************)
EXTENDS PurchaseOrders, StockLemmas

AtWork(r) == pc[r] \in {"loaded", "replacing", "received"}
Writes(r) == WriteStatus(r) \/ ReplaceLines(r) \/ CommitReceipt(r)

(* A step of a request writes its order, or only notes what it has read, or *)
(* only answers.                                                            *)
LEMMA NextCases ==
    ASSUME Next
    PROVE  \/ \E o \in Orders : Create(o)
           \/ \E r \in Requests, operation \in Operations, sent \in Versions, o \in Orders :
                 Load(r, operation, sent, o)
           \/ \E r \in Requests : SeeLines(r)
           \/ \E r \in Requests, named \in ReceiptLists : ReceiveLines(r, named)
           \/ \E r \in Requests : Writes(r)
           \/ \E r \in Requests :
                 Answer(r) /\ UNCHANGED <<levels, booked, orders, blind, repeated>>
           \/ UNCHANGED vars
  <1>1. CASE \E o \in Orders : Create(o)
    BY <1>1
  <1>2. CASE \E r \in Requests : Handle(r)
    <2>1. PICK r \in Requests : Handle(r)
      BY <1>2
    <2>2. CASE \E operation \in Operations, sent \in Versions, o \in Orders :
                  Load(r, operation, sent, o) \/ RejectLoad(r, operation, sent, o)
      BY <2>2 DEF RejectLoad
    <2>3. CASE \E named \in ReceiptLists : ReceiveLines(r, named) \/ RefuseReceipt(r, named)
      BY <2>3 DEF RefuseReceipt
    <2>4. CASE WriteStatus(r) \/ SeeLines(r) \/ ReplaceLines(r) \/ CommitReceipt(r) \/ Fail(r)
      BY <2>4 DEF Writes, Fail
    <2> QED
      BY <2>1, <2>2, <2>3, <2>4, Zenon DEF Handle
  <1>3. CASE Quiet
    BY <1>3 DEF Quiet
  <1> QED
    BY <1>1, <1>2, <1>3 DEF Next

(* What a request at work holds. *)
LEMMA Held ==
    ASSUME TypeOK, NEW r \in Requests, AtWork(r)
    PROVE  LET req == request[r] IN
           /\ req.operation \in Operations /\ req.sent \in Versions
           /\ req.order \in Orders /\ orders[req.order] # NoOrder
           /\ OrderOK(orders[req.order]) /\ OrderOK(req.loaded)
           /\ req.loaded.status \in AllowedStatuses(req.operation)
           /\ req.loaded.version <= orders[req.order].version
           /\ ValidItems(req.items)
  BY DEF TypeOK, RequestOK, AtWork

(* An order written out as a record is one. *)
LEMMA OrderRecord ==
    ASSUME NEW status \in Statuses, NEW version \in Nat, NEW lines, IsLineTable(lines),
           \A p \in DOMAIN lines : lines[p].insertedAt <= version
    PROVE  LET order == [status |-> status, version |-> version, lines |-> lines] IN
           OrderOK(order) /\ order # NoOrder
  <1> DEFINE order == [status |-> status, version |-> version, lines |-> lines]
  <1>1. lines \in LineTable
    BY DEF IsLineTable, LineTable
  <1>2. order \in Order
    BY <1>1 DEF Order
  <1>3. OrderOK(order)
    BY DEF OrderOK
  <1> HIDE DEF order
  <1> QED
    BY <1>2, <1>3, NoOrderAssumption DEF order

(* No order disappears, and its version only grows. *)
Grows ==
    \A o \in Orders :
        orders[o] # NoOrder => orders'[o] # NoOrder /\ orders[o].version <= orders'[o].version

(* What a write leaves: the order it writes, one version on. *)
LEMMA WriteFacts ==
    ASSUME TypeOK, NEW r \in Requests, AtWork(r),
           NEW status \in Statuses, NEW lines, IsLineTable(lines),
           \A p \in DOMAIN lines : lines[p].insertedAt <= orders[request[r].order].version + 1,
           Write(r, status, lines)
    PROVE  LET o == request[r].order IN
           /\ DOMAIN orders' = Orders
           /\ \A q \in Orders \ {o} : orders'[q] = orders[q]
           /\ orders'[o] = [status |-> status, version |-> orders[o].version + 1,
                            lines |-> lines]
           /\ orders'[o] # NoOrder
           /\ \A q \in Orders : orders'[q] # NoOrder => OrderOK(orders'[q])
           /\ blind' \subseteq [order : Orders, sent : Versions]
           /\ Grows
  <1> DEFINE o == request[r].order
  <1>1. /\ o \in Orders /\ orders[o] # NoOrder /\ OrderOK(orders[o])
        /\ request[r].sent \in Versions /\ orders[o].version \in Nat
    BY Held DEF OrderOK
  <1>2. /\ DOMAIN orders' = Orders
        /\ \A q \in Orders \ {o} : orders'[q] = orders[q]
        /\ orders'[o] = [status |-> status, version |-> orders[o].version + 1, lines |-> lines]
    BY <1>1 DEF Write, TypeOK
  <1>3. OrderOK(orders'[o]) /\ orders'[o] # NoOrder
    BY <1>1, <1>2, OrderRecord
  <1>4. \A q \in Orders : orders'[q] # NoOrder => OrderOK(orders'[q])
    BY <1>2, <1>3 DEF TypeOK
  <1>5. blind' \subseteq [order : Orders, sent : Versions]
    BY <1>1 DEF Write, TypeOK
  <1>6. orders'[o].version = orders[o].version + 1
    BY <1>2
  <1>7. ASSUME NEW q \in Orders, orders[q] # NoOrder
        PROVE  orders'[q] # NoOrder /\ orders[q].version <= orders'[q].version
    <2>1. orders[q].version \in Nat
      BY <1>7 DEF TypeOK, OrderOK
    <2>2. CASE q = o
      BY <1>3, <1>6, <2>1, <2>2
    <2>3. CASE q # o
      BY <1>2, <1>7, <2>1, <2>3
    <2> QED
      BY <2>2, <2>3
  <1> QED
    BY <1>2, <1>3, <1>4, <1>5, <1>7 DEF Grows

(* The lines a replacement leaves. *)
LEMMA ReplacedLines ==
    ASSUME TypeOK, NEW r \in Requests, pc[r] = "replacing",
           NEW quantities \in LineSets
    PROVE  LET order == orders[request[r].order]
               lines == Inserted(LinesLeft(order.lines, request[r].seen), quantities,
                                 order.version + 1)
           IN
           /\ IsLineTable(lines)
           /\ \A p \in DOMAIN lines :
                /\ lines[p].insertedAt <= order.version + 1
                /\ lines[p].moved # 0 => /\ p \in DOMAIN order.lines
                                         /\ lines[p].moved = order.lines[p].moved
  <1> DEFINE order == orders[request[r].order]
             left == LinesLeft(order.lines, request[r].seen)
             lines == Inserted(left, quantities, order.version + 1)
  <1>1. order.version \in Nat /\ IsLineTable(order.lines)
        /\ \A p \in DOMAIN order.lines : order.lines[p].insertedAt <= order.version
    BY Held DEF AtWork, OrderOK
  <1>2. ValidLines(quantities)
    BY ReceivedLineSetsAssumption
  <1>3. IsLineTable(left) /\ \A p \in DOMAIN left : p \in DOMAIN order.lines
                                                  /\ left[p] = order.lines[p]
    <2> HIDE DEF order
    <2> QED
      BY <1>1, LinesLeftFacts
  <1>4. order.version + 1 \in Nat \ {0}
    BY <1>1
  <1>5. /\ IsLineTable(lines)
        /\ \A p \in DOMAIN lines :
              \/ p \in DOMAIN left /\ lines[p] = left[p]
              \/ lines[p] = [quantity |-> quantities[p], moved |-> 0,
                             insertedAt |-> order.version + 1]
    <2> DEFINE version == order.version + 1
    <2>1. version \in Nat \ {0}
      BY <1>4
    <2> HIDE DEF left, version
    <2>2. IsLineTable(Inserted(left, quantities, version))
      BY <1>2, <1>3, <2>1, InsertedFacts
    <2>3. \A p \in DOMAIN Inserted(left, quantities, version) :
             InsertedLine(Inserted(left, quantities, version), left, quantities, version, p)
      BY <1>2, <1>3, <2>1, InsertedFacts
    <2> QED
      BY <2>2, <2>3 DEF version, InsertedLine
  <1>6. ASSUME NEW p \in DOMAIN lines
        PROVE  /\ lines[p].insertedAt <= order.version + 1
               /\ lines[p].moved # 0 => /\ p \in DOMAIN order.lines
                                        /\ lines[p].moved = order.lines[p].moved
    <2> HIDE DEF order, left, lines
    <2>1. CASE p \in DOMAIN left /\ lines[p] = left[p]
      <3>1. lines[p] = order.lines[p] /\ p \in DOMAIN order.lines
        BY <1>3, <2>1
      <3>2. order.lines[p].insertedAt \in Nat /\ order.lines[p].insertedAt <= order.version
        BY <1>1, <3>1, LineTypes
      <3> QED
        BY <1>1, <3>1, <3>2
    <2>2. CASE lines[p] = [quantity |-> quantities[p], moved |-> 0,
                           insertedAt |-> order.version + 1]
      BY <1>1, <2>2
    <2> QED
      BY <1>5, <2>1, <2>2
  <1> HIDE DEF order, left
  <1> QED
    BY <1>5, <1>6 DEF order, left

(* The items a receipt books are items its order had when it was loaded. *)
LEMMA ReceivedItems ==
    ASSUME TypeOK, NEW r \in Requests, NEW named \in ReceiptLists, ReceiveLines(r, named)
    PROVE  LET items == ItemsOf(request[r].loaded.lines, named) IN
           ValidItems(items) /\ items # <<>> /\ ItemsOK(request[r].loaded.lines, items)
  <1>1. IsLineTable(request[r].loaded.lines) /\ ItemsOK(request[r].loaded.lines, named)
        /\ ItemsOf(request[r].loaded.lines, named) # <<>>
    BY Held DEF ReceiveLines, CanReceive, AtWork, OrderOK
  <1>2. ValidItems(named)
    BY ReceiptListsAssumption
  <1> QED
    BY <1>1, <1>2, ItemsOfFacts

(* The stock changes of a receipt are changes, each of as many units as its  *)
(* item.                                                                     *)
LEMMA ReceiptChanges ==
    ASSUME NEW items, ValidItems(items)
    PROVE  /\ DOMAIN ReceiptsOf(items) = 1..Len(items) /\ Len(items) \in Nat
           /\ \A i \in 1..Len(items) :
                /\ SoundChange(ReceiptsOf(items)[i])
                /\ ReceiptsOf(items)[i].pair = items[i].pair
                /\ ReceiptsOf(items)[i].delta = items[i].quantity
  <1>1. /\ DOMAIN items = 1..Len(items) /\ Len(items) \in Nat
        /\ \A i \in 1..Len(items) : items[i].pair \in Pairs /\ items[i].quantity \in Nat
    BY ItemTypes
  <1>2. DOMAIN ReceiptsOf(items) = 1..Len(items)
    BY <1>1 DEF ReceiptsOf
  <1>3. ASSUME NEW i \in 1..Len(items)
        PROVE  /\ SoundChange(ReceiptsOf(items)[i])
               /\ ReceiptsOf(items)[i].pair = items[i].pair
               /\ ReceiptsOf(items)[i].delta = items[i].quantity
    <2>1. ReceiptsOf(items)[i]
             = [kind |-> "movement", pair |-> items[i].pair, type |-> "INBOUND",
                delta |-> items[i].quantity, reservedDelta |-> 0,
                respects |-> items[i].quantity < 0]
      BY <1>1 DEF ReceiptsOf, RecordIn, MovementOf
    <2>2. items[i].pair \in Pairs /\ items[i].quantity \in Int
      BY <1>1
    <2>3. (items[i].quantity < 0) \in BOOLEAN
      OBVIOUS
    <2> QED
      BY <2>1, <2>2, <2>3
         DEF SoundChange, Change, MovementTypes, IncreasingTypes, DecreasingTypes
  <1> QED
    BY <1>1, <1>2, <1>3

(* A receipt adds to each row the units its items name of it. *)
LEMMA ReceiptRows ==
    ASSUME NEW rows \in [Pairs -> Level], NEW items, ValidItems(items)
    PROVE  LET after == Applied(rows, ReceiptsOf(items)).rows IN
           /\ after \in [Pairs -> Level]
           /\ \A p \in Pairs : after[p].quantity = rows[p].quantity + UnitsOf(items, p)
  <1> DEFINE changes == ReceiptsOf(items)
             after == Applied(rows, changes).rows
             n == Len(items)
  <1>1. /\ DOMAIN changes = 1..n /\ n \in Nat /\ DOMAIN items = 1..n
        /\ \A i \in 1..n : /\ SoundChange(changes[i])
                            /\ changes[i].pair = items[i].pair
                            /\ changes[i].delta = items[i].quantity
    BY ReceiptChanges, ItemTypes
  <1>2. /\ after \in [Pairs -> Level]
        /\ \A p \in Pairs :
             after[p].quantity = rows[p].quantity + SumFunctionOnSet(DeltasOf(changes, p), 1..n)
    <2> HIDE DEF changes, n
    <2> QED
      BY <1>1, AppliedSums
  <1>3. ASSUME NEW p \in Pairs
        PROVE  SumFunctionOnSet(DeltasOf(changes, p), 1..n) = UnitsOf(items, p)
    <2> DEFINE f == [i \in DOMAIN items |->
                       IF items[i].pair = p THEN items[i].quantity ELSE 0]
    <2>1. UnitsOf(items, p) = SumFunctionOnSet(f, 1..n)
      BY <1>1 DEF UnitsOf, SumFunction
    <2> HIDE DEF changes, n
    <2>2. \A i \in 1..n : DeltasOf(changes, p)[i] = f[i]
      BY <1>1 DEF DeltasOf
    <2>3. IsFiniteSet(1..n)
      BY <1>1, FS_Interval
    <2> HIDE DEF f
    <2> QED
      BY <2>1, <2>2, <2>3, SumEqual
  <1> HIDE DEF n, changes
  <1> QED
    BY <1>2, <1>3 DEF changes

(* Every step that writes an order writes a status, lines and a version that *)
(* make an order, and answers the request.                                   *)
LEMMA WriteCases ==
    ASSUME TypeOK, NEW r \in Requests, Writes(r)
    PROVE  /\ AtWork(r) /\ Answer(r)
           /\ \E status \in Statuses : \E lines :
                /\ Write(r, status, lines) /\ IsLineTable(lines)
                /\ \A p \in DOMAIN lines :
                      lines[p].insertedAt <= orders[request[r].order].version + 1
  <1> DEFINE order == orders[request[r].order]
  <1>0. AtWork(r) /\ Answer(r)
    BY DEF Writes, WriteStatus, ReplaceLines, CommitReceipt, AtWork
  <1>1. /\ order.status \in Statuses /\ order.version \in Nat /\ IsLineTable(order.lines)
        /\ \A p \in DOMAIN order.lines : order.lines[p].insertedAt <= order.version
    BY <1>0, Held DEF OrderOK
  <1>2. \A p \in DOMAIN order.lines : order.lines[p].insertedAt <= order.version + 1
    <2> HIDE DEF order
    <2> QED
      BY <1>1, LineTypes
  <1>3. CASE WriteStatus(r)
    <2>1. \E status \in Statuses : Write(r, status, order.lines)
      BY <1>1, <1>3 DEF WriteStatus, Statuses
    <2> QED
      BY <1>0, <1>1, <1>2, <2>1
  <1>4. CASE ReplaceLines(r)
    BY <1>0, <1>1, <1>4, ReplacedLines DEF ReplaceLines
  <1>5. CASE CommitReceipt(r)
    <2> DEFINE lines == MoveLines(order.lines, request[r].items)
    <2>1. \E status \in Statuses : Write(r, status, lines)
      BY <1>5 DEF CommitReceipt, Statuses
    <2>2. IsLineTable(lines) /\ \A p \in DOMAIN lines : lines[p].insertedAt <= order.version + 1
      <3>1. ValidItems(request[r].items)
        BY <1>0, Held
      <3> HIDE DEF order
      <3> QED
        BY <1>1, <1>2, <3>1, MoveLinesFacts
    <2> HIDE DEF lines
    <2> QED
      BY <1>0, <2>1, <2>2
  <1> QED
    BY <1>3, <1>4, <1>5 DEF Writes

-----------------------------------------------------------------------------
(* The type invariant. *)

(* A step leaves a request alone that it does not touch. *)
LEMMA RequestKept ==
    ASSUME TypeOK, Grows, NEW s \in Requests, pc'[s] = pc[s], request'[s] = request[s],
           \A o \in Orders : orders[o] # NoOrder => OrderOK(orders[o])'
    PROVE  RequestOK(s)'
  <1>1. CASE AtWork(s)
    <2> DEFINE o == request[s].order
    <2>1. RequestOK(s) /\ o \in Orders /\ orders[o] # NoOrder
      BY <1>1, Held DEF TypeOK
    <2>2. /\ orders'[o] # NoOrder /\ orders[o].version <= orders'[o].version
          /\ orders[o].version \in Nat /\ orders'[o].version \in Nat
          /\ request[s].loaded.version \in Nat
      BY <1>1, <2>1, Held DEF Grows, OrderOK
    <2> QED
      BY <1>1, <2>1, <2>2 DEF RequestOK, AtWork
  <1>2. CASE ~AtWork(s)
    <2>1. request[s] = <<>>
      BY <1>2 DEF TypeOK, RequestOK, AtWork
    <2> QED
      BY <1>2, <2>1 DEF RequestOK, AtWork
  <1> QED
    BY <1>1, <1>2

(* A step of one request leaves the others as they were. *)
LEMMA RequestsType ==
    ASSUME TypeOK, Grows, \A o \in Orders : orders[o] # NoOrder => OrderOK(orders[o])',
           NEW r \in Requests, NEW where \in {"loaded", "replacing", "received", "answered"},
           NEW what, pc' = [pc EXCEPT ![r] = where], request' = [request EXCEPT ![r] = what],
           RequestOK(r)'
    PROVE  /\ pc' \in [Requests -> {"idle", "loaded", "replacing", "received", "answered"}]
           /\ DOMAIN request' = Requests /\ \A s \in Requests : RequestOK(s)'
  <1>1. /\ pc' \in [Requests -> {"idle", "loaded", "replacing", "received", "answered"}]
        /\ DOMAIN request' = Requests
    BY DEF TypeOK
  <1>2. ASSUME NEW s \in Requests \ {r} PROVE RequestOK(s)'
    <2>1. pc'[s] = pc[s] /\ request'[s] = request[s]
      BY DEF TypeOK
    <2> QED
      BY <2>1, RequestKept
  <1> QED
    BY <1>1, <1>2

(* Answering a request keeps the types. *)
LEMMA AnswerType ==
    ASSUME TypeOK, Grows, \A o \in Orders : orders[o] # NoOrder => OrderOK(orders[o])',
           NEW r \in Requests, Answer(r)
    PROVE  /\ pc' \in [Requests -> {"idle", "loaded", "replacing", "received", "answered"}]
           /\ DOMAIN request' = Requests /\ \A s \in Requests : RequestOK(s)'
  <1>1. pc' = [pc EXCEPT ![r] = "answered"] /\ request' = [request EXCEPT ![r] = <<>>]
    BY DEF Answer
  <1>2. RequestOK(r)'
    BY <1>1 DEF TypeOK, RequestOK
  <1> QED
    BY <1>1, <1>2, RequestsType

(* Orders that nobody writes stay orders. *)
LEMMA UnchangedOrders ==
    ASSUME TypeOK, orders' = orders
    PROVE  Grows /\ \A o \in Orders : orders[o] # NoOrder => OrderOK(orders[o])'
  <1>1. ASSUME NEW o \in Orders, orders[o] # NoOrder
        PROVE  OrderOK(orders[o]) /\ orders[o].version \in Nat
    BY <1>1 DEF TypeOK, OrderOK
  <1> QED
    BY <1>1 DEF Grows

(* The first state has the types it should. *)
LEMMA TypeInit == Init => TypeOK
  <1> SUFFICES ASSUME Init PROVE TypeOK
    OBVIOUS
  <1>1. \A r \in Requests : RequestOK(r)
    BY DEF Init, RequestOK
  <1> QED
    BY <1>1, ReceiptsOpeningAssumption DEF Init, TypeOK

(* What a load, the DELETE's look and a booked receipt note of the order.    *)
LEMMA Noted ==
    ASSUME TypeOK, NEW r \in Requests
    PROVE  /\ \A operation \in Operations, sent \in Versions, o \in Orders :
                 Load(r, operation, sent, o) =>
                     /\ pc'[r] = "loaded" /\ orders[o] # NoOrder
                     /\ orders[o].status \in AllowedStatuses(operation)
                     /\ operation = "cancel" => Untouched(orders[o])
                     /\ request'[r] =
                          [operation |-> operation, order |-> o, loaded |-> orders[o],
                           items |-> <<>>,
                           sent |-> IF operation \in {"update", "replaceLines"}
                                    THEN sent ELSE 0]
           /\ SeeLines(r) =>
                 /\ pc[r] = "loaded" /\ request[r].operation = "replaceLines"
                 /\ pc'[r] = "replacing"
                 /\ request'[r] =
                      [operation |-> "replaceLines", order |-> request[r].order,
                       loaded |-> request[r].loaded, items |-> <<>>,
                       sent |-> request[r].sent,
                       seen |-> orders[request[r].order].version]
           /\ \A named \in ReceiptLists :
                 ReceiveLines(r, named) =>
                     LET items == ItemsOf(request[r].loaded.lines, named) IN
                     /\ pc[r] = "loaded" /\ request[r].operation = "receive"
                     /\ pc'[r] = "received"
                     /\ request'[r] =
                          [operation |-> "receive", order |-> request[r].order,
                           loaded |-> request[r].loaded, items |-> items, sent |-> 0,
                           complete |->
                             Complete(MoveLines(orders[request[r].order].lines, items))]
  <1>1. DOMAIN request = Requests /\ DOMAIN pc = Requests
    BY DEF TypeOK
  <1>2. ASSUME NEW operation \in Operations, NEW sent \in Versions, NEW o \in Orders,
               Load(r, operation, sent, o)
        PROVE  /\ pc'[r] = "loaded" /\ orders[o] # NoOrder
               /\ orders[o].status \in AllowedStatuses(operation)
               /\ operation = "cancel" => Untouched(orders[o])
               /\ request'[r] =
                    [operation |-> operation, order |-> o, loaded |-> orders[o], items |-> <<>>,
                     sent |-> IF operation \in {"update", "replaceLines"} THEN sent ELSE 0]
    BY <1>1, <1>2 DEF Load, Accepts
  <1>3. ASSUME SeeLines(r)
        PROVE  /\ pc[r] = "loaded" /\ request[r].operation = "replaceLines"
               /\ pc'[r] = "replacing"
               /\ request'[r] =
                    [operation |-> "replaceLines", order |-> request[r].order,
                     loaded |-> request[r].loaded, items |-> <<>>, sent |-> request[r].sent,
                     seen |-> orders[request[r].order].version]
    BY <1>1, <1>3 DEF SeeLines
  <1>4. ASSUME NEW named \in ReceiptLists, ReceiveLines(r, named)
        PROVE  LET items == ItemsOf(request[r].loaded.lines, named) IN
               /\ pc[r] = "loaded" /\ request[r].operation = "receive"
               /\ pc'[r] = "received"
               /\ request'[r] =
                    [operation |-> "receive", order |-> request[r].order,
                     loaded |-> request[r].loaded, items |-> items, sent |-> 0,
                     complete |-> Complete(MoveLines(orders[request[r].order].lines, items))]
    BY <1>1, <1>4 DEF ReceiveLines
  <1> QED
    BY <1>2, <1>3, <1>4

(* Every step leaves every variable with its type, and every request with an *)
(* order that exists and that its operation accepted.                        *)
LEMMA TypeStep == TypeOK /\ [Next]_vars => TypeOK'
  <1> SUFFICES ASSUME TypeOK, [Next]_vars PROVE TypeOK'
    OBVIOUS
  <1>e. <<>> \in Seq(Item)
    OBVIOUS
  <1>1. ASSUME NEW o \in Orders, Create(o) PROVE TypeOK'
    <2>1. PICK quantities \in LineSets :
             orders' = [orders EXCEPT ![o] =
                 [status |-> "DRAFT", version |-> 1, lines |-> FreshLines(quantities, 1)]]
      BY <1>1 DEF Create
    <2> DEFINE lines == FreshLines(quantities, 1)
    <2>2. ValidLines(quantities) /\ 1 \in Nat \ {0}
      BY ReceivedLineSetsAssumption
    <2>3. IsLineTable(lines) /\ \A p \in DOMAIN lines : lines[p].insertedAt <= 1
      BY <2>2, FreshLinesFacts
    <2>4. orders'[o] = [status |-> "DRAFT", version |-> 1, lines |-> lines]
      BY <2>1 DEF TypeOK
    <2> HIDE DEF lines
    <2>5. OrderOK(orders'[o])
      BY <2>3, <2>4, OrderRecord DEF Statuses
    <2>6. DOMAIN orders' = Orders /\ \A q \in Orders \ {o} : orders'[q] = orders[q]
      BY <2>1 DEF TypeOK
    <2>7. \A q \in Orders : orders'[q] # NoOrder => OrderOK(orders'[q])
      BY <2>5, <2>6 DEF TypeOK
    <2>8. /\ Grows
          /\ \A q \in Orders : orders[q] # NoOrder => OrderOK(orders[q])'
      <3>1. ASSUME NEW q \in Orders, orders[q] # NoOrder
            PROVE  orders'[q] = orders[q] /\ OrderOK(orders[q]) /\ orders[q].version \in Nat
        BY <1>1, <2>6, <3>1 DEF Create, TypeOK, OrderOK
      <3> QED
        BY <3>1 DEF Grows
    <2>9. \A s \in Requests : RequestOK(s)'
      BY <1>1, <2>8, RequestKept DEF Create
    <2> QED
      BY <1>1, <2>6, <2>7, <2>9 DEF Create, TypeOK
  <1>2. ASSUME NEW r \in Requests, NEW operation \in Operations, NEW sent \in Versions,
               NEW o \in Orders, Load(r, operation, sent, o)
        PROVE  TypeOK'
    <2>1. orders' = orders
      BY <1>2 DEF Load
    <2>2. /\ pc'[r] = "loaded" /\ orders[o] # NoOrder
          /\ orders[o].status \in AllowedStatuses(operation)
          /\ request'[r] =
                [operation |-> operation, order |-> o, loaded |-> orders[o], items |-> <<>>,
                 sent |-> IF operation \in {"update", "replaceLines"} THEN sent ELSE 0]
      BY <1>2, Noted
    <2>0. OrderOK(orders[o])
      BY <2>2 DEF TypeOK
    <2>3. RequestOK(r)'
      BY <1>e, <2>0, <2>1, <2>2, VersionsAssumption DEF RequestOK, OrderOK, ValidItems
    <2>4. /\ pc' \in [Requests -> {"idle", "loaded", "replacing", "received", "answered"}]
          /\ DOMAIN request' = Requests /\ \A s \in Requests : RequestOK(s)'
      BY <1>2, <2>1, <2>3, RequestsType, UnchangedOrders DEF Load
    <2> QED
      BY <1>2, <2>4 DEF Load, TypeOK
  <1>3. ASSUME NEW r \in Requests, SeeLines(r) PROVE TypeOK'
    <2>1. orders' = orders
      BY <1>3 DEF SeeLines
    <2>2. /\ pc[r] = "loaded" /\ request[r].operation = "replaceLines" /\ pc'[r] = "replacing"
          /\ request'[r] =
                [operation |-> "replaceLines", order |-> request[r].order,
                 loaded |-> request[r].loaded, items |-> <<>>, sent |-> request[r].sent,
                 seen |-> orders[request[r].order].version]
      BY <1>3, Noted
    <2>3. RequestOK(r)'
      BY <1>e, <2>1, <2>2, Held DEF RequestOK, AtWork, ValidItems
    <2>4. /\ pc' \in [Requests -> {"idle", "loaded", "replacing", "received", "answered"}]
          /\ DOMAIN request' = Requests /\ \A s \in Requests : RequestOK(s)'
      BY <1>3, <2>1, <2>3, RequestsType, UnchangedOrders DEF SeeLines
    <2> QED
      BY <1>3, <2>4 DEF SeeLines, TypeOK
  <1>4. ASSUME NEW r \in Requests, NEW named \in ReceiptLists, ReceiveLines(r, named)
        PROVE  TypeOK'
    <2> DEFINE items == ItemsOf(request[r].loaded.lines, named)
    <2>1. orders' = orders
      BY <1>4 DEF ReceiveLines
    <2>2. /\ pc[r] = "loaded" /\ request[r].operation = "receive" /\ pc'[r] = "received"
          /\ request'[r] =
                [operation |-> "receive", order |-> request[r].order,
                 loaded |-> request[r].loaded, items |-> items, sent |-> 0,
                 complete |-> Complete(MoveLines(orders[request[r].order].lines, items))]
      BY <1>4, Noted
    <2>3. ValidItems(items)
      BY <1>4, ReceivedItems
    <2> HIDE DEF items
    <2>4. RequestOK(r)'
      BY <2>1, <2>2, <2>3, Held, VersionsAssumption DEF RequestOK, AtWork
    <2>5. /\ pc' \in [Requests -> {"idle", "loaded", "replacing", "received", "answered"}]
          /\ DOMAIN request' = Requests /\ \A s \in Requests : RequestOK(s)'
      BY <1>4, <2>1, <2>4, RequestsType, UnchangedOrders DEF ReceiveLines
    <2> QED
      BY <1>4, <2>5 DEF ReceiveLines, TypeOK
  <1>5. ASSUME NEW r \in Requests, Writes(r) PROVE TypeOK'
    <2> DEFINE o == request[r].order
    <2>1. /\ DOMAIN orders' = Orders /\ Grows
          /\ \A q \in Orders : orders'[q] # NoOrder => OrderOK(orders'[q])
          /\ blind' \subseteq [order : Orders, sent : Versions]
      BY <1>5, WriteCases, WriteFacts
    <2>2. \A q \in Orders : orders[q] # NoOrder => OrderOK(orders[q])'
      BY <2>1 DEF Grows
    <2>3. /\ pc' \in [Requests -> {"idle", "loaded", "replacing", "received", "answered"}]
          /\ DOMAIN request' = Requests /\ \A s \in Requests : RequestOK(s)'
      BY <1>5, <2>1, <2>2, AnswerType, WriteCases
    <2>4. o \in Orders /\ ValidItems(request[r].items)
      BY <1>5, WriteCases, Held
    <2>5. /\ levels' \in [Pairs -> Level] /\ booked' \in [Orders -> [Pairs -> Nat]]
          /\ repeated' \subseteq Orders
      <3>1. CASE UNCHANGED <<levels, booked, repeated>>
        BY <3>1 DEF TypeOK
      <3>2. CASE CommitReceipt(r)
        <4>1. levels' \in [Pairs -> Level]
          BY <2>4, <3>2, ReceiptRows DEF CommitReceipt, TypeOK
        <4>2. [p \in Pairs |-> booked[o][p] + UnitsOf(request[r].items, p)] \in [Pairs -> Nat]
          BY <2>4, UnitsOfFacts DEF TypeOK
        <4>3. booked' = [booked EXCEPT ![o] =
                  [p \in Pairs |-> booked[o][p] + UnitsOf(request[r].items, p)]]
          BY <3>2 DEF CommitReceipt
        <4>4. booked' \in [Orders -> [Pairs -> Nat]]
          BY <4>2, <4>3 DEF TypeOK
        <4>5. repeated' \subseteq Orders
          BY <2>4, <3>2 DEF CommitReceipt, TypeOK
        <4> QED
          BY <4>1, <4>4, <4>5
      <3> QED
        BY <1>5, <3>1, <3>2 DEF Writes, WriteStatus, ReplaceLines
    <2> QED
      BY <2>1, <2>3, <2>5 DEF TypeOK
  <1>6. ASSUME NEW r \in Requests, Answer(r), UNCHANGED <<levels, booked, orders, blind, repeated>>
        PROVE  TypeOK'
    BY <1>6, AnswerType, UnchangedOrders DEF TypeOK
  <1>7. CASE UNCHANGED vars
    BY <1>7 DEF vars, TypeOK, RequestOK
  <1> QED
    BY <1>1, <1>2, <1>3, <1>4, <1>5, <1>6, <1>7, NextCases

(* The type invariant, for every instance. *)
THEOREM TypeCorrect == Spec => []TypeOK
  BY TypeInit, TypeStep, PTL DEF Spec

-----------------------------------------------------------------------------
(* What a request at work remembers: an order with the version it has loaded *)
(* is the order it has loaded; a receipt names lines of it, and has read     *)
(* whether they complete it.                                                 *)
Remembers(r) ==
    LET req == request[r]
        current == orders[req.order]
    IN
    /\ req.loaded.version = current.version => req.loaded = current
    /\ req.operation = "cancel" => Untouched(req.loaded)
    /\ pc[r] = "replacing" => req.operation = "replaceLines"
    /\ pc[r] = "received" =>
          /\ req.operation = "receive"
          /\ req.items # <<>> /\ ItemsOK(req.loaded.lines, req.items)
          /\ req.loaded.version = current.version =>
                req.complete = Complete(MoveLines(current.lines, req.items))

MemoryInv == \A r \in Requests : AtWork(r) => Remembers(r)

(* A step that does not touch a request, and leaves its order alone or       *)
(* raises its version, leaves what it remembers true.                        *)
LEMMA MemoryKept ==
    ASSUME TypeOK, MemoryInv, NEW s \in Requests, pc'[s] = pc[s], request'[s] = request[s],
           AtWork(s) =>
               \/ orders'[request[s].order] = orders[request[s].order]
               \/ orders'[request[s].order].version = orders[request[s].order].version + 1
    PROVE  AtWork(s)' => Remembers(s)'
  <1> SUFFICES ASSUME AtWork(s) PROVE Remembers(s)'
    BY DEF AtWork
  <1> DEFINE o == request[s].order
  <1>1. Remembers(s)
    BY DEF MemoryInv
  <1>2. CASE orders'[o] = orders[o]
    BY <1>1, <1>2 DEF Remembers
  <1>3. CASE orders'[o].version = orders[o].version + 1
    <2>1. /\ request[s].loaded.version \in Nat /\ orders[o].version \in Nat
          /\ request[s].loaded.version <= orders[o].version
      BY Held DEF OrderOK
    <2>2. request[s].loaded.version # orders'[o].version
      BY <1>3, <2>1
    <2> QED
      BY <1>1, <2>2 DEF Remembers
  <1> QED
    BY <1>2, <1>3

(* Every step keeps what the requests remember true of the orders. *)
LEMMA MemoryStep == TypeOK /\ MemoryInv /\ [Next]_vars => MemoryInv'
  <1> SUFFICES ASSUME TypeOK, MemoryInv, [Next]_vars PROVE MemoryInv'
    OBVIOUS
  <1>1. ASSUME NEW o \in Orders, Create(o) PROVE MemoryInv'
    <2> SUFFICES ASSUME NEW s \in Requests PROVE AtWork(s)' => Remembers(s)'
      BY DEF MemoryInv
    <2>1. AtWork(s) => request[s].order \in Orders \ {o}
      BY <1>1, Held DEF Create
    <2>2. \A q \in Orders \ {o} : orders'[q] = orders[q]
      BY <1>1 DEF Create, TypeOK
    <2> QED
      BY <1>1, <2>1, <2>2, MemoryKept DEF Create
  <1>2. ASSUME NEW r \in Requests, NEW where, NEW what, orders' = orders,
               pc' = [pc EXCEPT ![r] = where], request' = [request EXCEPT ![r] = what],
               AtWork(r)' => Remembers(r)'
        PROVE  MemoryInv'
    <2>1. ASSUME NEW s \in Requests \ {r} PROVE AtWork(s)' => Remembers(s)'
      <3>1. pc'[s] = pc[s] /\ request'[s] = request[s]
        BY <1>2 DEF TypeOK
      <3> QED
        BY <1>2, <3>1, MemoryKept
    <2> QED
      BY <1>2, <2>1 DEF MemoryInv
  <1>3. ASSUME NEW r \in Requests, NEW operation \in Operations, NEW sent \in Versions,
               NEW o \in Orders, Load(r, operation, sent, o)
        PROVE  MemoryInv'
    <2>1. /\ pc'[r] = "loaded" /\ operation = "cancel" => Untouched(orders[o])
          /\ request'[r] =
                [operation |-> operation, order |-> o, loaded |-> orders[o], items |-> <<>>,
                 sent |-> IF operation \in {"update", "replaceLines"} THEN sent ELSE 0]
      BY <1>3, Noted
    <2>2. orders' = orders
      BY <1>3 DEF Load
    <2>3. pc'[r] = "loaded"
      BY <1>3, Noted
    <2>4. Remembers(r)'
      BY <2>1, <2>2, <2>3 DEF Remembers
    <2> QED
      BY <1>2, <1>3, <2>2, <2>4 DEF Load
  <1>4. ASSUME NEW r \in Requests, SeeLines(r) PROVE MemoryInv'
    <2>1. /\ pc[r] = "loaded" /\ request[r].operation = "replaceLines" /\ pc'[r] = "replacing"
          /\ request'[r] =
                [operation |-> "replaceLines", order |-> request[r].order,
                 loaded |-> request[r].loaded, items |-> <<>>, sent |-> request[r].sent,
                 seen |-> orders[request[r].order].version]
      BY <1>4, Noted
    <2>2. orders' = orders
      BY <1>4 DEF SeeLines
    <2>3. Remembers(r)
      BY <2>1 DEF MemoryInv, AtWork
    <2>4. Remembers(r)'
      BY <2>1, <2>2, <2>3 DEF Remembers
    <2> QED
      BY <1>2, <1>4, <2>2, <2>4 DEF SeeLines
  <1>5. ASSUME NEW r \in Requests, NEW named \in ReceiptLists, ReceiveLines(r, named)
        PROVE  MemoryInv'
    <2> DEFINE items == ItemsOf(request[r].loaded.lines, named)
    <2>1. /\ pc[r] = "loaded" /\ request[r].operation = "receive" /\ pc'[r] = "received"
          /\ request'[r] =
                [operation |-> "receive", order |-> request[r].order,
                 loaded |-> request[r].loaded, items |-> items, sent |-> 0,
                 complete |-> Complete(MoveLines(orders[request[r].order].lines, items))]
      BY <1>5, Noted
    <2>2. orders' = orders
      BY <1>5 DEF ReceiveLines
    <2>3. Remembers(r)
      BY <2>1 DEF MemoryInv, AtWork
    <2>4. items # <<>> /\ ItemsOK(request[r].loaded.lines, items)
      BY <1>5, ReceivedItems
    <2> HIDE DEF items
    <2>5. Remembers(r)'
      BY <2>1, <2>2, <2>3, <2>4 DEF Remembers
    <2> QED
      BY <1>2, <1>5, <2>2, <2>5 DEF ReceiveLines
  <1>6. ASSUME NEW r \in Requests, Writes(r) PROVE MemoryInv'
    <2> DEFINE o == request[r].order
    <2>1. /\ \A q \in Orders \ {o} : orders'[q] = orders[q]
          /\ orders'[o].version = orders[o].version + 1
      <3>1. PICK status, lines :
               /\ status \in Statuses
               /\ AtWork(r) /\ Write(r, status, lines) /\ IsLineTable(lines)
               /\ \A p \in DOMAIN lines : lines[p].insertedAt <= orders[o].version + 1
        BY <1>6, WriteCases
      <3>2. /\ \A q \in Orders \ {o} : orders'[q] = orders[q]
            /\ orders'[o] = [status |-> status, version |-> orders[o].version + 1,
                             lines |-> lines]
        BY <3>1, WriteFacts
      <3> QED
        BY <3>2
    <2>2. pc' = [pc EXCEPT ![r] = "answered"] /\ request' = [request EXCEPT ![r] = <<>>]
      BY <1>6, WriteCases DEF Answer
    <2>3. ~AtWork(r)'
      BY <2>2 DEF AtWork, TypeOK
    <2>4. ASSUME NEW s \in Requests \ {r} PROVE AtWork(s)' => Remembers(s)'
      <3>1. pc'[s] = pc[s] /\ request'[s] = request[s]
        BY <2>2 DEF TypeOK
      <3>2. AtWork(s) => request[s].order \in Orders
        BY Held
      <3> HIDE DEF o
      <3>3. AtWork(s) => \/ orders'[request[s].order] = orders[request[s].order]
                        \/ orders'[request[s].order].version
                              = orders[request[s].order].version + 1
        BY <2>1, <3>2
      <3> QED
        BY <3>1, <3>3, MemoryKept
    <2> QED
      BY <2>3, <2>4 DEF MemoryInv
  <1>7. ASSUME NEW r \in Requests, Answer(r), UNCHANGED <<levels, booked, orders, blind, repeated>>
        PROVE  MemoryInv'
    <2>1. pc' = [pc EXCEPT ![r] = "answered"] /\ request' = [request EXCEPT ![r] = <<>>]
      BY <1>7 DEF Answer
    <2>2. ~AtWork(r)'
      BY <2>1 DEF AtWork, TypeOK
    <2> QED
      BY <1>2, <1>7, <2>1, <2>2
  <1>8. CASE UNCHANGED vars
    BY <1>8 DEF vars, MemoryInv, AtWork, Remembers
  <1> QED
    BY <1>1, <1>3, <1>4, <1>5, <1>6, <1>7, <1>8, NextCases

(* No request remembers anything at first. *)
LEMMA MemoryInit == Init => MemoryInv
  BY DEF Init, MemoryInv, AtWork

-----------------------------------------------------------------------------
(* What is received is on the shelf. *)

(* Nothing is received and nothing is on the shelf at first. *)
LEMMA ShelfInit == Init => ReceiptsAreOnTheShelf
  <1> SUFFICES ASSUME Init, NEW p \in Pairs
               PROVE  levels[p].quantity = Opening[p].quantity
                          + SumFunction([o \in Orders |-> booked[o][p]])
    BY DEF ReceiptsAreOnTheShelf
  <1> DEFINE f == [o \in Orders |-> booked[o][p]]
  <1>1. \A o \in Orders : f[o] = 0
    BY DEF Init
  <1>2. SumFunction(f) = SumFunctionOnSet(f, Orders)
    BY DEF SumFunction
  <1> HIDE DEF f
  <1>3. SumFunction(f) = 0
    BY <1>1, <1>2, SumZero, FiniteOrdersAssumption
  <1>4. levels[p] = Opening[p] /\ Opening[p].quantity \in Int
    BY ReceiptsOpeningAssumption DEF Init, Level
  <1> QED
    BY <1>3, <1>4 DEF f

(* A receipt brings a row what it books for its order, and nothing else      *)
(* changes either.                                                           *)
LEMMA ShelfStep == TypeOK /\ ReceiptsAreOnTheShelf /\ [Next]_vars => ReceiptsAreOnTheShelf'
  <1> SUFFICES ASSUME TypeOK, ReceiptsAreOnTheShelf, [Next]_vars PROVE ReceiptsAreOnTheShelf'
    OBVIOUS
  <1>1. CASE UNCHANGED <<levels, booked>>
    BY <1>1 DEF ReceiptsAreOnTheShelf
  <1>2. ASSUME NEW r \in Requests, CommitReceipt(r) PROVE ReceiptsAreOnTheShelf'
    <2> SUFFICES ASSUME NEW p \in Pairs
                 PROVE  levels'[p].quantity = Opening[p].quantity
                            + SumFunction([q \in Orders |-> booked'[q][p]])
      BY DEF ReceiptsAreOnTheShelf
    <2> DEFINE o == request[r].order
               items == request[r].items
               f == [q \in Orders |-> booked[q][p]]
               e == [q \in Orders |-> booked'[q][p]]
    <2>1. AtWork(r) /\ levels' = Applied(levels, ReceiptsOf(items)).rows
          /\ booked' = [booked EXCEPT ![o] = [q \in Pairs |-> booked[o][q] + UnitsOf(items, q)]]
      BY <1>2 DEF CommitReceipt, AtWork
    <2>2. o \in Orders /\ ValidItems(items)
      BY <2>1, Held
    <2>3. levels'[p].quantity = levels[p].quantity + UnitsOf(items, p)
      BY <2>1, <2>2, ReceiptRows DEF TypeOK
    <2>4. UnitsOf(items, p) \in Nat
      BY <2>2, UnitsOfFacts
    <2> HIDE DEF items
    <2>5. /\ e[o] = f[o] + UnitsOf(items, p)
          /\ \A q \in Orders \ {o} : e[q] = f[q]
      BY <2>1, <2>2 DEF TypeOK
    <2>6. \A q \in Orders : f[q] \in Int
      BY DEF TypeOK
    <2>7. SumFunction(f) = SumFunctionOnSet(f, Orders) /\ SumFunction(e) = SumFunctionOnSet(e, Orders)
      BY DEF SumFunction
    <2>8. levels[p].quantity = Opening[p].quantity + SumFunction(f)
      BY DEF ReceiptsAreOnTheShelf
    <2> HIDE DEF f, e, o
    <2>9. \A q \in Orders : e[q] \in Int
      BY <2>2, <2>4, <2>5, <2>6
    <2>10. SumFunctionOnSet(e, Orders) = SumFunctionOnSet(f, Orders) - f[o] + e[o]
      BY <2>2, <2>5, <2>6, <2>9, SumUpdate, FiniteOrdersAssumption
    <2>11. SumFunctionOnSet(f, Orders) \in Int /\ f[o] \in Int
      BY <2>2, <2>6, SumInt, FiniteOrdersAssumption
    <2>12. Opening[p].quantity \in Int
      BY ReceiptsOpeningAssumption DEF Level
    <2>13. levels'[p].quantity = Opening[p].quantity + SumFunction(e)
      BY <2>3, <2>4, <2>5, <2>7, <2>8, <2>10, <2>11, <2>12
    <2> QED
      BY <2>13 DEF e
  <1>3. CASE UNCHANGED vars
    BY <1>1, <1>3 DEF vars
  <1> QED
    BY <1>1, <1>2, <1>3, NextCases
       DEF Create, Load, SeeLines, ReceiveLines, Writes, WriteStatus, ReplaceLines

(* Nothing is on the shelf that the ledger has not booked for an order, and  *)
(* nothing is booked that is not there.                                      *)
THEOREM ReceiptsShelved == Spec => []ReceiptsAreOnTheShelf
  BY TypeInit, TypeStep, ShelfInit, ShelfStep, PTL DEF Spec

-----------------------------------------------------------------------------
(* The lines, the ledger and the status. *)

(* Nothing has come in for an order before it is received.                   *)
UntouchedAtFirst ==
    \A o \in Orders \ Overwritten :
        orders[o] # NoOrder /\ orders[o].status \in {"DRAFT", "SUBMITTED", "CANCELLED"}
            => Untouched(orders[o])

(* The invariant, order by order. *)
Reconciled(o) ==
    \A p \in Pairs :
        booked[o][p] = IF orders[o] # NoOrder /\ p \in DOMAIN orders[o].lines
                       THEN orders[o].lines[p].moved ELSE 0
FirstOK(o) ==
    orders[o] # NoOrder /\ orders[o].status \in {"DRAFT", "SUBMITTED", "CANCELLED"}
        => Untouched(orders[o])
Matched(o) ==
    orders[o] # NoOrder =>
        LET lines == orders[o].lines IN
        /\ \A p \in DOMAIN lines : lines[p].moved <= lines[p].quantity
        /\ orders[o].status \in {"DRAFT", "SUBMITTED", "CANCELLED"} => Untouched(orders[o])
        /\ orders[o].status = "PARTIALLY_RECEIVED" => ~Untouched(orders[o]) /\ ~Complete(lines)
        /\ orders[o].status = "RECEIVED" => Complete(lines)

LinesInv == LinesReconcile /\ UntouchedAtFirst /\ StatusMatchesLines

(* The three properties of the lines, each as a property of every order. *)
LEMMA OrderByOrder ==
    /\ LinesReconcile <=> \A o \in Orders \ Overwritten : Reconciled(o)
    /\ UntouchedAtFirst <=> \A o \in Orders \ Overwritten : FirstOK(o)
    /\ StatusMatchesLines <=> \A o \in Orders \ (Overwritten \cup repeated) : Matched(o)
  BY DEF LinesReconcile, UntouchedAtFirst, StatusMatchesLines, Reconciled, FirstOK, Matched

(* A request that writes an order without adding it to the overwritten ones  *)
(* writes the order it has loaded.                                           *)
LEMMA WritesWhatItLoaded ==
    ASSUME TypeOK, MemoryInv, NEW r \in Requests, Writes(r)
    PROVE  /\ Overwritten \subseteq Overwritten'
           /\ request[r].order \notin Overwritten' => request[r].loaded = orders[request[r].order]
  <1> DEFINE o == request[r].order
             entry == [order |-> o, sent |-> request[r].sent]
  <1>1. AtWork(r) /\ Remembers(r)
    BY WriteCases DEF MemoryInv
  <1>2. PICK status, lines : Write(r, status, lines)
    BY WriteCases
  <1>3. blind' = IF orders[o].version = request[r].loaded.version THEN blind
                 ELSE blind \cup {entry}
    BY <1>2 DEF Write
  <1>4. blind \subseteq blind'
    BY <1>3
  <1>5. CASE orders[o].version = request[r].loaded.version
    BY <1>1, <1>4, <1>5 DEF Remembers, Overwritten
  <1>6. CASE orders[o].version # request[r].loaded.version
    <2>1. entry \in blind' /\ entry.order = o
      BY <1>3, <1>6
    <2>2. o \in Overwritten'
      BY <2>1 DEF Overwritten
    <2> QED
      BY <1>4, <2>2 DEF Overwritten
  <1> QED
    BY <1>5, <1>6

(* What a write of an order leaves alone that nothing has come in for: that. *)
LEMMA WritesUntouched ==
    ASSUME TypeOK, MemoryInv, LinesInv, NEW r \in Requests, WriteStatus(r) \/ ReplaceLines(r),
           request[r].order \notin Overwritten'
    PROVE  LET o == request[r].order IN
           /\ Untouched(orders[o]) /\ Untouched(orders'[o])
           /\ orders'[o].status \in {"DRAFT", "SUBMITTED", "CANCELLED"}
  <1> DEFINE o == request[r].order
             order == orders[o]
  <1>0. Writes(r) /\ AtWork(r)
    BY WriteCases DEF Writes
  <1>1. /\ o \in Orders \ Overwritten /\ order # NoOrder /\ OrderOK(order)
        /\ request[r].loaded = order
        /\ order.status \in AllowedStatuses(request[r].operation)
    BY <1>0, WritesWhatItLoaded, Held
  <1>2. /\ FirstOK(o)
        /\ Remembers(r)
    BY <1>0, <1>1, OrderByOrder DEF LinesInv, MemoryInv
  <1>3. CASE WriteStatus(r)
    <2>1. PICK status \in {"DRAFT", "SUBMITTED", "CANCELLED"} :
             Write(r, status, order.lines) /\ order.status \in {"DRAFT", "SUBMITTED"}
      BY <1>1, <1>3 DEF WriteStatus, AllowedStatuses
    <2>2. orders'[o] = [status |-> status, version |-> order.version + 1, lines |-> order.lines]
      BY <1>1, <2>1 DEF Write, TypeOK
    <2>3. Untouched(order)
      BY <1>1, <1>2, <2>1 DEF FirstOK
    <2> QED
      BY <2>1, <2>2, <2>3 DEF Untouched
  <1>4. CASE ReplaceLines(r)
    <2>1. pc[r] = "replacing" /\ request[r].operation = "replaceLines"
      BY <1>2, <1>4 DEF ReplaceLines, Remembers
    <2>2. order.status = "DRAFT"
      BY <1>1, <2>1 DEF AllowedStatuses
    <2>3. Untouched(order)
      BY <1>1, <1>2, <2>2 DEF FirstOK
    <2>4. PICK quantities \in LineSets :
             Write(r, order.status, Inserted(LinesLeft(order.lines, request[r].seen), quantities,
                                             order.version + 1))
      BY <1>4 DEF ReplaceLines
    <2> DEFINE lines == Inserted(LinesLeft(order.lines, request[r].seen), quantities,
                                 order.version + 1)
    <2>5. orders'[o] = [status |-> order.status, version |-> order.version + 1, lines |-> lines]
      BY <1>1, <2>4 DEF Write, TypeOK
    <2>6. \A p \in DOMAIN lines :
             lines[p].moved # 0 => p \in DOMAIN order.lines /\ lines[p].moved = order.lines[p].moved
      BY <2>1, ReplacedLines
    <2> HIDE DEF lines, order
    <2>7. \A p \in DOMAIN lines : lines[p].moved = 0
      BY <2>3, <2>6 DEF Untouched
    <2>8. orders'[o].lines = lines /\ orders'[o].status = "DRAFT"
      BY <2>2, <2>5
    <2> QED
      BY <2>3, <2>7, <2>8 DEF Untouched, order
  <1> QED
    BY <1>3, <1>4

(* A receipt books for the order what it adds to its lines, and its status   *)
(* says what that leaves open.                                               *)
LEMMA ReceiptMatches ==
    ASSUME TypeOK, MemoryInv, LinesInv, NEW r \in Requests, CommitReceipt(r),
           NEW o \in Orders, o = request[r].order, o \notin Overwritten'
    PROVE  Reconciled(o)' /\ FirstOK(o)' /\ (o \notin repeated' => Matched(o)')
  <1> DEFINE order == orders[o]
             items == request[r].items
             lines == MoveLines(order.lines, items)
             status == IF request[r].complete THEN "RECEIVED" ELSE "PARTIALLY_RECEIVED"
  <1>0. Writes(r) /\ AtWork(r) /\ pc[r] = "received"
    BY WriteCases DEF Writes, CommitReceipt
  <1>1. /\ o \in Orders \ Overwritten /\ order # NoOrder /\ OrderOK(order)
        /\ request[r].loaded = order /\ ValidItems(items)
        /\ order.status \in AllowedStatuses(request[r].operation)
    BY <1>0, WritesWhatItLoaded, Held
  <1>2. /\ order.status \in {"SUBMITTED", "PARTIALLY_RECEIVED"}
        /\ items # <<>> /\ ItemsOK(order.lines, items)
        /\ request[r].complete = Complete(lines)
    BY <1>0, <1>1 DEF MemoryInv, Remembers, AllowedStatuses
  <1>3. /\ orders'[o] = [status |-> status, version |-> order.version + 1, lines |-> lines]
        /\ booked' = [booked EXCEPT ![o] = [p \in Pairs |-> booked[o][p] + UnitsOf(items, p)]]
    BY <1>1 DEF CommitReceipt, Write, TypeOK
  <1>4. IsLineTable(order.lines)
    BY <1>1 DEF OrderOK
  <1> HIDE DEF order
  <1>5. /\ DOMAIN lines = DOMAIN order.lines
        /\ \A p \in DOMAIN lines :
             /\ lines[p].quantity = order.lines[p].quantity
             /\ lines[p].moved = order.lines[p].moved + UnitsOf(items, p)
    BY <1>1, <1>4, MoveLinesFacts
  <1>6. \A p \in DOMAIN lines : /\ order.lines[p].quantity \in Nat
                               /\ order.lines[p].moved \in Nat
                               /\ Outstanding(order.lines, p)
                                    = order.lines[p].quantity - order.lines[p].moved
    BY <1>4, <1>5, LineTypes DEF Outstanding
  <1> HIDE DEF lines, items, status
  <1>7. orders'[o].lines = lines /\ orders'[o].status = status
    BY <1>3
  <1>8. PairsOf(items) \subseteq DOMAIN lines /\ PairsOf(items) # {}
    <2>1. PairsOf(items) \subseteq DOMAIN lines
      BY <1>2, <1>5 DEF ItemsOK, PairsOf
    <2>2. 1 \in DOMAIN items
      <3>1. items \in Seq(Item)
        BY <1>1 DEF ValidItems
      <3> QED
        BY <1>2, <3>1
    <2> QED
      BY <2>1, <2>2 DEF PairsOf
  <1>9. orders'[o] # NoOrder
    BY <1>0, <1>1, WriteCases, WriteFacts
  <1>10. Reconciled(o)'
    <2> SUFFICES ASSUME NEW p \in Pairs
                 PROVE  booked'[o][p] = IF p \in DOMAIN lines THEN lines[p].moved ELSE 0
      BY <1>7, <1>9 DEF Reconciled
    <2>1. booked'[o][p] = booked[o][p] + UnitsOf(items, p)
      BY <1>1, <1>3 DEF TypeOK
    <2>2. booked[o][p] = IF p \in DOMAIN order.lines THEN order.lines[p].moved ELSE 0
      BY <1>1, OrderByOrder DEF LinesInv, Reconciled, order
    <2>3. CASE p \in DOMAIN lines
      BY <1>5, <2>1, <2>2, <2>3
    <2>4. CASE p \notin DOMAIN lines
      <3>1. UnitsOf(items, p) = 0
        BY <1>1, <1>8, <2>4, UnitsOfFacts
      <3> QED
        BY <1>5, <2>1, <2>2, <2>4, <3>1
    <2> QED
      BY <2>3, <2>4
  <1>11. FirstOK(o)'
    BY <1>7 DEF FirstOK, status
  <1>12. ASSUME o \notin repeated' PROVE Matched(o)'
    <2>1. o \notin repeated /\ ~NamesOneTwice(items)
      BY <1>12 DEF CommitReceipt, items
    <2>2. Matched(o)
      BY <1>1, <2>1, OrderByOrder DEF LinesInv
    <2>3. ASSUME NEW p \in DOMAIN lines PROVE lines[p].moved <= lines[p].quantity
      <3>1. order.lines[p].moved <= order.lines[p].quantity
        BY <1>1, <1>5, <2>2 DEF Matched, order
      <3>2. CASE p \in PairsOf(items)
        <4>1. PICK i \in DOMAIN items : items[i].pair = p
          BY <3>2 DEF PairsOf
        <4>2. UnitsOf(items, p) = items[i].quantity
          BY <1>1, <2>1, <4>1, UnitsOnce
        <4>3. items[i].quantity <= Outstanding(order.lines, p) /\ items[i].quantity \in Nat
          BY <1>1, <1>2, <4>1, ItemTypes DEF ItemsOK
        <4> QED
          BY <1>5, <1>6, <4>2, <4>3
      <3>3. CASE p \notin PairsOf(items)
        <4>1. UnitsOf(items, p) = 0
          BY <1>1, <3>3, UnitsOfFacts
        <4> QED
          BY <1>5, <1>6, <3>1, <4>1
      <3> QED
        BY <3>2, <3>3
    <2>4. ~Untouched(orders'[o])
      <3>1. PICK p \in PairsOf(items) : TRUE
        BY <1>8
      <3>2. p \in DOMAIN lines /\ UnitsOf(items, p) \in Nat /\ UnitsOf(items, p) > 0
        BY <1>1, <1>8, UnitsOfFacts
      <3>3. lines[p].moved # 0
        BY <1>5, <1>6, <3>2
      <3> QED
        BY <1>7, <3>2, <3>3 DEF Untouched
    <2>5. /\ orders'[o].status = "PARTIALLY_RECEIVED" => ~Complete(lines)
          /\ orders'[o].status = "RECEIVED" => Complete(lines)
          /\ orders'[o].status \in {"RECEIVED", "PARTIALLY_RECEIVED"}
      BY <1>2, <1>7 DEF status
    <2> QED
      BY <1>7, <2>3, <2>4, <2>5 DEF Matched
  <1> QED
    BY <1>10, <1>11, <1>12

(* What nothing has come in for agrees with itself in any of the statuses    *)
(* before a receipt.                                                         *)
LEMMA UntouchedMatches ==
    ASSUME TypeOK, MemoryInv, LinesInv, NEW r \in Requests, WriteStatus(r) \/ ReplaceLines(r),
           NEW o \in Orders, o = request[r].order, o \notin Overwritten'
    PROVE  Reconciled(o)' /\ FirstOK(o)' /\ Matched(o)'
  <1>0. Writes(r) /\ AtWork(r) /\ booked' = booked
    BY WriteCases DEF Writes, WriteStatus, ReplaceLines
  <1>1. o \in Orders \ Overwritten /\ orders[o] # NoOrder
    BY <1>0, WritesWhatItLoaded, Held
  <1>2. /\ Untouched(orders[o]) /\ Untouched(orders'[o])
        /\ orders'[o].status \in {"DRAFT", "SUBMITTED", "CANCELLED"}
    BY WritesUntouched
  <1>3. OrderOK(orders'[o])
    BY <1>0, <1>1, WriteCases, WriteFacts
  <1>4. Reconciled(o)'
    <2> SUFFICES ASSUME NEW p \in Pairs
                 PROVE  booked'[o][p] = IF orders'[o] # NoOrder /\ p \in DOMAIN orders'[o].lines
                                        THEN orders'[o].lines[p].moved ELSE 0
      BY DEF Reconciled
    <2>1. booked[o][p] = 0
      BY <1>1, <1>2, OrderByOrder DEF LinesInv, Reconciled, Untouched
    <2> QED
      BY <1>0, <1>2, <2>1 DEF Untouched
  <1>5. FirstOK(o)'
    BY <1>2 DEF FirstOK
  <1>6. \A p \in DOMAIN orders'[o].lines :
            orders'[o].lines[p].moved = 0 /\ orders'[o].lines[p].quantity \in Nat
    BY <1>2, <1>3, LineTypes DEF Untouched, OrderOK
  <1>7. Matched(o)'
    BY <1>2, <1>6 DEF Matched
  <1> QED
    BY <1>4, <1>5, <1>7

(* What is true of an order stays true of it while nobody writes it.         *)
LEMMA OrderKept ==
    ASSUME NEW o \in Orders, orders'[o] = orders[o], booked'[o] = booked[o]
    PROVE  /\ Reconciled(o) => Reconciled(o)'
           /\ FirstOK(o) => FirstOK(o)'
           /\ Matched(o) => Matched(o)'
  BY DEF Reconciled, FirstOK, Matched

(* Every step keeps the three properties of the lines. *)
LEMMA LinesStep == TypeOK /\ MemoryInv /\ LinesInv /\ [Next]_vars => LinesInv'
  <1> SUFFICES ASSUME TypeOK, MemoryInv, LinesInv, [Next]_vars PROVE LinesInv'
    OBVIOUS
  <1>0. SUFFICES /\ \A o \in Orders \ Overwritten' : Reconciled(o)' /\ FirstOK(o)'
                 /\ \A o \in Orders \ (Overwritten' \cup repeated') : Matched(o)'
    BY DEF LinesInv, LinesReconcile, UntouchedAtFirst, StatusMatchesLines, Reconciled, FirstOK,
           Matched
  <1>1. ASSUME UNCHANGED <<booked, orders, blind, repeated>>
        PROVE  /\ \A o \in Orders \ Overwritten' : Reconciled(o)' /\ FirstOK(o)'
               /\ \A o \in Orders \ (Overwritten' \cup repeated') : Matched(o)'
    <2>1. Overwritten' = Overwritten
      BY <1>1 DEF Overwritten
    <2> QED
      BY <1>1, <2>1, OrderByOrder, OrderKept DEF LinesInv
  <1>2. ASSUME NEW o \in Orders, Create(o)
        PROVE  /\ \A q \in Orders \ Overwritten' : Reconciled(q)' /\ FirstOK(q)'
               /\ \A q \in Orders \ (Overwritten' \cup repeated') : Matched(q)'
    <2>1. Overwritten' = Overwritten /\ repeated' = repeated /\ booked' = booked
      BY <1>2 DEF Create, Overwritten
    <2>2. \A q \in Orders \ {o} : orders'[q] = orders[q] /\ booked'[q] = booked[q]
      BY <1>2 DEF Create, TypeOK
    <2>3. PICK quantities \in LineSets :
             orders' = [orders EXCEPT ![o] =
                 [status |-> "DRAFT", version |-> 1, lines |-> FreshLines(quantities, 1)]]
      BY <1>2 DEF Create
    <2> DEFINE lines == FreshLines(quantities, 1)
    <2>4. orders'[o].lines = lines /\ orders'[o].status = "DRAFT"
      BY <2>3 DEF TypeOK
    <2>5. \A p \in DOMAIN lines : lines[p].moved = 0 /\ lines[p].quantity > 0
      BY ReceivedLineSetsAssumption, FreshLinesFacts
    <2> HIDE DEF lines
    <2>6. ASSUME o \notin Overwritten PROVE Reconciled(o)' /\ FirstOK(o)'
      <3>1. \A p \in Pairs : booked'[o][p] = 0
        BY <1>2, <2>1, <2>6, OrderByOrder DEF LinesInv, Reconciled, Create
      <3> QED
        BY <2>4, <2>5, <3>1 DEF Reconciled, FirstOK, Untouched
    <2>7. \A p \in DOMAIN lines : lines[p].moved <= lines[p].quantity
      BY <2>5, ReceivedLineSetsAssumption DEF ValidLines, FreshLines, lines
    <2>8. Matched(o)'
      BY <2>4, <2>5, <2>7 DEF Matched, Untouched
    <2> QED
      BY <2>1, <2>2, <2>6, <2>8, OrderByOrder, OrderKept DEF LinesInv
  <1>3. ASSUME NEW r \in Requests, Writes(r)
        PROVE  /\ \A q \in Orders \ Overwritten' : Reconciled(q)' /\ FirstOK(q)'
               /\ \A q \in Orders \ (Overwritten' \cup repeated') : Matched(q)'
    <2>0. PICK o \in Orders : o = request[r].order
      BY <1>3, WriteCases, Held
    <2>1. Overwritten \subseteq Overwritten'
      BY <1>3, WritesWhatItLoaded
    <2>2. repeated \subseteq repeated'
      BY <1>3 DEF Writes, WriteStatus, ReplaceLines, CommitReceipt
    <2>3. \A q \in Orders \ {o} : orders'[q] = orders[q] /\ booked'[q] = booked[q]
      <3>1. \A q \in Orders \ {o} : orders'[q] = orders[q]
        BY <1>3, <2>0, WriteCases, WriteFacts
      <3>2. \A q \in Orders \ {o} : booked'[q] = booked[q]
        BY <1>3, <2>0 DEF Writes, WriteStatus, ReplaceLines, CommitReceipt, TypeOK
      <3> QED
        BY <3>1, <3>2
    <2>4. ASSUME NEW q \in Orders \ Overwritten' PROVE Reconciled(q)' /\ FirstOK(q)'
      <3>1. CASE q = o
        BY <1>3, <2>0, <3>1, ReceiptMatches, UntouchedMatches DEF Writes
      <3>2. CASE q # o
        BY <2>1, <2>3, <3>2, OrderByOrder, OrderKept DEF LinesInv
      <3> QED
        BY <3>1, <3>2
    <2>5. ASSUME NEW q \in Orders \ (Overwritten' \cup repeated') PROVE Matched(q)'
      <3>1. CASE q = o
        BY <1>3, <2>0, <3>1, ReceiptMatches, UntouchedMatches DEF Writes
      <3>2. CASE q # o
        BY <2>1, <2>2, <2>3, <3>2, OrderByOrder, OrderKept DEF LinesInv
      <3> QED
        BY <3>1, <3>2
    <2> QED
      BY <2>4, <2>5
  <1>4. CASE UNCHANGED vars
    BY <1>1, <1>4 DEF vars
  <1> QED
    BY <1>1, <1>2, <1>3, <1>4, NextCases DEF Load, SeeLines, ReceiveLines

(* The lines of every order are in order at first: there are none. *)
LEMMA LinesInit == Init => LinesInv
  BY DEF Init, LinesInv, LinesReconcile, UntouchedAtFirst, StatusMatchesLines

(* The lines of an order reconcile with the ledger entries bound to it.      *)
THEOREM LinesAlwaysReconcile == Spec => []LinesReconcile
  <1>1. LinesInv => LinesReconcile
    BY DEF LinesInv
  <1> QED
    BY <1>1, TypeInit, TypeStep, MemoryInit, MemoryStep, LinesInit, LinesStep, PTL DEF Spec

(* The status of an order says what has come in for it, and no line receives *)
(* more than was ordered.                                                    *)
THEOREM StatusCorrect == Spec => []StatusMatchesLines
  <1>1. LinesInv => StatusMatchesLines
    BY DEF LinesInv
  <1> QED
    BY <1>1, TypeInit, TypeStep, MemoryInit, MemoryStep, LinesInit, LinesStep, PTL DEF Spec
===============================================================================
