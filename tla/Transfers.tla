------------------------------ MODULE Transfers ------------------------------
(***************************************************************************)
(* TransfersService: goods that leave one warehouse on dispatch and reach  *)
(* another on receipt.                                                     *)
(*                                                                         *)
(* Every handler has the same shape: it loads the transfer, checks the     *)
(* status it read, and only then opens the transaction that moves one line *)
(* per product and writes the new status.  Nothing in that transaction     *)
(* reads the transfer again, so two handlers that loaded the same transfer *)
(* may both go through.  The history variable `overtaken` records it, and  *)
(* the properties say what holds of the transfers it spares.               *)
(*                                                                         *)
(* A stock transaction is one step here: StockLedger implements            *)
(* AtomicLedger, which says that it happens all at once or not at all.     *)
(* A pair without a row stands at zero; the race to create one is          *)
(* StockLedger's subject.                                                  *)
(***************************************************************************)
EXTENDS StockRows, FiniteSets, Functions

CONSTANTS Products, Warehouses,
          Transfers,      \* the transfers that may be created
          NoTransfer,     \* a transfer that does not exist yet
          Shapes,         \* the payloads a transfer may be created with
          Requests,       \* the dispatch, receive and cancel requests, each once
          Opening,        \* the row of each pair at the start
          OtherChanges    \* changes of other services on the same rows

(* transferLineSchema and createTransferSchema: two different warehouses, at *)
(* least one product, each product once, positive quantities.                *)
ValidShape(s) ==
    /\ {s.source, s.destination} \subseteq Warehouses
    /\ s.source # s.destination
    /\ DOMAIN s.items \subseteq Products /\ DOMAIN s.items # {}
    /\ \A x \in DOMAIN s.items : s.items[x] \in Nat /\ s.items[x] > 0

ASSUME PairsAssumption == Pairs = Products \X Warehouses
ASSUME ShapesAssumption == \A s \in Shapes : ValidShape(s)
ASSUME TransfersOpeningAssumption ==
    /\ Opening \in [Pairs -> Level]
    /\ \A p \in Pairs : NonNegative(Opening[p]) /\ Covered(Opening[p])
(* adjustReservation takes no quantity: a reservation moves no goods. *)
ASSUME OtherChangesAssumption ==
    \A c \in OtherChanges : c \in Change /\ (c.kind = "reservation" => c.delta = 0)
ASSUME FiniteAssumption == IsFiniteSet(Warehouses) /\ IsFiniteSet(Transfers)

VARIABLES
    levels,      \* the committed stock_levels rows
    transfers,   \* the stock_transfers rows and their items
    legs,        \* what each transfer has put in the ledger, oldest first
    pc,          \* where each request stands
    request,     \* its operation and the transfer as it loaded it
    recorded,    \* history: units other services brought in, by product
    overtaken    \* history: transfers written by a request that loaded an earlier version

vars == <<levels, transfers, legs, pc, request, recorded, overtaken>>

Statuses == {"DRAFT", "IN_TRANSIT", "COMPLETED", "CANCELLED"}
Operations == {"dispatch", "receive", "cancel"}

Transfer == [shape : Shapes, status : Statuses, version : Nat]
ASSUME NoTransferAssumption == NoTransfer \notin Transfer

(* A leg stands for one ledger row per product of the transfer. *)
Leg == [type : {"TRANSFER_OUT", "TRANSFER_IN"}, warehouse : Warehouses]

Init ==
    /\ levels = Opening
    /\ transfers = [t \in Transfers |-> NoTransfer]
    /\ legs = [t \in Transfers |-> <<>>]
    /\ pc = [r \in Requests |-> "idle"]
    /\ request = [r \in Requests |-> <<>>]
    /\ recorded = [x \in Products |-> 0]
    /\ overtaken = {}

-----------------------------------------------------------------------------
(* A leg's lines, and their effect: all of them are accepted or none is. *)

LinesOf(shape, leg) ==
    { MovementOf(<<x, leg.warehouse>>, leg.type,
                 IF leg.type = "TRANSFER_OUT" THEN -shape.items[x] ELSE shape.items[x])
      : x \in DOMAIN shape.items }

Refused(lines) == \E c \in lines : RefusedOn(c, levels[c.pair]) \/ OutOfRange(c, levels[c.pair])

After(lines) ==
    [p \in Pairs |->
        IF \E c \in lines : c.pair = p
        THEN RowAfter(CHOOSE c \in lines : c.pair = p, levels[p], levels[p])
        ELSE levels[p]]

-----------------------------------------------------------------------------
Create(t) ==
    /\ transfers[t] = NoTransfer
    /\ \E shape \in Shapes :
          transfers' = [transfers EXCEPT ![t] =
              [shape |-> shape, status |-> "DRAFT", version |-> 1]]
    /\ UNCHANGED <<levels, legs, pc, request, recorded, overtaken>>

(* Mutants of AllowedStatuses: a transfer can be received twice, one after  *)
(* the other; a transfer can be received before it is dispatched.           *)
ReceivesAgain(operation) ==
    CASE operation = "dispatch" -> {"DRAFT"}
      [] operation = "receive" -> {"IN_TRANSIT", "COMPLETED"}
      [] operation = "cancel" -> {"DRAFT", "IN_TRANSIT"}
ReceivesDrafts(operation) ==
    CASE operation = "dispatch" -> {"DRAFT"}
      [] operation = "receive" -> {"DRAFT", "IN_TRANSIT"}
      [] operation = "cancel" -> {"DRAFT", "IN_TRANSIT"}

(* assertStatus, for each handler. *)
AllowedStatuses(operation) ==
    CASE operation = "dispatch" -> {"DRAFT"}
      [] operation = "receive" -> {"IN_TRANSIT"}
      [] operation = "cancel" -> {"DRAFT", "IN_TRANSIT"}

AcceptsAnyStatus(operation, t) == transfers[t] # NoTransfer   \* mutant of Accepts
Accepts(operation, t) ==
    transfers[t] # NoTransfer /\ transfers[t].status \in AllowedStatuses(operation)

(* Before the transaction: the handler loads the transfer and checks the    *)
(* status it finds.                                                         *)
Load(r, operation, t) ==
    /\ pc[r] = "idle"
    /\ Accepts(operation, t)
    /\ request' = [request EXCEPT ![r] =
          [operation |-> operation, transfer |-> t, loaded |-> transfers[t]]]
    /\ pc' = [pc EXCEPT ![r] = "loaded"]
    /\ UNCHANGED <<levels, transfers, legs, recorded, overtaken>>

(* 404, or 409 for a transfer whose status the operation does not accept. *)
RejectLoad(r, operation, t) ==
    /\ pc[r] = "idle"
    /\ ~Accepts(operation, t)
    /\ pc' = [pc EXCEPT ![r] = "refused"]
    /\ UNCHANGED <<levels, transfers, legs, request, recorded, overtaken>>

(* The legs the handler's transaction writes, from the transfer it loaded:  *)
(* a cancelled draft writes none, cancelled goods return to their source.   *)
LegsOf(req) ==
    LET shape == req.loaded.shape
        out == [type |-> "TRANSFER_OUT", warehouse |-> shape.source]
        in == [type |-> "TRANSFER_IN", warehouse |-> shape.destination]
        back == [type |-> "TRANSFER_IN", warehouse |-> shape.source]
    IN
    CASE req.operation = "dispatch" -> <<out>>
      [] req.operation = "receive" -> <<in>>
      [] req.operation = "cancel" -> IF req.loaded.status = "IN_TRANSIT" THEN <<back>> ELSE <<>>

StatusAfter(operation) ==
    CASE operation = "dispatch" -> "IN_TRANSIT"
      [] operation = "receive" -> "COMPLETED"
      [] operation = "cancel" -> "CANCELLED"

RequestLines(r) ==
    LET written == LegsOf(request[r])
    IN  UNION { LinesOf(request[r].loaded.shape, written[i]) : i \in DOMAIN written }

(* A request is answered: nothing of it is kept. *)
Answer(r, outcome) ==
    /\ pc' = [pc EXCEPT ![r] = outcome]
    /\ request' = [request EXCEPT ![r] = <<>>]

(* The transaction: the lines, the status and the version, whatever has     *)
(* happened to the transfer since it was loaded.                            *)
Commit(r) ==
    LET t == request[r].transfer IN
    /\ pc[r] = "loaded"
    /\ ~Refused(RequestLines(r))
    /\ levels' = After(RequestLines(r))
    /\ legs' = [legs EXCEPT ![t] = @ \o LegsOf(request[r])]
    /\ transfers' = [transfers EXCEPT ![t] =
          [shape |-> @.shape, status |-> StatusAfter(request[r].operation),
           version |-> @.version + 1]]
    /\ overtaken' = IF transfers[t].version = request[r].loaded.version
                    THEN overtaken ELSE overtaken \cup {t}
    /\ Answer(r, "committed")
    /\ UNCHANGED recorded

(* Mutant of Refuse: the lines before the refused one stay applied. *)
RefusePartly(r) ==
    /\ pc[r] = "loaded"
    /\ Refused(RequestLines(r))
    /\ levels' = After({c \in RequestLines(r) : ~Refused({c})})
    /\ Answer(r, "refused")
    /\ UNCHANGED <<transfers, legs, recorded, overtaken>>

(* 409: a line is refused, and the lines before it are rolled back with it. *)
Refuse(r) ==
    /\ pc[r] = "loaded"
    /\ Refused(RequestLines(r))
    /\ Answer(r, "refused")
    /\ UNCHANGED <<levels, transfers, legs, recorded, overtaken>>

(* A deadlock, the time limit or a crash: the transaction is rolled back. *)
Fail(r) ==
    /\ pc[r] = "loaded"
    /\ Answer(r, "refused")
    /\ UNCHANGED <<levels, transfers, legs, recorded, overtaken>>

(* Adjustments, receipts, allocations and shipments by the other services. *)
OtherChange(c) ==
    /\ ~Malformed(c)
    /\ ~Refused({c})
    /\ levels' = After({c})
    /\ recorded' = [recorded EXCEPT ![c.pair[1]] = @ + c.delta]
    /\ UNCHANGED <<transfers, legs, pc, request, overtaken>>

(* Every request has been answered. *)
Quiet ==
    /\ \A r \in Requests : pc[r] \in {"committed", "refused"}
    /\ UNCHANGED vars

Handle(r) ==
    \/ \E operation \in Operations, t \in Transfers :
          Load(r, operation, t) \/ RejectLoad(r, operation, t)
    \/ Commit(r) \/ Refuse(r) \/ Fail(r)

Next ==
    \/ \E t \in Transfers : Create(t)
    \/ \E r \in Requests : Handle(r)
    \/ \E c \in OtherChanges : OtherChange(c)
    \/ Quiet

Spec == Init /\ [][Next]_vars
-----------------------------------------------------------------------------
(* A loaded request holds a transfer that its operation accepts and that     *)
(* still exists; no other request holds anything.                            *)
RequestOK(r) ==
    IF pc[r] = "loaded"
    THEN /\ request[r] \in [operation : Operations, transfer : Transfers, loaded : Transfer]
         /\ request[r].loaded.status \in AllowedStatuses(request[r].operation)
         /\ transfers[request[r].transfer] # NoTransfer
    ELSE request[r] = <<>>

(* Every variable has its type. *)
TypeOK ==
    /\ levels \in [Pairs -> Level]
    /\ transfers \in [Transfers -> Transfer \cup {NoTransfer}]
    /\ legs \in [Transfers -> Seq(Leg)]
    /\ pc \in [Requests -> {"idle", "loaded", "committed", "refused"}]
    /\ DOMAIN request = Requests /\ \A r \in Requests : RequestOK(r)
    /\ recorded \in [Products -> Int]
    /\ overtaken \subseteq Transfers

(* The legs each status stands for. *)
LegsOfStatus(transfer) ==
    LET out == [type |-> "TRANSFER_OUT", warehouse |-> transfer.shape.source]
        in == [type |-> "TRANSFER_IN", warehouse |-> transfer.shape.destination]
        back == [type |-> "TRANSFER_IN", warehouse |-> transfer.shape.source]
    IN
    CASE transfer.status = "DRAFT" -> {<<>>}
      [] transfer.status = "IN_TRANSIT" -> {<<out>>}
      [] transfer.status = "COMPLETED" -> {<<out, in>>}
      [] transfer.status = "CANCELLED" -> {<<>>, <<out, back>>}

(* "Stock leaves the source on dispatch and arrives at the destination on    *)
(* receipt": the status of a transfer says exactly what has been moved for   *)
(* it, whatever refusals, failures and other requests there were, unless a   *)
(* handler wrote the transfer on a version it had not loaded.                *)
LegsMatchStatus ==
    \A t \in Transfers \ overtaken : transfers[t] # NoTransfer =>
        legs[t] \in LegsOfStatus(transfers[t])

(* Even a transfer that handlers overtake never puts goods into a warehouse  *)
(* before they have left the source.                                         *)
ArrivalsWereSent ==
    \A t \in Transfers : legs[t] # <<>> => legs[t][1].type = "TRANSFER_OUT"

(* The units of a product on the shelves and on the road. *)
OnHand(x) == SumFunction([w \in Warehouses |-> levels[<<x, w>>].quantity])
UnitsSent(transfer, x) ==
    IF /\ transfer # NoTransfer
       /\ transfer.status = "IN_TRANSIT"
       /\ x \in DOMAIN transfer.shape.items
    THEN transfer.shape.items[x] ELSE 0
OnTheRoad(x) == SumFunction([t \in Transfers |-> UnitsSent(transfers[t], x)])

(* Transfers neither make nor lose goods: what is on the shelves and on the  *)
(* road is what was there at the start and what other services brought in,   *)
(* while no transfer has been overtaken.                                     *)
UnitsConserved ==
    overtaken = {} =>
        \A x \in Products :
            OnHand(x) + OnTheRoad(x)
                = SumFunction([w \in Warehouses |-> Opening[<<x, w>>].quantity]) + recorded[x]

(* The contract's comment on the movement types: the legs of a transfer come *)
(* as a pair, so that the ledger nets to zero for a warehouse-to-warehouse   *)
(* move.  At the least, it does for a transfer that is COMPLETED.            *)
CompletedNetsToZero ==
    \A t \in Transfers :
        transfers[t] # NoTransfer /\ transfers[t].status = "COMPLETED" =>
            Cardinality({i \in DOMAIN legs[t] : legs[t][i].type = "TRANSFER_OUT"})
                = Cardinality({i \in DOMAIN legs[t] : legs[t][i].type = "TRANSFER_IN"})
=============================================================================
