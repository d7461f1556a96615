------------------------------ MODULE StockRows ------------------------------
(***************************************************************************)
(* What one stock change does to one stock_levels row and to the ledger.   *)
(*                                                                         *)
(* Every service that moves or promises stock hands StockLedgerService a   *)
(* change: applyMovement for goods that move, adjustReservation for units  *)
(* that are only promised.  This module holds the decision the service     *)
(* takes on a row it has read (refuse, or write which row) and the shapes  *)
(* of change its callers build.  It has no state: StockLedger runs it      *)
(* under row locks, the document modules run it on their own rows.         *)
(***************************************************************************)
EXTENDS Integers, Sequences

CONSTANTS Pairs,    \* the (product, warehouse) pairs
          NoRow,    \* stands for a stock_levels row that does not exist
          MaxInt    \* the largest value of a Postgres Int column

(* StockLevel, less its replenishment columns, which no stock decision reads. *)
Level == [quantity : Int, reserved : Int]

ASSUME NoRowAssumption == NoRow \notin Level
ASSUME MaxIntAssumption == MaxInt \in Nat

(* The row lockOrCreateLevel inserts. *)
ZeroLevel == [quantity |-> 0, reserved |-> 0]

IncreasingTypes == {"INBOUND", "TRANSFER_IN"}
DecreasingTypes == {"OUTBOUND", "TRANSFER_OUT"}
MovementTypes == IncreasingTypes \cup DecreasingTypes \cup {"ADJUSTMENT"}

(***************************************************************************)
(* A StockMovement row: the size of the change without its sign, the type  *)
(* that is meant to carry the direction, and the balance it left.          *)
(***************************************************************************)
Movement == [type : MovementTypes, quantity : Nat, balanceAfter : Int]

-----------------------------------------------------------------------------
(* Changes, as the callers of the ledger build them. *)

Change == [kind : {"movement", "reservation"}, pair : Pairs, type : MovementTypes,
           delta : Int, reservedDelta : Int, respects : BOOLEAN]

(* A movement with applyMovement's default: only a decrease must leave the *)
(* reserved units in place.                                                *)
MovementOf(p, type, delta) ==
    [kind |-> "movement", pair |-> p, type |-> type,
     delta |-> delta, reservedDelta |-> 0, respects |-> delta < 0]

(* Manual adjustments and bulk job lines.  Zero is what applyMovement's own *)
(* guard is for: its callers check for it too, its unit tests pass it.      *)
Adjust(p, d) == MovementOf(p, "ADJUSTMENT", d)

(* Recorded inbound and outbound goods. *)
RecordIn(p, n) == MovementOf(p, "INBOUND", n)
RecordOut(p, n) == MovementOf(p, "OUTBOUND", -n)

(* Both ends of a stock transfer. *)
TransferOut(p, n) == MovementOf(p, "TRANSFER_OUT", -n)
TransferIn(p, n) == MovementOf(p, "TRANSFER_IN", n)

(* A sales order ships units it has itself reserved: the promise is       *)
(* consumed with the goods, so the reservation check is off.              *)
Ship(p, n) ==
    [kind |-> "movement", pair |-> p, type |-> "OUTBOUND",
     delta |-> -n, reservedDelta |-> -n, respects |-> FALSE]

(* A reservation moves no goods; d is negative when an order is cancelled. *)
Reserve(p, d) ==
    [kind |-> "reservation", pair |-> p, type |-> "ADJUSTMENT",
     delta |-> 0, reservedDelta |-> d, respects |-> FALSE]

-----------------------------------------------------------------------------
(* The decision on a change, before a row is read and after. *)

(* assertDirection: the sign of the delta agrees with the type. *)
DirectionOK(c) ==
    /\ c.type \in IncreasingTypes => c.delta >= 0
    /\ c.type \in DecreasingTypes => c.delta <= 0

(* applyMovement refuses these before it looks at the row; adjustReservation *)
(* has no such check.                                                        *)
Malformed(c) ==
    /\ c.kind = "movement"
    /\ ~DirectionOK(c) \/ (c.delta = 0 /\ c.reservedDelta = 0)

NextQuantity(c, level) == level.quantity + c.delta
NextReserved(c, level) == level.reserved + c.reservedDelta

(* Two mutants of RefusedOn: a promise can be released twice; a dispatch may *)
(* take the units promised to orders.                                        *)
RefusesNoDoubleRelease(c, level) ==
    \/ /\ c.kind = "movement"
       /\ \/ NextQuantity(c, level) < 0
          \/ c.respects /\ NextQuantity(c, level) < NextReserved(c, level)
    \/ /\ c.kind = "reservation"
       /\ NextReserved(c, level) > level.quantity
IgnoresPromises(c, level) ==
    \/ NextReserved(c, level) < 0
    \/ c.kind = "movement" /\ NextQuantity(c, level) < 0
    \/ c.kind = "reservation" /\ NextReserved(c, level) > level.quantity

(* The 409 answers, given the row that was read. *)
RefusedOn(c, level) ==
    \/ NextReserved(c, level) < 0
    \/ /\ c.kind = "movement"
       /\ \/ NextQuantity(c, level) < 0
          \/ c.respects /\ NextQuantity(c, level) < NextReserved(c, level)
    \/ /\ c.kind = "reservation"
       /\ NextReserved(c, level) > level.quantity

(* The UPDATE that Postgres rejects: a value past the column's range. *)
OutOfRange(c, level) ==
    \/ NextQuantity(c, level) > MaxInt
    \/ NextReserved(c, level) > MaxInt

(* The row the UPDATE leaves.  A movement writes both columns, computed from  *)
(* the row that was read; a reservation writes one and leaves the quantity    *)
(* the row has by then.                                                       *)
RowAfter(c, read, current) ==
    IF c.kind = "movement"
    THEN [quantity |-> NextQuantity(c, read), reserved |-> NextReserved(c, read)]
    ELSE [current EXCEPT !.reserved = NextReserved(c, read)]

Magnitude(n) == IF n < 0 THEN -n ELSE n

(* The ledger rows a change appends: one when goods move, else none. *)
LedgerRowsOf(c, read) ==
    IF c.delta = 0 THEN <<>>
    ELSE << [type |-> c.type, quantity |-> Magnitude(c.delta),
             balanceAfter |-> NextQuantity(c, read)] >>

-----------------------------------------------------------------------------
(* What the rows promise. *)

NonNegative(level) == level.quantity >= 0 /\ level.reserved >= 0
Covered(level) == level.reserved <= level.quantity

(* A row accounts for the step from one balance to the next: by exactly its  *)
(* quantity, in the direction of its type.  An ADJUSTMENT has no direction.  *)
Accounts(row, before) ==
    \/ row.balanceAfter = before + row.quantity /\ row.type \notin DecreasingTypes
    \/ row.balanceAfter = before - row.quantity /\ row.type \notin IncreasingTypes

(* The balance a ledger reports, starting from a given one. *)
Balance(rows, start) == IF rows = <<>> THEN start ELSE rows[Len(rows)].balanceAfter

(* Every row of a ledger accounts for the step from the row before it. *)
Unbroken(rows, start) ==
    \A i \in 1..Len(rows) :
        Accounts(rows[i], IF i = 1 THEN start ELSE rows[i - 1].balanceAfter)
=============================================================================
