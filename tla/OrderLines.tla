------------------------------ MODULE OrderLines ------------------------------
(***************************************************************************)
(* The lines of an order, as sales and purchase orders share them: a       *)
(* quantity that was ordered and the part of it that has moved so far,     *)
(* fulfilledQuantity of a sales order, receivedQuantity of a purchase      *)
(* order.  The orders are those of one warehouse and a product is on one   *)
(* line of an order, so a line is known by its pair.                       *)
(***************************************************************************)
EXTENDS StockRows, FiniteSets, SequencesExt

ASSUME FinitePairsAssumption == IsFiniteSet(Pairs)

(* The version of the order that inserted a line stands for the line's id. *)
Line == [quantity : Nat, moved : Nat, insertedAt : Nat \ {0}]
LineTable == UNION {[pairs -> Line] : pairs \in SUBSET Pairs}
IsLineTable(lines) == DOMAIN lines \subseteq Pairs /\ lines \in [DOMAIN lines -> Line]

(* The lines of a payload: at least one, each product once, and positive    *)
(* quantities.                                                              *)
ValidLines(quantities) ==
    /\ DOMAIN quantities \subseteq Pairs /\ DOMAIN quantities # {}
    /\ \A p \in DOMAIN quantities : quantities[p] \in Nat /\ quantities[p] > 0

(* The items of a fulfil or receive request: positive quantities, and       *)
(* nothing about repeats.                                                   *)
Item == [pair : Pairs, quantity : Nat \ {0}]
ValidItems(items) == items \in Seq(Item)

FreshLines(quantities, version) ==
    [p \in DOMAIN quantities |->
        [quantity |-> quantities[p], moved |-> 0, insertedAt |-> version]]

(* An INSERT of lines next to those that are there. *)
Inserted(lines, quantities, version) ==
    LET fresh == FreshLines(quantities, version) IN
    [p \in DOMAIN lines \cup DOMAIN fresh |->
        IF p \in DOMAIN lines THEN lines[p] ELSE fresh[p]]

Outstanding(lines, p) == lines[p].quantity - lines[p].moved
OutstandingPairs(lines) == {p \in DOMAIN lines : Outstanding(lines, p) > 0}
Complete(lines) == \A p \in DOMAIN lines : lines[p].moved >= lines[p].quantity

-----------------------------------------------------------------------------
(* resolveShipments and resolveReceipts, on the lines the request loaded. *)

(* The items a request names, or everything outstanding if it names none. *)
ItemsOf(lines, items) ==
    IF items # <<>> THEN items
    ELSE LET open == SetToSeq(OutstandingPairs(lines)) IN
         [i \in DOMAIN open |-> [pair |-> open[i], quantity |-> Outstanding(lines, open[i])]]

NamesLines(lines, items) ==     \* mutant of ItemsOK: what is outstanding is not compared
    \A i \in DOMAIN items : items[i].pair \in DOMAIN lines

(* Every item is a line of the order with that much outstanding.  Each is   *)
(* compared on its own, and with the lines as they were loaded.             *)
ItemsOK(lines, items) ==
    \A i \in DOMAIN items :
        /\ items[i].pair \in DOMAIN lines
        /\ items[i].quantity <= Outstanding(lines, items[i].pair)

PairsOf(items) == {items[i].pair : i \in DOMAIN items}
NamesOneTwice(items) == Cardinality(PairsOf(items)) < Len(items)

-----------------------------------------------------------------------------
(* What a transaction does to the lines as they are by then. *)

(* The lines it loaded and names are still there: an UPDATE by id finds them. *)
StillThere(items, loaded, lines) ==
    \A p \in PairsOf(items) :
        p \in DOMAIN lines /\ lines[p].insertedAt = loaded[p].insertedAt

UnitsOf(items, p) ==
    SumFunction([i \in DOMAIN items |-> IF items[i].pair = p THEN items[i].quantity ELSE 0])

MoveLines(lines, items) ==
    [p \in DOMAIN lines |-> [lines[p] EXCEPT !.moved = @ + UnitsOf(items, p)]]

(* The lines a DELETE leaves that saw those inserted up to a version. *)
LinesLeft(lines, seen) ==
    [p \in {q \in DOMAIN lines : lines[q].insertedAt > seen} |-> lines[p]]

(* Stock changes one after the other, and whether every one is accepted. *)
Applied(rows, changes) ==
    FoldLeft(LAMBDA so_far, c :
                LET level == so_far.rows[c.pair] IN
                [rows |-> [so_far.rows EXCEPT ![c.pair] = RowAfter(c, level, level)],
                 accepted |-> /\ so_far.accepted
                              /\ ~RefusedOn(c, level) /\ ~OutOfRange(c, level)],
             [rows |-> rows, accepted |-> TRUE], changes)
=============================================================================
