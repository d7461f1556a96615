---------------------------- MODULE MCSalesOrders ----------------------------
(* A small instance of SalesOrders for TLC. *)
EXTENDS SalesOrders, TLC

CONSTANTS a, b

(* Enough of a for an order of two and one of one; one b to compete for. *)
MCOpening == (a :> [quantity |-> 3, reserved |-> 0]) @@ (b :> [quantity |-> 1, reserved |-> 0])

(* Replacements that overlap and replacements that do not. *)
MCLineSets == { [p \in {a} |-> 2], [p \in {b} |-> 1], [p \in {a, b} |-> 1] }

(* Everything, one unit of a line, and one line named twice. *)
MCShipmentLists ==
    { <<>>, <<[pair |-> a, quantity |-> 1]>>, <<[pair |-> b, quantity |-> 1]>>,
      <<[pair |-> a, quantity |-> 1], [pair |-> a, quantity |-> 1]>> }

MCOtherChanges == { RecordOut(b, 1) }

(* Requests and orders are interchangeable; no property is about progress. *)
Symmetry == Permutations(Requests) \cup Permutations(Orders)

(* For the claim: two units, one an order, and nobody else at the shelf. *)
MCTwoUnits == [p \in Pairs |-> [quantity |-> 2, reserved |-> 0]]
MCOneUnit == { [p \in {a} |-> 1] }
MCEverything == { <<>> }
MCNoOtherChanges == {}
=============================================================================
