--------------------------- MODULE MCPurchaseOrders ---------------------------
(* A small instance of PurchaseOrders for TLC. *)
EXTENDS PurchaseOrders, TLC

CONSTANTS a, b

(* Room for one order of two of a, not for two of them. *)
MCOpening == (a :> [quantity |-> 0, reserved |-> 0]) @@ (b :> [quantity |-> 1, reserved |-> 1])

(* Replacements that overlap and replacements that do not. *)
MCLineSets == { [p \in {a} |-> 2], [p \in {b} |-> 1], [p \in {a, b} |-> 1] }

(* Everything, one unit of a line, and one line named twice. *)
MCReceiptLists ==
    { <<>>, <<[pair |-> a, quantity |-> 1]>>, <<[pair |-> b, quantity |-> 1]>>,
      <<[pair |-> a, quantity |-> 1], [pair |-> a, quantity |-> 1]>> }

(* Requests and orders are interchangeable; no property is about progress. *)
Symmetry == Permutations(Requests) \cup Permutations(Orders)
=============================================================================
