----------------------------- MODULE MCTransfers -----------------------------
(* A small instance of Transfers for TLC. *)
EXTENDS Transfers, TLC

CONSTANTS a, b, north, south

MCPairs == Products \X Warehouses

(* Enough of a to send one transfer and not both; b is partly promised. *)
MCOpening ==
    (<<a, north>> :> [quantity |-> 1, reserved |-> 0])
    @@ (<<a, south>> :> [quantity |-> 0, reserved |-> 0])
    @@ (<<b, north>> :> [quantity |-> 2, reserved |-> 1])
    @@ (<<b, south>> :> [quantity |-> 1, reserved |-> 0])

(* Two lines out of north, the second of which may fail; one line back. *)
MCShapes ==
    { [source |-> north, destination |-> south, items |-> (a :> 1) @@ (b :> 1)],
      [source |-> south, destination |-> north, items |-> (b :> 1)] }

MCOtherChanges == { RecordOut(<<b, north>>, 1), RecordIn(<<a, north>>, 1), Reserve(<<b, south>>, 1) }
=============================================================================
