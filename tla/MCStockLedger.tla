---------------------------- MODULE MCStockLedger ----------------------------
(* A small instance of StockLedger for TLC. *)
EXTENDS StockLedgerClaims, TLC

CONSTANTS p1, p2, p3

(* p1 has stock, one unit of it promised; p2 has no row yet; the product of *)
(* p3 is not in the organisation.                                           *)
MCOpening == (p1 :> [quantity |-> 2, reserved |-> 1]) @@ (p2 :> NoRow) @@ (p3 :> NoRow)

MCKnownPairs == {p1, p2}

(* One program per caller, and the two opposite orders of a pair of lines.  *)
MCPrograms ==
    { <<Adjust(p1, -1)>>,
      <<Adjust(p1, 0)>>,
      <<RecordIn(p2, 2)>>,
      <<RecordOut(p1, 2)>>,
      <<RecordIn(p3, 1)>>,
      <<Ship(p1, 1), TransferOut(p2, 1)>>,
      <<TransferIn(p2, 1), TransferIn(p1, 2)>>,
      <<Reserve(p1, 1), Reserve(p2, 1)>>,
      <<Reserve(p1, -1)>> }

(* For the claims: first movements of p2 that race, and a count that finds  *)
(* more than the books say.                                                 *)
MCFirstMovements == { <<RecordIn(p2, 1)>>, <<RecordIn(p2, 2)>> }
MCCorrections == { <<Adjust(p1, 1)>>, <<Adjust(p1, -1)>> }
=============================================================================
