CONSTANTS
    a = a
    b = b
    north = north
    south = south
    NoRow = NoRow
    NoTransfer = NoTransfer
    Products = {a, b}
    Warehouses = {north, south}
    Transfers = {t1, t2}
    Requests = {r1, r2, r3, r4}
    MaxInt = 2
    Pairs <- MCPairs
    Shapes <- MCShapes
    Opening <- MCOpening
    OtherChanges <- MCOtherChanges

SPECIFICATION Spec

INVARIANT CompletedNetsToZero
