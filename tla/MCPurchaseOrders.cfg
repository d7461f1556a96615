CONSTANTS
    a = a
    b = b
    NoRow = NoRow
    NoOrder = NoOrder
    Pairs = {a, b}
    Orders = {o1, o2}
    Requests = {r1, r2, r3, r4}
    MaxInt = 3
    Versions = {0, 1}
    LineSets <- MCLineSets
    ReceiptLists <- MCReceiptLists
    Opening <- MCOpening

SPECIFICATION Spec

SYMMETRY Symmetry

INVARIANTS
    TypeOK
    LinesReconcile
    ReceiptsAreOnTheShelf
    StatusMatchesLines
