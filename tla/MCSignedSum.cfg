CONSTANTS
    p1 = p1
    p2 = p2
    p3 = p3
    NoRow = NoRow
    NoRequest = NoRequest
    Pairs = {p1, p2, p3}
    Requests = {r1, r2, r3}
    MaxInt = 4
    KnownPairs <- MCKnownPairs
    Programs <- MCCorrections
    Opening <- MCOpening

SPECIFICATION Spec

INVARIANT SignedSumReconciles
