SPECIFICATION Spec
CONSTANTS
    r1 = r1
    r2 = r2
    r3 = r3
    p1 = p1
    p2 = p2
    n1 = n1
    n2 = n2
    n3 = n3
    Requests <- MCPair
    RangeIds <- MCRangeIds
    Names <- MCNames
    FirstName = n1
    Nobody = Nobody
CHECK_DEADLOCK FALSE
INVARIANTS
    CompletedResultPreserved
