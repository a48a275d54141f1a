SPECIFICATION Spec
CONSTANTS
    r1 = r1
    r2 = r2
    r3 = r3
    p1 = p1
    p2 = p2
    None = None
    Requests <- MCPair
    PartIds <- MCPartIds
    FoundWhileStarting = TRUE
CHECK_DEADLOCK FALSE
INVARIANTS
    CompletionNotReplayed
