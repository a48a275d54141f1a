SPECIFICATION Spec
CONSTANTS
    r1 = r1
    r2 = r2
    r3 = r3
    p1 = p1
    p2 = p2
    None = None
    Requests <- MCRequests
    PartIds <- MCPartIds
    FoundWhileStarting = FALSE
SYMMETRY Symmetry
CHECK_DEADLOCK FALSE
INVARIANTS
    TypeOK
    CompletionNotReplayed
    PublishedAsIdentified
    CleanupKnown
PROPERTIES
    KeepsPromise
    NeverReplacesOthers
